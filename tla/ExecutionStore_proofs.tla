----------------------- MODULE ExecutionStore_proofs -----------------------
(***************************************************************************)
(* Proofs about ExecutionStore, for any zones, quantities and bounds.      *)
(***************************************************************************)
EXTENDS ExecutionStore, FiniteSetTheorems, WellFoundedInduction, TLAPS

(***************************************************************************)
(* Induction.  The library's theorems of induction take a predicate as an  *)
(* operator; these two are about sets, and rest on < being well founded.   *)
(***************************************************************************)

(* A set of naturals that is not empty has a least element.                *)
LEMMA LeastNatural ==
  ASSUME NEW T, T \subseteq Nat, T # {}
  PROVE  \E x \in T : \A y \in T : x <= y
<1>1. PICK R : R = OpToRel(<, Nat)
  OBVIOUS
<1>2. IsWellFoundedOn(R, Nat)
  BY <1>1, NatLessThanWellFounded
<1>3. PICK x \in T : \A y \in T : ~(<<y, x>> \in R)
  BY <1>2, WFMin
<1>4. \A a, b \in Nat : a < b => <<a, b>> \in R
  BY <1>1 DEF OpToRel
<1>5. ASSUME NEW y \in T PROVE x <= y
  <2>1. x \in Nat /\ y \in Nat /\ ~(y < x)
    BY <1>3, <1>4
  <2> QED
    BY <2>1
<1> QED
  BY <1>5

(* A set with 0 and the successor of each of its members has them all.     *)
LEMMA Induction ==
  ASSUME NEW S, S \subseteq Nat, 0 \in S, \A n \in S : n + 1 \in S
  PROVE  \A n \in Nat : n \in S
<1> SUFFICES ASSUME NEW n \in Nat, n \notin S PROVE FALSE
  OBVIOUS
<1>1. PICK m \in Nat \ S : \A k \in Nat \ S : m <= k
  <2>1. Nat \ S # {} /\ Nat \ S \subseteq Nat
    OBVIOUS
  <2> QED
    BY <2>1, LeastNatural
<1>2. m # 0 /\ m \in Nat
  OBVIOUS
<1>3. m - 1 \in Nat /\ m - 1 \in S
  BY <1>1, <1>2
<1> QED
  BY <1>1, <1>2, <1>3

(* Cardinalities of the parts of a finite set.                             *)
LEMMA PartFacts ==
  ASSUME NEW S, IsFiniteSet(S), NEW s \in SUBSET S
  PROVE  /\ IsFiniteSet(s)
         /\ Cardinality(s) \in Nat
         /\ Cardinality(s) = 0 => s = {}
         /\ \A t \in SUBSET s :
              t # s => /\ Cardinality(t) \in Nat
                       /\ Cardinality(t) < Cardinality(s)
<1>1. IsFiniteSet(s)
  BY FS_Subset
<1>2. Cardinality(s) \in Nat
  BY <1>1, FS_CardinalityType
<1>3. Cardinality(s) = 0 => s = {}
  BY <1>1, FS_EmptySet
<1>4. ASSUME NEW t \in SUBSET s, t # s
      PROVE  Cardinality(t) \in Nat /\ Cardinality(t) < Cardinality(s)
  <2>1. IsFiniteSet(t) /\ Cardinality(t) <= Cardinality(s) /\ Cardinality(t) # Cardinality(s)
    BY <1>1, <1>4, FS_Subset
  <2>2. Cardinality(t) \in Nat
    BY <2>1, FS_CardinalityType
  <2> QED
    BY <1>2, <2>1, <2>2
<1> QED
  BY <1>1, <1>2, <1>3, <1>4

(* A class that has every part of S whose smaller parts it has, has S.     *)
LEMMA FiniteInduction ==
  ASSUME NEW S, IsFiniteSet(S), NEW C,
         \A s \in SUBSET S : (\A t \in SUBSET s : t # s => t \in C) => s \in C
  PROVE  S \in C
<1> DEFINE T == {n \in Nat : \A s \in SUBSET S : Cardinality(s) <= n => s \in C}
<1>1. 0 \in T
  <2>1. ASSUME NEW s \in SUBSET S, Cardinality(s) <= 0 PROVE s \in C
    <3>1. s = {}
      BY <2>1, PartFacts
    <3> QED
      BY <3>1
  <2> QED
    BY <2>1
<1>2. ASSUME NEW n \in T PROVE n + 1 \in T
  <2>1. n \in Nat /\ n + 1 \in Nat
    OBVIOUS
  <2>2. ASSUME NEW s \in SUBSET S, Cardinality(s) <= n + 1 PROVE s \in C
    <3>1. ASSUME NEW t \in SUBSET s, t # s PROVE t \in C
      <4>1. Cardinality(s) \in Nat /\ Cardinality(t) \in Nat /\ Cardinality(t) < Cardinality(s)
        BY <3>1, PartFacts
      <4>2. Cardinality(t) <= n /\ t \in SUBSET S
        BY <4>1, <2>1, <2>2
      <4> QED
        BY <4>2
    <3> QED
      BY <3>1
  <2> QED
    BY <2>1, <2>2
<1>3. \A n \in Nat : n \in T
  <2> HIDE DEF T
  <2>1. T \subseteq Nat
    BY DEF T
  <2> QED
    BY <1>1, <1>2, <2>1, Induction
<1>4. Cardinality(S) \in Nat /\ Cardinality(S) <= Cardinality(S) /\ S \in SUBSET S
  <2>1. S \in SUBSET S
    OBVIOUS
  <2>2. Cardinality(S) \in Nat
    BY <2>1, PartFacts
  <2> QED
    BY <2>1, <2>2
<1> QED
  BY <1>3, <1>4

(***************************************************************************)
(* Sums.  The folds of the library are over a function on the subsets of a *)
(* set, which exists when the set is finite.                               *)
(***************************************************************************)
Some(s) == CHOOSE x \in s : TRUE

Step(f, g, s) == IF s = {} THEN 0 ELSE f[Some(s)] + g[s \ {Some(s)}]

Sums(f, S) == CHOOSE g : g = [s \in SUBSET S |-> Step(f, g, s)]

(* The library's sum, in these words.                                      *)
LEMMA SumUnfold ==
  ASSUME NEW f, NEW S
  PROVE  SumFunctionOnSet(f, S) = Sums(f, S)[S]
BY DEF SumFunctionOnSet, FoldFunctionOnSet, MapThenFoldSet, Sums, Step, Some

(* The total of fills is a sum.                                            *)
LEMMA TotalUnfold ==
  ASSUME NEW f
  PROVE  Total(f) = SumFunctionOnSet(f, DOMAIN f)
BY DEF Total, FoldFunction, SumFunctionOnSet

(* An element of a set that is not empty.                                  *)
LEMMA SomeFacts ==
  ASSUME NEW s, s # {}
  PROVE  Some(s) \in s
BY DEF Some

(* The function of the sums of the subsets of a finite set exists.         *)
LEMMA SumsExist ==
  ASSUME NEW f, NEW S, IsFiniteSet(S)
  PROVE  Sums(f, S) = [s \in SUBSET S |-> Step(f, Sums(f, S), s)]
<1> DEFINE Small(n) == {s \in SUBSET S : Cardinality(s) <= n}
           T == {n \in Nat : \E g : g = [s \in Small(n) |-> Step(f, g, s)]}
<1>0. \A s \in SUBSET S : s # {} => /\ s \ {Some(s)} \in SUBSET S
                                    /\ Cardinality(s) \in Nat
                                    /\ Cardinality(s \ {Some(s)}) \in Nat
                                    /\ Cardinality(s \ {Some(s)}) < Cardinality(s)
  <2> SUFFICES ASSUME NEW s \in SUBSET S, s # {}
               PROVE  /\ s \ {Some(s)} \in SUBSET S
                      /\ Cardinality(s) \in Nat
                      /\ Cardinality(s \ {Some(s)}) \in Nat
                      /\ Cardinality(s \ {Some(s)}) < Cardinality(s)
    OBVIOUS
  <2>1. s \ {Some(s)} \in SUBSET s /\ s \ {Some(s)} # s
    BY SomeFacts
  <2> QED
    BY <2>1, PartFacts
<1>1. 0 \in T
  <2> DEFINE g == [s \in Small(0) |-> 0]
  <2>1. ASSUME NEW s \in Small(0) PROVE s = {}
    BY <2>1, PartFacts
  <2>2. ASSUME NEW h PROVE \A s \in Small(0) : Step(f, h, s) = 0
    BY <2>1 DEF Step
  <2>3. g = [s \in Small(0) |-> Step(f, g, s)]
    BY <2>2
  <2> HIDE DEF g
  <2> QED
    BY <2>3
<1>2. ASSUME NEW n \in T PROVE n + 1 \in T
  <2>1. n \in Nat /\ n + 1 \in Nat
    OBVIOUS
  <2>2. PICK g : g = [s \in Small(n) |-> Step(f, g, s)]
    OBVIOUS
  <2> DEFINE h == [s \in Small(n + 1) |-> Step(f, g, s)]
  <2>3. ASSUME NEW s \in Small(n + 1) PROVE Step(f, g, s) = Step(f, h, s)
    <3>1. CASE s = {}
      BY <3>1 DEF Step
    <3>2. CASE s # {}
      <4> DEFINE t == s \ {Some(s)}
      <4>1. t \in Small(n) /\ t \in Small(n + 1)
        <5>1. /\ t \in SUBSET S /\ Cardinality(s) \in Nat /\ Cardinality(t) \in Nat
              /\ Cardinality(t) < Cardinality(s) /\ Cardinality(s) <= n + 1
          BY <1>0, <3>2
        <5>2. Cardinality(t) <= n /\ Cardinality(t) <= n + 1
          BY <5>1, <2>1
        <5> QED
          BY <5>1, <5>2
      <4>2. g[t] = Step(f, g, t)
        BY <4>1, <2>2
      <4>3. h[t] = Step(f, g, t)
        BY <4>1
      <4> HIDE DEF h
      <4> QED
        BY <3>2, <4>2, <4>3 DEF Step
    <3> QED
      BY <3>1, <3>2
  <2>4. h = [s \in Small(n + 1) |-> Step(f, h, s)]
    BY <2>3
  <2> HIDE DEF h
  <2> QED
    BY <2>1, <2>4
<1>3. \A n \in Nat : n \in T
  <2> HIDE DEF T
  <2>1. T \subseteq Nat
    BY DEF T
  <2> QED
    BY <1>1, <1>2, <2>1, Induction
<1>4. Cardinality(S) \in Nat /\ Small(Cardinality(S)) = SUBSET S
  <2>1. Cardinality(S) \in Nat
    BY FS_CardinalityType
  <2>2. \A s \in SUBSET S : Cardinality(s) <= Cardinality(S)
    BY FS_Subset
  <2> QED
    BY <2>1, <2>2
<1>5. \E g : g = [s \in SUBSET S |-> Step(f, g, s)]
  BY <1>3, <1>4
<1> QED
  BY <1>5 DEF Sums

(* Its value at a subset.                                                  *)
LEMMA SumsAt ==
  ASSUME NEW f, NEW S, IsFiniteSet(S), NEW s \in SUBSET S
  PROVE  Sums(f, S)[s] = Step(f, Sums(f, S), s)
<1> DEFINE g == Sums(f, S)
<1>1. g = [t \in SUBSET S |-> Step(f, g, t)]
  BY SumsExist, ZenonT(40)
<1> HIDE DEF g
<1>2. g[s] = Step(f, g, s)
  BY <1>1
<1> QED
  BY <1>2 DEF g

(* Sums of functions that agree on a set are equal on it.                  *)
LEMMA SumsAgree ==
  ASSUME NEW f, NEW g, NEW U, NEW V, NEW s,
         IsFiniteSet(U), IsFiniteSet(V), s \subseteq U, s \subseteq V,
         \A x \in s : f[x] = g[x]
  PROVE  Sums(f, U)[s] = Sums(g, V)[s]
<1> DEFINE C == {t \in SUBSET s : Sums(f, U)[t] = Sums(g, V)[t]}
<1>1. ASSUME NEW t \in SUBSET s, \A r \in SUBSET t : r # t => r \in C
      PROVE  t \in C
  <2>1. t \in SUBSET U /\ t \in SUBSET V
    OBVIOUS
  <2>2. Sums(f, U)[t] = Step(f, Sums(f, U), t) /\ Sums(g, V)[t] = Step(g, Sums(g, V), t)
    <3>1. Sums(f, U)[t] = Step(f, Sums(f, U), t)
      BY <2>1, SumsAt
    <3>2. Sums(g, V)[t] = Step(g, Sums(g, V), t)
      BY <2>1, SumsAt
    <3> QED
      BY <3>1, <3>2
  <2>3. CASE t = {}
    BY <2>2, <2>3 DEF Step
  <2>4. CASE t # {}
    <3>1. Some(t) \in t /\ t \ {Some(t)} \in C
      BY <1>1, <2>4, SomeFacts
    <3>2. f[Some(t)] = g[Some(t)] /\ Sums(f, U)[t \ {Some(t)}] = Sums(g, V)[t \ {Some(t)}]
      BY <3>1
    <3> QED
      BY <2>2, <2>4, <3>2 DEF Step
  <2> QED
    BY <2>3, <2>4
<1>2. IsFiniteSet(s)
  BY FS_Subset
<1>3. s \in C
  <2> HIDE DEF C
  <2> QED
    BY <1>1, <1>2, FiniteInduction
<1> QED
  BY <1>3

(* Sums over one set of functions that agree on it.                        *)
LEMMA SumAgree ==
  ASSUME NEW f, NEW g, NEW S, IsFiniteSet(S), \A x \in S : f[x] = g[x]
  PROVE  SumFunctionOnSet(f, S) = SumFunctionOnSet(g, S)
<1>1. Sums(f, S)[S] = Sums(g, S)[S]
  BY SumsAgree
<1> QED
  BY <1>1, SumUnfold

(* The sum of nothing, and one step of the fold.                           *)
LEMMA SumStep ==
  ASSUME NEW f, NEW S, IsFiniteSet(S)
  PROVE  /\ S = {} => SumFunctionOnSet(f, S) = 0
         /\ S # {} => SumFunctionOnSet(f, S)
                        = f[Some(S)] + SumFunctionOnSet(f, S \ {Some(S)})
<1>1. Sums(f, S)[S] = Step(f, Sums(f, S), S)
  BY SumsAt
<1>2. Sums(f, S)[S \ {Some(S)}] = Sums(f, S \ {Some(S)})[S \ {Some(S)}]
  <2>1. IsFiniteSet(S \ {Some(S)})
    BY FS_RemoveElement
  <2> QED
    BY <2>1, SumsAgree
<1> QED
  BY <1>1, <1>2, SumUnfold DEF Step

(* A sum of naturals is a natural.                                         *)
LEMMA SumNat ==
  ASSUME NEW f, NEW S, IsFiniteSet(S), \A x \in S : f[x] \in Nat
  PROVE  SumFunctionOnSet(f, S) \in Nat
<1> DEFINE C == {t \in SUBSET S : SumFunctionOnSet(f, t) \in Nat}
<1>1. ASSUME NEW t \in SUBSET S, \A r \in SUBSET t : r # t => r \in C
      PROVE  t \in C
  <2>1. IsFiniteSet(t)
    BY PartFacts
  <2>2. CASE t = {}
    <3>1. SumFunctionOnSet(f, t) = 0
      BY <2>1, <2>2, SumStep
    <3> QED
      BY <3>1
  <2>3. CASE t # {}
    <3>1. Some(t) \in t /\ t \ {Some(t)} \in C
      BY <1>1, <2>3, SomeFacts
    <3>2. f[Some(t)] \in Nat /\ SumFunctionOnSet(f, t \ {Some(t)}) \in Nat
      BY <3>1
    <3> QED
      BY <2>1, <2>3, <3>2, SumStep
  <2> QED
    BY <2>2, <2>3
<1>2. S \in C
  <2> HIDE DEF C
  <2> QED
    BY <1>1, FiniteInduction
<1> QED
  BY <1>2

(* A sum does not depend on the order: any element may be taken first.     *)
LEMMA SumRemove ==
  ASSUME NEW f, NEW S, IsFiniteSet(S), \A x \in S : f[x] \in Nat, NEW x \in S
  PROVE  SumFunctionOnSet(f, S) = f[x] + SumFunctionOnSet(f, S \ {x})
<1> DEFINE C == {t \in SUBSET S : \A y \in t :
                   SumFunctionOnSet(f, t) = f[y] + SumFunctionOnSet(f, t \ {y})}
<1>1. ASSUME NEW t \in SUBSET S, \A r \in SUBSET t : r # t => r \in C
      PROVE  t \in C
  <2> SUFFICES ASSUME NEW y \in t
               PROVE  SumFunctionOnSet(f, t) = f[y] + SumFunctionOnSet(f, t \ {y})
    OBVIOUS
  <2> DEFINE c == Some(t)
  <2>1. c \in t /\ IsFiniteSet(t)
    BY SomeFacts, PartFacts
  <2>2. SumFunctionOnSet(f, t) = f[c] + SumFunctionOnSet(f, t \ {c})
    BY <2>1, SumStep
  <2> HIDE DEF c
  <2>3. CASE y = c
    BY <2>2, <2>3
  <2>4. CASE y # c
    <3>1. t \ {c} \in C /\ t \ {y} \in C /\ y \in t \ {c} /\ c \in t \ {y}
      BY <1>1, <2>1, <2>4
    <3>2. SumFunctionOnSet(f, t \ {c}) = f[y] + SumFunctionOnSet(f, (t \ {c}) \ {y})
      BY <3>1
    <3>3. SumFunctionOnSet(f, t \ {y}) = f[c] + SumFunctionOnSet(f, (t \ {y}) \ {c})
      BY <3>1
    <3>4. (t \ {c}) \ {y} = (t \ {y}) \ {c}
      OBVIOUS
    <3>5. SumFunctionOnSet(f, (t \ {y}) \ {c}) \in Nat /\ f[c] \in Nat /\ f[y] \in Nat
      <4>1. IsFiniteSet((t \ {y}) \ {c})
        BY PartFacts
      <4> QED
        BY <2>1, <4>1, SumNat
    <3> QED
      BY <2>2, <3>2, <3>3, <3>4, <3>5
  <2> QED
    BY <2>3, <2>4
<1>2. S \in C
  <2> HIDE DEF C
  <2> QED
    BY <1>1, FiniteInduction
<1> QED
  BY <1>2

(* Changing one value of the function changes its sum by the difference.   *)
LEMMA SumChange ==
  ASSUME NEW f, NEW g, NEW S, IsFiniteSet(S), NEW x \in S,
         \A y \in S : f[y] \in Nat /\ g[y] \in Nat,
         \A y \in S \ {x} : f[y] = g[y]
  PROVE  /\ SumFunctionOnSet(f, S) \in Nat
         /\ SumFunctionOnSet(g, S) \in Nat
         /\ SumFunctionOnSet(g, S) + f[x] = SumFunctionOnSet(f, S) + g[x]
<1>1. SumFunctionOnSet(f, S) \in Nat /\ SumFunctionOnSet(g, S) \in Nat
  BY SumNat
<1>2. IsFiniteSet(S \ {x})
  BY FS_RemoveElement
<1>3. SumFunctionOnSet(f, S \ {x}) = SumFunctionOnSet(g, S \ {x})
  BY <1>2, SumAgree
<1>4. SumFunctionOnSet(f, S \ {x}) \in Nat
  BY <1>2, SumNat
<1>5. SumFunctionOnSet(f, S) = f[x] + SumFunctionOnSet(f, S \ {x})
  BY SumRemove
<1>6. SumFunctionOnSet(g, S) = g[x] + SumFunctionOnSet(g, S \ {x})
  BY SumRemove
<1>7. f[x] \in Nat /\ g[x] \in Nat
  OBVIOUS
<1> QED
  BY <1>1, <1>3, <1>4, <1>5, <1>6, <1>7

(* A sum over one element.                                                 *)
LEMMA SumOne ==
  ASSUME NEW f, NEW x, f[x] \in Nat
  PROVE  SumFunctionOnSet(f, {x}) = f[x]
<1>1. IsFiniteSet({x}) /\ IsFiniteSet({})
  BY FS_Singleton, FS_EmptySet
<1>2. SumFunctionOnSet(f, {x}) = f[x] + SumFunctionOnSet(f, {x} \ {x})
  BY <1>1, SumRemove
<1>3. {x} \ {x} = {} /\ SumFunctionOnSet(f, {}) = 0
  BY <1>1, SumStep
<1> QED
  BY <1>2, <1>3

-----------------------------------------------------------------------------
(***************************************************************************)
(* Records.                                                                *)
(***************************************************************************)
AllRecords == UNION {Records(labels) : labels \in SUBSET Labels}

(* There are finitely many labels.                                         *)
LEMMA LabelsFinite == IsFiniteSet(Labels)
<1>1. IsFiniteSet({<<"Exit", 0>>, <<"SL", 0>>})
  <2>1. IsFiniteSet({<<"Exit", 0>>} \cup {<<"SL", 0>>})
    BY FS_Singleton, FS_AddElement, ZenonT(40)
  <2>2. {<<"Exit", 0>>} \cup {<<"SL", 0>>} = {<<"Exit", 0>>, <<"SL", 0>>}
    OBVIOUS
  <2> QED
    BY <2>1, <2>2
<1>2. IsFiniteSet({"TP", "Reduce"} \X Seconds)
  <2>1. IsFiniteSet({"TP"} \cup {"Reduce"})
    BY FS_Singleton, FS_AddElement
  <2>2. {"TP"} \cup {"Reduce"} = {"TP", "Reduce"}
    OBVIOUS
  <2>3. IsFiniteSet(Seconds)
    BY FS_Interval, ConstantsAssumption DEF Seconds
  <2> QED
    BY <2>1, <2>2, <2>3, FS_Product
<1> QED
  BY <1>1, <1>2, FS_Union DEF Labels

(* A record by its fields.                                                 *)
LEMMA RecordFacts ==
  ASSUME NEW r \in AllRecords
  PROVE  /\ r # None
         /\ r.entry \in Nat \ {0}
         /\ r.cur \in Nat
         /\ DOMAIN r.fills \in SUBSET Labels
         /\ r.fills = [l \in DOMAIN r.fills |-> r.fills[l]]
         /\ \A l \in DOMAIN r.fills : r.fills[l] \in Nat \ {0}
         /\ r.closed \in BOOLEAN
         /\ r.outside \in BOOLEAN
         /\ r.time \in Seconds
         /\ DOMAIN r = {"entry", "cur", "fills", "closed", "outside", "time"}
         /\ IsRecord(r)
<1>1. PICK labels \in SUBSET Labels : r \in Records(labels)
  BY DEF AllRecords
<1>2. r \in [entry : Nat \ {0}, cur : Nat, fills : [labels -> Nat \ {0}],
             closed : BOOLEAN, outside : BOOLEAN, time : Seconds]
  BY <1>1 DEF Records
<1>3. r.fills \in [labels -> Nat \ {0}] /\ DOMAIN r.fills = labels
  BY <1>2
<1>4. r # None
  BY <1>1, NoneAssumption
<1>5. IsRecord(r)
  BY <1>1, <1>3 DEF IsRecord
<1> QED
  BY <1>2, <1>3, <1>4, <1>5

(* What has the fields of a record is one.                                 *)
LEMMA RecordMade ==
  ASSUME NEW e \in Nat \ {0}, NEW c \in Nat, NEW labels \in SUBSET Labels,
         NEW f \in [labels -> Nat \ {0}], NEW closed \in BOOLEAN,
         NEW o \in BOOLEAN, NEW t \in Seconds
  PROVE  [entry |-> e, cur |-> c, fills |-> f, closed |-> closed,
          outside |-> o, time |-> t] \in AllRecords
BY DEF AllRecords, Records

(* The fills of a record add up, and so does what they leave.              *)
LEMMA LeftFacts ==
  ASSUME NEW r \in AllRecords
  PROVE  /\ IsFiniteSet(DOMAIN r.fills)
         /\ Total(r.fills) \in Nat
         /\ LeftOf(r) \in Nat
         /\ LeftOf(r) > 0 => LeftOf(r) = r.entry - Total(r.fills)
         /\ LeftOf(r) >= r.entry - Total(r.fills)
         /\ LeftOf(r) = 0 => Total(r.fills) >= r.entry
<1>1. IsFiniteSet(DOMAIN r.fills)
  BY LabelsFinite, FS_Subset, RecordFacts
<1>2. \A l \in DOMAIN r.fills : r.fills[l] \in Nat
  BY RecordFacts
<1>3. Total(r.fills) \in Nat
  BY <1>1, <1>2, SumNat, TotalUnfold
<1>4. r.entry \in Nat
  BY RecordFacts
<1> QED
  BY <1>1, <1>3, <1>4 DEF LeftOf

(* Without fills a record has all of its entries left.                     *)
LEMMA NoFills ==
  /\ Total(<<>>) = 0
  /\ DOMAIN <<>> = {}
  /\ <<>> \in [{} -> Nat \ {0}]
<1>1. DOMAIN <<>> = {} /\ <<>> \in [{} -> Nat \ {0}]
  OBVIOUS
<1>2. SumFunctionOnSet(<<>>, {}) = 0
  BY FS_EmptySet, SumStep
<1> QED
  BY <1>1, <1>2, TotalUnfold

(* Booking a fill adds its quantity to the total, or less if it replaces   *)
(* one under the same label.                                               *)
LEMMA BookedFacts ==
  ASSUME NEW r \in AllRecords, NEW label \in Labels, NEW q \in Nat \ {0}
  PROVE  /\ DOMAIN Booked(r.fills, label, q) = DOMAIN r.fills \cup {label}
         /\ DOMAIN r.fills \cup {label} \in SUBSET Labels
         /\ Booked(r.fills, label, q) \in [DOMAIN r.fills \cup {label} -> Nat \ {0}]
         /\ Total(Booked(r.fills, label, q)) \in Nat
         /\ Total(Booked(r.fills, label, q)) <= Total(r.fills) + q
         /\ label \notin DOMAIN r.fills =>
              Total(Booked(r.fills, label, q)) = Total(r.fills) + q
<1> DEFINE f == r.fills
           b == Booked(f, label, q)
           D == DOMAIN f
<1>1. /\ DOMAIN b = D \cup {label}
      /\ D \cup {label} \in SUBSET Labels
      /\ b \in [D \cup {label} -> Nat \ {0}]
  BY RecordFacts DEF Booked
<1>2. IsFiniteSet(D) /\ IsFiniteSet(D \cup {label}) /\ IsFiniteSet(D \ {label})
  BY LeftFacts, FS_AddElement, FS_RemoveElement
<1>3. \A l \in D : f[l] \in Nat
  BY RecordFacts
<1>4. b[label] = q /\ \A l \in D \ {label} : b[l] = f[l]
  BY DEF Booked
<1>5. \A l \in D \cup {label} : b[l] \in Nat
  BY <1>1
<1> HIDE DEF b, f, D
<1>6. SumFunctionOnSet(b, D \cup {label}) = q + SumFunctionOnSet(b, (D \cup {label}) \ {label})
  BY <1>2, <1>4, <1>5, SumRemove
<1>7. SumFunctionOnSet(b, D \ {label}) = SumFunctionOnSet(f, D \ {label})
  BY <1>2, <1>4, SumAgree
<1>8. (D \cup {label}) \ {label} = D \ {label}
  OBVIOUS
<1>9. SumFunctionOnSet(f, D) \in Nat /\ SumFunctionOnSet(f, D \ {label}) \in Nat
  BY <1>2, <1>3, SumNat
<1>10. label \in D => SumFunctionOnSet(f, D) = f[label] + SumFunctionOnSet(f, D \ {label})
  BY <1>2, <1>3, SumRemove
<1>11. label \notin D => D \ {label} = D
  OBVIOUS
<1>12. Total(b) = SumFunctionOnSet(b, D \cup {label}) /\ Total(f) = SumFunctionOnSet(f, D)
  BY <1>1, TotalUnfold DEF D
<1>13. Total(b) = q + SumFunctionOnSet(f, D \ {label})
  BY <1>6, <1>7, <1>8, <1>12
<1>14. Total(b) \in Nat /\ Total(b) <= Total(f) + q
  <2>1. CASE label \in D
    <3>1. f[label] \in Nat
      BY <1>3, <2>1
    <3> QED
      BY <1>9, <1>10, <1>12, <1>13, <2>1, <3>1
  <2>2. CASE label \notin D
    BY <1>9, <1>11, <1>12, <1>13, <2>2
  <2> QED
    BY <2>1, <2>2
<1>15. label \notin D => Total(b) = Total(f) + q
  BY <1>9, <1>11, <1>12, <1>13
<1> QED
  BY <1>1, <1>14, <1>15 DEF b, f, D

-----------------------------------------------------------------------------
(***************************************************************************)
(* The types of the state, messages and pending writes included.           *)
(***************************************************************************)
Closing == {"Close", "TakeProfit", "StopLoss"}

Message(kind, k, q, outside, t) ==
  [kind |-> kind, key |-> k, qty |-> q, outside |-> outside, time |-> t]

Report(size) == [kind |-> "Position", qty |-> size]

Messages ==
  [kind : {"Open"}, key : Keys, qty : Nat \ {0}, outside : BOOLEAN, time : Seconds]
    \cup [kind : Closing, key : {None}, qty : Nat \ {0}, outside : BOOLEAN, time : Seconds]
    \cup [kind : {"Position"}, qty : Nat]

Images == [Keys -> AllRecords \cup {None}]

Writes ==
  [op : {"save"}, image : Images]
    \cup [op : {"upsert", "fill"}, key : Keys, qty : Nat \ {0}]
    \cup [op : {"finalize", "deactivate"}, key : Keys]

TypeInv ==
  /\ held \in Nat /\ held <= MaxQty * orders
  /\ ordered \in SUBSET Zones
  /\ orders \in 0..MaxOrders
  /\ now \in Nat \ {0} /\ now <= 2 * orders + 1
  /\ up \in BOOLEAN
  /\ feed \in Seq(Messages)
  /\ todo \in Seq(Writes)
  /\ store \in Images
  /\ disk \in Images
  /\ rows \in [Keys -> Rows \cup {None}]
  /\ active \in SUBSET Zones
  /\ faults \in 0..MaxFaults
  /\ overlapped \in BOOLEAN
  /\ ~up => feed = <<>> /\ todo = <<>> /\ store = [k \in Keys |-> None]

(* A message by its fields.                                                *)
LEMMA MessageFacts ==
  ASSUME NEW m \in Messages
  PROVE  /\ m.kind \in Closing \cup {"Open", "Position"}
         /\ m.qty \in Nat
         /\ m.kind # "Position" => /\ m.qty \in Nat \ {0}
                                   /\ m.outside \in BOOLEAN
                                   /\ m.time \in Seconds
         /\ m.kind = "Open" => m.key \in Keys
BY DEF Messages, Closing

(* Messages are what the exchange reports.                                 *)
LEMMA MessageMade ==
  ASSUME NEW kind, NEW k, NEW q \in Nat \ {0}, NEW o \in BOOLEAN, NEW t \in Seconds,
         (kind = "Open" /\ k \in Keys) \/ (kind \in Closing /\ k = None)
  PROVE  Message(kind, k, q, o, t) \in Messages
BY DEF Message, Messages

(* A size report is a message.                                             *)
LEMMA ReportMade ==
  ASSUME NEW size \in Nat
  PROVE  Report(size) \in Messages
BY DEF Report, Messages

(* A write by its fields.                                                  *)
LEMMA WriteFacts ==
  ASSUME NEW w \in Writes
  PROVE  /\ w.op \in {"save", "upsert", "fill", "finalize", "deactivate"}
         /\ w.op = "save" => w.image \in Images
         /\ w.op # "save" => w.key \in Keys
         /\ w.op \in {"upsert", "fill"} => w.qty \in Nat \ {0}
BY DEF Writes

(* What the handlers queue are writes.                                     *)
LEMMA WriteMade ==
  /\ \A image \in Images : Save(image) \in Writes
  /\ \A k \in Keys, q \in Nat \ {0} : Upsert(k, q) \in Writes /\ Fill(k, q) \in Writes
  /\ \A k \in Keys : Finalize(k) \in Writes /\ Deactivate(k) \in Writes
BY DEF Save, Upsert, Fill, Finalize, Deactivate, Writes

(* Taking the head off a non-empty sequence.                               *)
LEMMA TailFacts ==
  ASSUME NEW S, NEW q \in Seq(S), q # <<>>
  PROVE  /\ Head(q) \in S
         /\ Head(q) = q[1]
         /\ 1 \in 1..Len(q)
         /\ Tail(q) \in Seq(S)
         /\ Len(Tail(q)) = Len(q) - 1
         /\ \A i \in 1..Len(Tail(q)) : Tail(q)[i] = q[i + 1] /\ i + 1 \in 1..Len(q)
         /\ \A i \in 1..Len(q) : i = 1 \/ (i - 1 \in 1..Len(Tail(q)) /\ Tail(q)[i - 1] = q[i])
  OBVIOUS

(* An image by its records.                                                *)
LEMMA ImageFacts ==
  ASSUME NEW image \in Images, NEW k \in Keys
  PROVE  /\ image[k] # None => image[k] \in AllRecords
         /\ DOMAIN image = Keys
BY DEF Images

(* A store with one record put in.                                         *)
LEMMA ImageMade ==
  ASSUME NEW image \in Images, NEW k \in Keys, NEW r \in AllRecords
  PROVE  /\ [image EXCEPT ![k] = r] \in Images
         /\ [image EXCEPT ![k] = r][k] = r
         /\ \A j \in Keys \ {k} : [image EXCEPT ![k] = r][j] = image[j]
BY DEF Images

(* An open record of the store.                                            *)
LEMMA OpenFacts ==
  ASSUME TypeInv, NEW k \in OpenKeys
  PROVE  /\ k \in Keys
         /\ store[k] \in AllRecords
         /\ store[k] # None
         /\ ~store[k].closed
<1>1. k \in Keys /\ store[k] # None /\ ~store[k].closed
  BY DEF OpenKeys, IsOpen
<1> QED
  BY <1>1, ImageFacts DEF TypeInv

(***************************************************************************)
(* The handlers.  A handler takes the head of the feed and changes one     *)
(* record; what it makes of the record and which writes it queues follows. *)
(***************************************************************************)
Handled(kind) ==
  /\ up
  /\ todo = <<>>
  /\ feed # <<>>
  /\ Head(feed) \in Messages
  /\ Head(feed) = feed[1]
  /\ Head(feed).kind = kind
  /\ feed' = Tail(feed)

(* A handler takes one message and leaves the exchange and the rows alone. *)
LEMMA HandlingFacts ==
  ASSUME TypeInv, NEW kind, Handling(kind)
  PROVE  /\ Handled(kind)
         /\ UNCHANGED <<held, ordered, orders, now, up, disk, rows, active, faults>>
BY TailFacts DEF TypeInv, Handling, Handled, exchangeVars, dbVars

(* The entry handler: a new record, or more of an open one.                *)
Opened(k, r) ==
  LET m == Head(feed)
  IN /\ r \in AllRecords
     /\ IF k \in OpenKeys
          THEN /\ r.entry = store[k].entry + m.qty /\ r.cur = store[k].cur + m.qty
               /\ r.fills = store[k].fills
               /\ r.closed = store[k].closed /\ r.outside = store[k].outside
          ELSE /\ r.entry = m.qty /\ r.cur = m.qty /\ r.fills = <<>>
               /\ r.closed = FALSE /\ r.outside = FALSE
     /\ store' = [store EXCEPT ![k] = r]
     /\ todo' = <<Upsert(k, m.qty), Save(store')>>

(* What handle_execution_message() does with an entry.                     *)
LEMMA OpenHandled ==
  ASSUME TypeInv, HandleOpen
  PROVE  /\ Handled("Open")
         /\ UNCHANGED <<held, ordered, orders, now, up, disk, rows, active, faults>>
         /\ overlapped' = (overlapped \/ Cardinality(OpenKeys \cup {Head(feed).key}) > 1)
         /\ Head(feed).key \in Keys
         /\ \E r \in AllRecords : Opened(Head(feed).key, r)
<1> DEFINE m == Head(feed)
           k == m.key
           r == IF IsOpen(k)
                  THEN [store[k] EXCEPT !.entry = @ + m.qty, !.cur = @ + m.qty]
                  ELSE NewRecord(m)
<1>1. Handled("Open") /\ UNCHANGED <<held, ordered, orders, now, up, disk, rows, active, faults>>
  BY HandlingFacts DEF HandleOpen
<1>2. m \in Messages /\ m.kind = "Open"
  BY <1>1 DEF Handled
<1>3. k \in Keys /\ m.qty \in Nat \ {0} /\ m.time \in Seconds
  BY <1>2, MessageFacts
<1>4. /\ store' = [store EXCEPT ![k] = r]
      /\ overlapped' = (overlapped \/ Cardinality(OpenKeys \cup {k}) > 1)
      /\ todo' = <<Upsert(k, m.qty), Save(store')>>
  BY DEF HandleOpen, Recorded
<1>5. IsOpen(k) <=> k \in OpenKeys
  BY <1>3 DEF OpenKeys
<1>6. CASE k \in OpenKeys
  <2>1. store[k] \in AllRecords
    BY <1>6, OpenFacts
  <2> DEFINE o == store[k]
  <2>2. r = [o EXCEPT !.entry = o.entry + m.qty, !.cur = o.cur + m.qty]
    BY <1>5, <1>6
  <2>3. /\ o.entry \in Nat \ {0} /\ o.cur \in Nat /\ DOMAIN o.fills \in SUBSET Labels
        /\ o.fills \in [DOMAIN o.fills -> Nat \ {0}]
        /\ o.closed \in BOOLEAN /\ o.outside \in BOOLEAN /\ o.time \in Seconds
        /\ DOMAIN o = {"entry", "cur", "fills", "closed", "outside", "time"}
    BY <2>1, RecordFacts
  <2> HIDE DEF r, m, o
  <2>4. r = [entry |-> o.entry + m.qty, cur |-> o.cur + m.qty, fills |-> o.fills,
             closed |-> o.closed, outside |-> o.outside, time |-> o.time]
    BY <2>2, <2>3
  <2>5. o.entry + m.qty \in Nat \ {0} /\ o.cur + m.qty \in Nat
    BY <2>3, <1>3
  <2>6. r \in AllRecords
    BY <2>3, <2>4, <2>5, RecordMade
  <2>7. /\ r.entry = o.entry + m.qty /\ r.cur = o.cur + m.qty /\ r.fills = o.fills
        /\ r.closed = o.closed /\ r.outside = o.outside
    BY <2>4
  <2>8. Opened(k, r)
    BY <1>4, <1>6, <2>6, <2>7 DEF Opened, m, o
  <2> QED
    BY <1>1, <1>3, <1>4, <2>6, <2>8 DEF m
<1>7. CASE k \notin OpenKeys
  <2>1. r = [entry |-> m.qty, cur |-> m.qty, fills |-> <<>>, closed |-> FALSE,
             outside |-> FALSE, time |-> m.time]
    BY <1>5, <1>7 DEF NewRecord
  <2> HIDE DEF r, m
  <2>2. <<>> \in [{} -> Nat \ {0}] /\ {} \in SUBSET Labels
    BY NoFills
  <2>3. r \in AllRecords
    BY <1>3, <2>1, <2>2, RecordMade
  <2>4. /\ r.entry = m.qty /\ r.cur = m.qty /\ r.fills = <<>>
        /\ r.closed = FALSE /\ r.outside = FALSE
    BY <2>1
  <2>5. Opened(k, r)
    BY <1>4, <1>7, <2>3, <2>4 DEF Opened, m
  <2> QED
    BY <1>1, <1>3, <1>4, <2>3, <2>5 DEF m
<1> QED
  BY <1>6, <1>7

(* Closing orders find the newest open record, if there is one.            *)
LEMMA CloseTargetFacts ==
  ASSUME TypeInv, NEW k \in CloseTargets \ {None}
  PROVE  k \in OpenKeys
BY DEF CloseTargets, Newest

(* What is left of a record by both of its accounts.                       *)
Sure(r) == Least(r.cur, LeftOf(r))

(* The smaller of two sizes.                                               *)
LEMMA LeastFacts ==
  ASSUME NEW a \in Nat, NEW b \in Nat
  PROVE  /\ Least(a, b) \in Nat
         /\ Least(a, b) <= a
         /\ Least(a, b) <= b
         /\ Least(a, b) = a \/ Least(a, b) = b
BY DEF Least

(* The size taken for the truth is the smaller of the stored and the       *)
(* recalculated one.                                                       *)
LEMMA SureFacts ==
  ASSUME NEW r \in AllRecords
  PROVE  /\ Sure(r) \in Nat
         /\ Sure(r) <= r.cur
         /\ Sure(r) <= LeftOf(r)
         /\ Sure(r) = r.cur \/ Sure(r) = LeftOf(r)
<1>1. r.cur \in Nat /\ LeftOf(r) \in Nat
  BY RecordFacts, LeftFacts
<1> QED
  BY <1>1, LeastFacts DEF Sure

(* The close handler: the smaller account, less the fill.                  *)
Closed(k, r, full, stop) ==
  LET m == Head(feed)
      o == store[k]
  IN /\ full <=> Sure(o) <= m.qty
     /\ stop <=> full /\ k \in Zones /\ m.outside
     /\ r.entry = o.entry
     /\ r.cur = IF full THEN 0 ELSE Sure(o) - m.qty
     /\ r.fills = Booked(o.fills, IF full THEN <<"Exit", 0>> ELSE <<"Reduce", m.time>>, m.qty)
     /\ r.closed = full
     /\ r.outside = stop
     /\ store' = [store EXCEPT ![k] = r]
     /\ todo' = IF stop THEN <<Deactivate(k), Fill(k, m.qty), Finalize(k), Save(store')>>
                ELSE IF full THEN <<Fill(k, m.qty), Finalize(k), Save(store')>>
                ELSE <<Fill(k, m.qty), Save(store')>>

(* Putting short sequences one after the other.                            *)
LEMMA Joined1 ==
  ASSUME NEW a
  PROVE  <<>> \o <<a>> = <<a>> /\ <<a>> \o <<>> = <<a>>
  OBVIOUS

(* Sequences of queued writes put together: one and one,                   *)
LEMMA Joined2 ==
  ASSUME NEW a, NEW b
  PROVE  <<a>> \o <<b>> = <<a, b>> /\ <<a, b>> \o <<>> = <<a, b>>
<1> DEFINE S == {a, b}
           q == <<a>> \o <<b>>
<1>1. a \in S /\ b \in S
  OBVIOUS
<1> HIDE DEF S
<1>2. q \in Seq(S) /\ Len(q) = 2
  BY <1>1
<1>3. q[1] = a
  BY <1>1
<1>4. q[2] = b
  BY <1>1
<1> HIDE DEF q
<1>5. q = <<q[1], q[2]>>
  BY <1>2
<1> QED
  BY <1>3, <1>4, <1>5 DEF q

(* two and one,                                                            *)
LEMMA Joined3 ==
  ASSUME NEW a, NEW b, NEW c
  PROVE  <<a, b>> \o <<c>> = <<a, b, c>>
<1> DEFINE S == {a, b, c}
           q == <<a, b>> \o <<c>>
<1>1. a \in S /\ b \in S /\ c \in S
  OBVIOUS
<1> HIDE DEF S
<1>2. q \in Seq(S) /\ Len(q) = 3
  BY <1>1
<1>3. q[1] = a /\ q[2] = b
  BY <1>1
<1>4. q[3] = c
  BY <1>1
<1> HIDE DEF q
<1>5. q = <<q[1], q[2], q[3]>>
  BY <1>2
<1> QED
  BY <1>3, <1>4, <1>5 DEF q

(* one and two,                                                            *)
LEMMA Joined12 ==
  ASSUME NEW a, NEW b, NEW c
  PROVE  <<a>> \o <<b, c>> = <<a, b, c>>
<1> DEFINE S == {a, b, c}
           q == <<a>> \o <<b, c>>
<1>1. a \in S /\ b \in S /\ c \in S
  OBVIOUS
<1> HIDE DEF S
<1>2. q \in Seq(S) /\ Len(q) = 3
  BY <1>1
<1>3. q[1] = a
  BY <1>1
<1>4. q[2] = b /\ q[3] = c
  BY <1>1
<1> HIDE DEF q
<1>5. q = <<q[1], q[2], q[3]>>
  BY <1>2
<1> QED
  BY <1>3, <1>4, <1>5 DEF q

(* and four in both ways.                                                  *)
LEMMA Joined4 ==
  ASSUME NEW a, NEW b, NEW c, NEW d
  PROVE  /\ <<a, b, c>> \o <<d>> = <<a, b, c, d>>
         /\ <<a, b>> \o <<c, d>> = <<a, b, c, d>>
<1> DEFINE S == {a, b, c, d}
           q == <<a, b, c>> \o <<d>>
           r == <<a, b>> \o <<c, d>>
<1>1. a \in S /\ b \in S /\ c \in S /\ d \in S
  OBVIOUS
<1> HIDE DEF S
<1>2. q \in Seq(S) /\ Len(q) = 4 /\ r \in Seq(S) /\ Len(r) = 4
  BY <1>1
<1>3. q[1] = a /\ q[2] = b /\ q[3] = c
  BY <1>1
<1>4. q[4] = d
  BY <1>1
<1>5. r[1] = a /\ r[2] = b
  BY <1>1
<1>6. r[3] = c /\ r[4] = d
  BY <1>1
<1> HIDE DEF q, r
<1>7. q = <<q[1], q[2], q[3], q[4]>> /\ r = <<r[1], r[2], r[3], r[4]>>
  BY <1>2
<1>8. q = <<a, b, c, d>> /\ r = <<a, b, c, d>>
  BY <1>3, <1>4, <1>5, <1>6, <1>7
<1> QED
  BY <1>8 DEF q, r

(* What has the fields of a record, with another value in one of them.     *)
Fields == {"entry", "cur", "fills", "closed", "outside", "time"}

(* One field of a record changed.                                          *)
LEMMA FieldChanged ==
  ASSUME NEW o, DOMAIN o = Fields, o = [x \in DOMAIN o |-> o[x]], NEW v
  PROVE  /\ [o EXCEPT !.cur = v]
              = [entry |-> o.entry, cur |-> v, fills |-> o.fills, closed |-> o.closed, outside |-> o.outside, time |-> o.time]
         /\ [o EXCEPT !.fills = v]
              = [entry |-> o.entry, cur |-> o.cur, fills |-> v, closed |-> o.closed, outside |-> o.outside, time |-> o.time]
         /\ [o EXCEPT !.closed = v]
              = [entry |-> o.entry, cur |-> o.cur, fills |-> o.fills, closed |-> v, outside |-> o.outside, time |-> o.time]
         /\ [o EXCEPT !.outside = v]
              = [entry |-> o.entry, cur |-> o.cur, fills |-> o.fills, closed |-> o.closed, outside |-> v, time |-> o.time]
<1>1. [o EXCEPT !.cur = v]
        = [entry |-> o.entry, cur |-> v, fills |-> o.fills, closed |-> o.closed, outside |-> o.outside, time |-> o.time]
  BY DEF Fields
<1>2. [o EXCEPT !.fills = v]
        = [entry |-> o.entry, cur |-> o.cur, fills |-> v, closed |-> o.closed, outside |-> o.outside, time |-> o.time]
  BY DEF Fields
<1>3. [o EXCEPT !.closed = v]
        = [entry |-> o.entry, cur |-> o.cur, fills |-> o.fills, closed |-> v, outside |-> o.outside, time |-> o.time]
  BY DEF Fields
<1>4. [o EXCEPT !.outside = v]
        = [entry |-> o.entry, cur |-> o.cur, fills |-> o.fills, closed |-> o.closed, outside |-> v, time |-> o.time]
  BY DEF Fields
<1> QED
  BY <1>1, <1>2, <1>3, <1>4

(* A record is a function of its fields.                                   *)
LEMMA RecordFunction ==
  ASSUME NEW o \in AllRecords
  PROVE  DOMAIN o = Fields /\ o = [z \in DOMAIN o |-> o[z]]
<1>1. PICK labels : o \in [entry : Nat \ {0}, cur : Nat, fills : [labels -> Nat \ {0}],
                           closed : BOOLEAN, outside : BOOLEAN, time : Seconds]
  BY DEF AllRecords, Records
<1> QED
  BY <1>1 DEF Fields

(* One field of a record of the store changed.                             *)
LEMMA FieldsChanged ==
  ASSUME NEW o \in AllRecords, NEW v
  PROVE  /\ [o EXCEPT !.cur = v]
              = [entry |-> o.entry, cur |-> v, fills |-> o.fills, closed |-> o.closed, outside |-> o.outside, time |-> o.time]
         /\ [o EXCEPT !.fills = v]
              = [entry |-> o.entry, cur |-> o.cur, fills |-> v, closed |-> o.closed, outside |-> o.outside, time |-> o.time]
         /\ [o EXCEPT !.closed = v]
              = [entry |-> o.entry, cur |-> o.cur, fills |-> o.fills, closed |-> v, outside |-> o.outside, time |-> o.time]
BY RecordFunction, FieldChanged

(* The same in two fields, as a stop loss and a restart change them.       *)
Ended(o, f, x) == [o EXCEPT !.closed = x, !.fills = f]

Reset(o, c, x) == [o EXCEPT !.cur = c, !.closed = x]

(* The record that a close leaves, field by field.                         *)
LEMMA EndedIs ==
  ASSUME NEW o \in AllRecords, NEW f, NEW x
  PROVE  Ended(o, f, x)
           = [entry |-> o.entry, cur |-> o.cur, fills |-> f, closed |-> x, outside |-> o.outside, time |-> o.time]
<1> DEFINE p == [o EXCEPT !.closed = x]
<1>1. /\ p = [entry |-> o.entry, cur |-> o.cur, fills |-> o.fills, closed |-> x, outside |-> o.outside, time |-> o.time]
      /\ DOMAIN p = Fields /\ p = [z \in DOMAIN p |-> p[z]]
  BY RecordFunction, FieldsChanged, ZenonT(40)
<1>2. Ended(o, f, x) = [p EXCEPT !.fills = f]
  BY DEF Ended
<1> HIDE DEF p
<1>3. [p EXCEPT !.fills = f]
        = [entry |-> p.entry, cur |-> p.cur, fills |-> f, closed |-> p.closed, outside |-> p.outside, time |-> p.time]
  BY <1>1, FieldChanged
<1> QED
  BY <1>1, <1>2, <1>3

(* The record that a size message leaves, field by field.                  *)
LEMMA ResetIs ==
  ASSUME NEW o \in AllRecords, NEW c, NEW x
  PROVE  Reset(o, c, x)
           = [entry |-> o.entry, cur |-> c, fills |-> o.fills, closed |-> x, outside |-> o.outside, time |-> o.time]
<1> DEFINE p == [o EXCEPT !.cur = c]
<1>1. /\ p = [entry |-> o.entry, cur |-> c, fills |-> o.fills, closed |-> o.closed, outside |-> o.outside, time |-> o.time]
      /\ DOMAIN p = Fields /\ p = [z \in DOMAIN p |-> p[z]]
  BY RecordFunction, FieldsChanged, ZenonT(40)
<1>2. Reset(o, c, x) = [p EXCEPT !.closed = x]
  BY DEF Reset
<1> HIDE DEF p
<1>3. [p EXCEPT !.closed = x]
        = [entry |-> p.entry, cur |-> p.cur, fills |-> p.fills, closed |-> x, outside |-> p.outside, time |-> p.time]
  BY <1>1, FieldChanged
<1> QED
  BY <1>1, <1>2, <1>3

(* And for all four fields a closing fill may change.                      *)
Altered(o, c, f, x, y) ==
  [o EXCEPT !.cur = c, !.fills = f, !.closed = x, !.outside = y]

(* The record that a take profit or a stop loss leaves, field by field.    *)
LEMMA AlteredIs ==
  ASSUME NEW o \in AllRecords, NEW c, NEW f, NEW x, NEW y
  PROVE  Altered(o, c, f, x, y)
           = [entry |-> o.entry, cur |-> c, fills |-> f, closed |-> x, outside |-> y, time |-> o.time]
<1> DEFINE a == [o EXCEPT !.cur = c]
           b == [a EXCEPT !.fills = f]
           d == [b EXCEPT !.closed = x]
<1>1. /\ a = [entry |-> o.entry, cur |-> c, fills |-> o.fills, closed |-> o.closed, outside |-> o.outside, time |-> o.time]
      /\ DOMAIN a = Fields /\ a = [z \in DOMAIN a |-> a[z]]
  BY RecordFunction, FieldsChanged, ZenonT(40)
<1> HIDE DEF a
<1>2. DOMAIN b = Fields /\ b = [z \in DOMAIN b |-> b[z]]
  BY <1>1
<1>3. b = [entry |-> a.entry, cur |-> a.cur, fills |-> f, closed |-> a.closed, outside |-> a.outside, time |-> a.time]
  BY <1>1, FieldChanged
<1> HIDE DEF b
<1>4. DOMAIN d = Fields /\ d = [z \in DOMAIN d |-> d[z]]
  BY <1>2
<1>5. d = [entry |-> b.entry, cur |-> b.cur, fills |-> b.fills, closed |-> x, outside |-> b.outside, time |-> b.time]
  BY <1>2, FieldChanged
<1> HIDE DEF d
<1>6. [d EXCEPT !.outside = y]
        = [entry |-> d.entry, cur |-> d.cur, fills |-> d.fills, closed |-> d.closed, outside |-> y, time |-> d.time]
  BY <1>4, FieldChanged
<1>7. Altered(o, c, f, x, y) = [d EXCEPT !.outside = y]
  BY DEF Altered, d, b, a
<1>8. b = [entry |-> o.entry, cur |-> c, fills |-> f, closed |-> o.closed, outside |-> o.outside, time |-> o.time]
  BY <1>1, <1>3
<1>9. d = [entry |-> o.entry, cur |-> c, fills |-> f, closed |-> x, outside |-> o.outside, time |-> o.time]
  BY <1>5, <1>8
<1> QED
  BY <1>6, <1>7, <1>9

(* A record with a fill booked is a record.                                *)
LEMMA RecordBooked ==
  ASSUME NEW o \in AllRecords, NEW c \in Nat, NEW closed \in BOOLEAN,
         NEW outside \in BOOLEAN, NEW label \in Labels, NEW q \in Nat \ {0}
  PROVE  [entry |-> o.entry, cur |-> c, fills |-> Booked(o.fills, label, q),
          closed |-> closed, outside |-> outside, time |-> o.time] \in AllRecords
<1> DEFINE b == Booked(o.fills, label, q)
           D == DOMAIN o.fills \cup {label}
<1>1. b \in [D -> Nat \ {0}] /\ D \in SUBSET Labels
  BY BookedFacts
<1>2. o.entry \in Nat \ {0} /\ o.time \in Seconds
  BY RecordFacts
<1> HIDE DEF b, D
<1>3. [entry |-> o.entry, cur |-> c, fills |-> b, closed |-> closed,
       outside |-> outside, time |-> o.time] \in AllRecords
  BY <1>1, <1>2, RecordMade
<1> QED
  BY <1>3 DEF b

(* What handle_execution_message() does with a close.                      *)
LEMMA CloseHandled ==
  ASSUME TypeInv, HandleClose
  PROVE  /\ Handled("Close")
         /\ UNCHANGED <<held, ordered, orders, now, up, disk, rows, active, faults>>
         /\ \E k \in OpenKeys, r \in AllRecords, full, stop \in BOOLEAN :
              /\ overlapped' = (overlapped \/ Cardinality(OpenKeys \cup {k}) > 1)
              /\ Closed(k, r, full, stop)
<1> DEFINE m == Head(feed)
<1>1. Handled("Close") /\ UNCHANGED <<held, ordered, orders, now, up, disk, rows, active, faults>>
  BY HandlingFacts DEF HandleClose
<1>2. m \in Messages /\ m.kind = "Close"
  BY <1>1 DEF Handled
<1>3. m.qty \in Nat \ {0} /\ m.outside \in BOOLEAN /\ m.time \in Seconds
  BY <1>2, MessageFacts
<1> HIDE DEF m
<1>4. PICK k \in CloseTargets \ {None} :
        LET new   == Least(store[k].cur, LeftOf(store[k])) - m.qty
            full  == new <= 0
            stop  == full /\ k \in Zones /\ m.outside
            label == IF full THEN <<"Exit", 0>> ELSE <<"Reduce", m.time>>
            r     == [store[k] EXCEPT
                        !.cur = AtLeastZero(new),
                        !.fills = Booked(@, label, m.qty),
                        !.closed = full,
                        !.outside = stop]
        IN /\ Recorded(k, r)
           /\ todo' = When(stop, <<Deactivate(k)>>) \o <<Fill(k, m.qty)>>
                        \o When(full, <<Finalize(k)>>) \o <<Save(store')>>
  BY DEF HandleClose, m
<1>5. k \in OpenKeys
  BY CloseTargetFacts
<1> DEFINE o == store[k]
           full == Sure(o) <= m.qty
           stop == full /\ k \in Zones /\ m.outside
           label == IF full THEN <<"Exit", 0>> ELSE <<"Reduce", m.time>>
           c == IF full THEN 0 ELSE Sure(o) - m.qty
           f == Booked(o.fills, label, m.qty)
           r == [entry |-> o.entry, cur |-> c, fills |-> f, closed |-> full,
                 outside |-> stop, time |-> o.time]
<1>6. o \in AllRecords /\ k \in Keys
  BY <1>5, OpenFacts
<1>7. Sure(o) \in Nat
  BY <1>6, SureFacts
<1>8. full \in BOOLEAN /\ stop \in BOOLEAN /\ label \in Labels /\ c \in Nat
  BY <1>3, <1>7 DEF Labels
<1>9. r \in AllRecords
  <2> HIDE DEF c, full, stop, label, o
  <2> QED
    BY <1>3, <1>6, <1>8, RecordBooked
<1>10. /\ store' = [store EXCEPT ![k] = r]
       /\ overlapped' = (overlapped \/ Cardinality(OpenKeys \cup {k}) > 1)
       /\ todo' = When(stop, <<Deactivate(k)>>) \o <<Fill(k, m.qty)>>
                    \o When(full, <<Finalize(k)>>) \o <<Save(store')>>
  <2> DEFINE new == Sure(o) - m.qty
  <2>1. new = Least(o.cur, LeftOf(o)) - m.qty
    BY DEF Sure
  <2>2. (new <= 0) = full /\ AtLeastZero(new) = c
    BY <1>3, <1>7 DEF AtLeastZero
  <2>3. Recorded(k, [o EXCEPT !.cur = c, !.fills = f, !.closed = full, !.outside = stop])
    <3> HIDE DEF o
    <3> QED
      BY <1>4, <2>1, <2>2 DEF o
  <2>4. /\ todo' = When(stop, <<Deactivate(k)>>) \o <<Fill(k, m.qty)>>
                     \o When(full, <<Finalize(k)>>) \o <<Save(store')>>
    <3> HIDE DEF o
    <3> QED
      BY <1>4, <2>1, <2>2 DEF o
  <2>5. r = [o EXCEPT !.cur = c, !.fills = f, !.closed = full, !.outside = stop]
    <3> HIDE DEF c, f, o
    <3> HIDE DEF full, stop
    <3>1. Altered(o, c, f, full, stop)
            = [entry |-> o.entry, cur |-> c, fills |-> f, closed |-> full,
               outside |-> stop, time |-> o.time]
      BY <1>6, AlteredIs
    <3> QED
      BY <3>1 DEF Altered
  <2> HIDE DEF r, o, full, stop
  <2> QED
    BY <2>3, <2>4, <2>5 DEF Recorded
<1>11. todo' = IF stop THEN <<Deactivate(k), Fill(k, m.qty), Finalize(k), Save(store')>>
               ELSE IF full THEN <<Fill(k, m.qty), Finalize(k), Save(store')>>
               ELSE <<Fill(k, m.qty), Save(store')>>
  <2>0. stop => full
    OBVIOUS
  <2> DEFINE d == Deactivate(k)
             g == Fill(k, m.qty)
             z == Finalize(k)
             v == Save(store')
  <2>a. todo' = When(stop, <<d>>) \o <<g>> \o When(full, <<z>>) \o <<v>>
    BY <1>10
  <2> HIDE DEF stop, full, r, d, g, z, v
  <2>1. CASE stop
    <3>1. When(stop, <<d>>) = <<d>> /\ When(full, <<z>>) = <<z>>
      BY <2>0, <2>1 DEF When
    <3>2. <<d>> \o <<g>> = <<d, g>> /\ <<d, g>> \o <<z>> = <<d, g, z>>
          /\ <<d, g, z>> \o <<v>> = <<d, g, z, v>>
      BY Joined2, Joined3, Joined4, ZenonT(40)
    <3> QED
      BY <2>a, <2>1, <3>1, <3>2 DEF d, g, z, v
  <2>2. CASE ~stop /\ full
    <3>1. When(stop, <<d>>) = <<>> /\ When(full, <<z>>) = <<z>>
      BY <2>2 DEF When
    <3>2. <<>> \o <<g>> = <<g>> /\ <<g>> \o <<z>> = <<g, z>>
          /\ <<g, z>> \o <<v>> = <<g, z, v>>
      BY Joined1, Joined2, Joined3, Joined4
    <3> QED
      BY <2>a, <2>2, <3>1, <3>2 DEF d, g, z, v
  <2>3. CASE ~stop /\ ~full
    <3>1. When(stop, <<d>>) = <<>> /\ When(full, <<z>>) = <<>>
      BY <2>3 DEF When
    <3>2. <<>> \o <<g>> = <<g>> /\ <<g>> \o <<>> = <<g>> /\ <<g>> \o <<v>> = <<g, v>>
      BY Joined1, Joined2, Joined3, Joined4
    <3> QED
      BY <2>a, <2>3, <3>1, <3>2 DEF d, g, z, v
  <2> QED
    BY <2>1, <2>2, <2>3
<1>12. Closed(k, r, full, stop)
  <2>1. /\ r.entry = o.entry /\ r.cur = c /\ r.fills = f /\ r.closed = full
        /\ r.outside = stop
    OBVIOUS
  <2> HIDE DEF r
  <2> QED
    BY <1>10, <1>11, <2>1 DEF Closed, m
<1> HIDE DEF r, full, stop
<1> QED
  BY <1>1, <1>5, <1>8, <1>9, <1>10, <1>12

(* The take-profit handler: the fill is booked, saved, and the record      *)
(* closed when one of its accounts says that nothing is left.              *)
TookProfit(k, b, r) ==
  LET m == Head(feed)
      o == store[k]
  IN /\ b.entry = o.entry /\ r.entry = o.entry
     /\ b.fills = Booked(o.fills, <<"TP", m.time>>, m.qty) /\ r.fills = b.fills
     /\ b.cur = Least(o.cur, LeftOf(b)) /\ r.cur = b.cur
     /\ b.closed = o.closed /\ b.outside = o.outside
     /\ r.closed = (r.cur = 0) /\ r.outside = o.outside
     /\ ~r.closed => r = b
     /\ store' = [store EXCEPT ![k] = r]
     /\ todo' = IF r.closed
                  THEN <<Save([store EXCEPT ![k] = b]), Fill(k, m.qty), Finalize(k), Save(store')>>
                  ELSE <<Save([store EXCEPT ![k] = b]), Fill(k, m.qty)>>

(* What it does with a take profit or a reduction.                         *)
LEMMA TakeProfitHandled ==
  ASSUME TypeInv, HandleTakeProfit
  PROVE  /\ Handled("TakeProfit")
         /\ UNCHANGED <<held, ordered, orders, now, up, disk, rows, active, faults>>
         /\ \E k \in OpenKeys, b, r \in AllRecords :
              /\ overlapped' = (overlapped \/ Cardinality(OpenKeys \cup {k}) > 1)
              /\ TookProfit(k, b, r)
<1> DEFINE m == Head(feed)
<1>1. Handled("TakeProfit") /\ UNCHANGED <<held, ordered, orders, now, up, disk, rows, active, faults>>
  BY HandlingFacts DEF HandleTakeProfit
<1>2. m \in Messages /\ m.kind = "TakeProfit"
  BY <1>1 DEF Handled
<1>3. m.qty \in Nat \ {0} /\ m.time \in Seconds
  BY <1>2, MessageFacts
<1> HIDE DEF m
<1>4. PICK k \in CloseTargets \ {None} :
       LET b   == [store[k] EXCEPT !.fills = Booked(@, <<"TP", m.time>>, m.qty)]
           r   == [b EXCEPT !.cur = Least(b.cur, LeftOf(b))]
           end == [r EXCEPT !.closed = (r.cur = 0)]
       IN /\ Recorded(k, end)
          /\ todo' = <<Save([store EXCEPT ![k] = r]), Fill(k, m.qty)>>
                       \o When(end.closed, <<Finalize(k), Save(store')>>)
  BY DEF HandleTakeProfit, m
<1>5. k \in OpenKeys
  BY CloseTargetFacts
<1> DEFINE o == store[k]
           label == <<"TP", m.time>>
           f == Booked(o.fills, label, m.qty)
           Of(c, closed) == [entry |-> o.entry, cur |-> c, fills |-> f,
                             closed |-> closed, outside |-> o.outside, time |-> o.time]
           a == Of(o.cur, o.closed)
           c == Least(o.cur, LeftOf(a))
           b == Of(c, o.closed)
           r == Of(c, c = 0)
<1>6. o \in AllRecords /\ k \in Keys /\ label \in Labels
  BY <1>3, <1>5, OpenFacts DEF Labels
<1>7. o.cur \in Nat /\ o.closed \in BOOLEAN /\ o.outside \in BOOLEAN
  BY <1>6, RecordFacts
<1>8. ASSUME NEW n \in Nat, NEW x \in BOOLEAN
      PROVE  /\ Of(n, x) \in AllRecords
             /\ Of(n, x).entry = o.entry /\ Of(n, x).cur = n /\ Of(n, x).fills = f
             /\ Of(n, x).closed = x /\ Of(n, x).outside = o.outside
  <2>1. Of(n, x) \in AllRecords
    <3> HIDE DEF o, label
    <3> QED
      BY <1>3, <1>6, <1>7, RecordBooked
  <2> QED
    BY <2>1
<1>9. c \in Nat /\ (c = 0) \in BOOLEAN
  <2>1. a \in AllRecords
    BY <1>7, <1>8
  <2> HIDE DEF a, o
  <2>2. LeftOf(a) \in Nat
    BY <2>1, LeftFacts
  <2> QED
    BY <1>7, <2>2, LeastFacts
<1>10. /\ [o EXCEPT !.fills = f] = a
       /\ [a EXCEPT !.cur = Least(a.cur, LeftOf(a))] = b
       /\ [b EXCEPT !.closed = (b.cur = 0)] = r
  <2>1. [o EXCEPT !.fills = f] = a
    <3> HIDE DEF o, f
    <3> QED
      BY <1>6, FieldsChanged
  <2>2. /\ a \in AllRecords /\ a.entry = o.entry /\ a.cur = o.cur /\ a.fills = f
        /\ a.closed = o.closed /\ a.outside = o.outside /\ a.time = o.time
    BY <1>7, <1>8
  <2>3. /\ b \in AllRecords /\ b.entry = o.entry /\ b.cur = c /\ b.fills = f
        /\ b.closed = o.closed /\ b.outside = o.outside /\ b.time = o.time
    BY <1>7, <1>8, <1>9
  <2>4. [a EXCEPT !.cur = c] = b
    <3>1. b = [entry |-> a.entry, cur |-> c, fills |-> a.fills, closed |-> a.closed,
               outside |-> a.outside, time |-> a.time]
      BY <2>2
    <3> HIDE DEF a, b, c
    <3> QED
      BY <2>2, <3>1, FieldsChanged
  <2>5. [b EXCEPT !.closed = (c = 0)] = r
    <3>1. r = [entry |-> b.entry, cur |-> b.cur, fills |-> b.fills, closed |-> (c = 0),
               outside |-> b.outside, time |-> b.time]
      BY <2>3
    <3> DEFINE x == (c = 0)
    <3>2. r = [entry |-> b.entry, cur |-> b.cur, fills |-> b.fills, closed |-> x,
               outside |-> b.outside, time |-> b.time]
      BY <3>1
    <3> HIDE DEF b, x, r
    <3>3. [b EXCEPT !.closed = x] = r
      BY <2>3, <3>2, FieldsChanged
    <3> QED
      BY <3>3 DEF x
  <2>6. Least(a.cur, LeftOf(a)) = c /\ b.cur = c
    BY <2>2, <2>3
  <2> HIDE DEF a, b, c, r
  <2> QED
    BY <2>1, <2>4, <2>5, <2>6
<1>a. c # 0 => r = b
  <2>1. o.closed = FALSE
    BY <1>5, <1>7, OpenFacts
  <2>2. ASSUME c # 0 PROVE (c = 0) = o.closed
    BY <2>1, <2>2
  <2>3. ASSUME c # 0 PROVE r = b
    BY <2>2, <2>3
  <2> QED
    BY <2>3
<1> HIDE DEF Of
<1>11. /\ r \in AllRecords /\ r.entry = o.entry /\ r.cur = c /\ r.fills = f
       /\ r.closed = (c = 0) /\ r.outside = o.outside
  BY <1>8, <1>9
<1>12. /\ b \in AllRecords /\ b.entry = o.entry /\ b.cur = c /\ b.fills = f
       /\ b.closed = o.closed /\ b.outside = o.outside
  BY <1>7, <1>8, <1>9
<1>13. a.entry = o.entry /\ a.fills = f
  BY <1>7, <1>8
<1> HIDE DEF a, b, r, c
<1>14. c = Least(o.cur, LeftOf(b))
  BY <1>12, <1>13 DEF c, LeftOf
<1>15. /\ store' = [store EXCEPT ![k] = r]
       /\ overlapped' = (overlapped \/ Cardinality(OpenKeys \cup {k}) > 1)
       /\ todo' = <<Save([store EXCEPT ![k] = b]), Fill(k, m.qty)>>
                    \o When(r.closed, <<Finalize(k), Save(store')>>)
  BY <1>4, <1>10 DEF Recorded
<1>16. todo' = IF r.closed
                 THEN <<Save([store EXCEPT ![k] = b]), Fill(k, m.qty), Finalize(k), Save(store')>>
                 ELSE <<Save([store EXCEPT ![k] = b]), Fill(k, m.qty)>>
  <2> DEFINE v == Save([store EXCEPT ![k] = b])
             g == Fill(k, m.qty)
             z == Finalize(k)
             w == Save(store')
  <2>a. todo' = <<v, g>> \o When(r.closed, <<z, w>>)
    BY <1>15
  <2> HIDE DEF v, g, z, w
  <2>1. CASE r.closed
    <3>1. When(r.closed, <<z, w>>) = <<z, w>>
      BY <2>1 DEF When
    <3>2. <<v, g>> \o <<z, w>> = <<v, g, z, w>>
      BY Joined4
    <3> QED
      BY <2>a, <2>1, <3>1, <3>2 DEF v, g, z, w
  <2>2. CASE ~r.closed
    <3>1. When(r.closed, <<z, w>>) = <<>>
      BY <2>2 DEF When
    <3>2. <<v, g>> \o <<>> = <<v, g>>
      BY Joined1, Joined2, Joined3, Joined4
    <3> QED
      BY <2>a, <2>2, <3>1, <3>2 DEF v, g, z, w
  <2> QED
    BY <2>1, <2>2
<1>17. TookProfit(k, b, r)
  BY <1>a, <1>11, <1>12, <1>14, <1>15, <1>16 DEF TookProfit, m
<1> QED
  BY <1>1, <1>5, <1>11, <1>12, <1>15, <1>17

(* The stop-loss handler: the record and its zone are closed.              *)
Stopped(k, r) ==
  LET m == Head(feed)
      o == store[k]
  IN /\ r.entry = o.entry
     /\ r.cur = o.cur
     /\ r.fills = Booked(o.fills, <<"SL", 0>>, m.qty)
     /\ r.closed = TRUE
     /\ r.outside = o.outside
     /\ store' = [store EXCEPT ![k] = r]
     /\ todo' = IF k \in Zones
                  THEN <<Deactivate(k), Save(store'), Fill(k, m.qty), Finalize(k)>>
                  ELSE <<Save(store'), Fill(k, m.qty), Finalize(k)>>

(* One write before three.                                                 *)
LEMMA Joined13 ==
  ASSUME NEW a, NEW b, NEW c, NEW d
  PROVE  <<a>> \o <<b, c, d>> = <<a, b, c, d>> /\ <<>> \o <<b, c, d>> = <<b, c, d>>
<1> DEFINE S == {a, b, c, d}
           q == <<a>> \o <<b, c, d>>
<1>1. a \in S /\ b \in S /\ c \in S /\ d \in S
  OBVIOUS
<1> HIDE DEF S
<1>2. q \in Seq(S) /\ Len(q) = 4
  BY <1>1
<1>3. q[1] = a
  BY <1>1
<1>4. q[2] = b /\ q[3] = c /\ q[4] = d
  BY <1>1
<1> HIDE DEF q
<1>5. q = <<q[1], q[2], q[3], q[4]>>
  BY <1>2
<1>6. <<>> \o <<b, c, d>> = <<b, c, d>>
  BY <1>1
<1> QED
  BY <1>3, <1>4, <1>5, <1>6 DEF q

(* What it does with a stop loss.                                          *)
LEMMA StopLossHandled ==
  ASSUME TypeInv, HandleStopLoss
  PROVE  /\ Handled("StopLoss")
         /\ UNCHANGED <<held, ordered, orders, now, up, disk, rows, active, faults>>
         /\ \E k \in OpenKeys, r \in AllRecords :
              /\ overlapped' = (overlapped \/ Cardinality(OpenKeys \cup {k}) > 1)
              /\ Stopped(k, r)
<1> DEFINE m == Head(feed)
<1>1. Handled("StopLoss") /\ UNCHANGED <<held, ordered, orders, now, up, disk, rows, active, faults>>
  BY HandlingFacts DEF HandleStopLoss
<1>2. m \in Messages /\ m.kind = "StopLoss"
  BY <1>1 DEF Handled
<1>3. m.qty \in Nat \ {0}
  BY <1>2, MessageFacts
<1> HIDE DEF m
<1>4. PICK k \in CloseTargets \ {None} :
        LET r == [store[k] EXCEPT !.closed = TRUE,
                                  !.fills = Booked(@, <<"SL", 0>>, m.qty)]
        IN /\ Recorded(k, r)
           /\ todo' = When(k \in Zones, <<Deactivate(k)>>)
                        \o <<Save(store'), Fill(k, m.qty), Finalize(k)>>
  BY DEF HandleStopLoss, m
<1>5. k \in OpenKeys
  BY CloseTargetFacts
<1> DEFINE o == store[k]
           label == <<"SL", 0>>
           f == Booked(o.fills, label, m.qty)
           r == [entry |-> o.entry, cur |-> o.cur, fills |-> f, closed |-> TRUE,
                 outside |-> o.outside, time |-> o.time]
<1>6. o \in AllRecords /\ k \in Keys /\ label \in Labels
  BY <1>5, OpenFacts DEF Labels
<1>7. o.cur \in Nat /\ o.outside \in BOOLEAN
  BY <1>6, RecordFacts
<1>8. r \in AllRecords
  <2> HIDE DEF o, label
  <2> QED
    BY <1>3, <1>6, <1>7, RecordBooked
<1>9. [o EXCEPT !.closed = TRUE, !.fills = f] = r
  <2> HIDE DEF o, f
  <2>1. Ended(o, f, TRUE) = r
    BY <1>6, EndedIs
  <2> QED
    BY <2>1 DEF Ended
<1>10. /\ store' = [store EXCEPT ![k] = r]
       /\ overlapped' = (overlapped \/ Cardinality(OpenKeys \cup {k}) > 1)
       /\ todo' = When(k \in Zones, <<Deactivate(k)>>)
                    \o <<Save(store'), Fill(k, m.qty), Finalize(k)>>
  BY <1>4, <1>9 DEF Recorded
<1>11. todo' = IF k \in Zones
                 THEN <<Deactivate(k), Save(store'), Fill(k, m.qty), Finalize(k)>>
                 ELSE <<Save(store'), Fill(k, m.qty), Finalize(k)>>
  <2> DEFINE d == Deactivate(k)
             v == Save(store')
             g == Fill(k, m.qty)
             z == Finalize(k)
  <2>a. todo' = When(k \in Zones, <<d>>) \o <<v, g, z>>
    BY <1>10
  <2> HIDE DEF d, v, g, z, r
  <2>1. CASE k \in Zones
    <3>1. When(k \in Zones, <<d>>) = <<d>>
      BY <2>1 DEF When
    <3>2. <<d>> \o <<v, g, z>> = <<d, v, g, z>>
      BY Joined13
    <3> QED
      BY <2>a, <2>1, <3>1, <3>2 DEF d, v, g, z
  <2>2. CASE k \notin Zones
    <3>1. When(k \in Zones, <<d>>) = <<>>
      BY <2>2 DEF When
    <3>2. <<>> \o <<v, g, z>> = <<v, g, z>>
      BY Joined13
    <3> QED
      BY <2>a, <2>2, <3>1, <3>2 DEF d, v, g, z
  <2> QED
    BY <2>1, <2>2
<1>12. Stopped(k, r)
  <2>1. /\ r.entry = o.entry /\ r.cur = o.cur /\ r.fills = f /\ r.closed = TRUE
        /\ r.outside = o.outside
    OBVIOUS
  <2> HIDE DEF r
  <2> QED
    BY <1>10, <1>11, <2>1 DEF Stopped, m
<1> HIDE DEF r
<1> QED
  BY <1>1, <1>5, <1>8, <1>10, <1>12

(* The position handler: an open record takes the size, or nothing happens. *)
Resized(k, r) ==
  LET size == Head(feed).qty
      o == store[k]
  IN /\ size > 0
     /\ r.entry = o.entry
     /\ r.cur = size
     /\ r.fills = o.fills
     /\ r.closed = o.closed
     /\ r.outside = o.outside
     /\ store' = [store EXCEPT ![k] = r]
     /\ todo' = <<Save(store')>>

(* What handle_position_message() does with a size.                        *)
LEMMA PositionHandled ==
  ASSUME TypeInv, HandlePosition
  PROVE  /\ Handled("Position")
         /\ UNCHANGED <<held, ordered, orders, now, up, disk, rows, active, faults>>
         /\ \/ UNCHANGED <<store, todo, overlapped>>
            \/ \E k \in OpenKeys, r \in AllRecords :
                 /\ overlapped' = (overlapped \/ Cardinality(OpenKeys \cup {k}) > 1)
                 /\ store[k].cur # Head(feed).qty
                 /\ Resized(k, r)
<1> DEFINE size == Head(feed).qty
<1>1. Handled("Position") /\ UNCHANGED <<held, ordered, orders, now, up, disk, rows, active, faults>>
  BY HandlingFacts DEF HandlePosition
<1>2. size \in Nat
  BY <1>1, MessageFacts DEF Handled
<1> HIDE DEF size
<1>3. PICK k \in UpdateTargets :
        IF size > 0 /\ k # None /\ store[k].cur # size
          THEN /\ Recorded(k, [store[k] EXCEPT !.cur = size])
               /\ todo' = <<Save(store')>>
          ELSE UNCHANGED <<store, todo, overlapped>>
  BY DEF HandlePosition, size
<1>4. SUFFICES ASSUME size > 0 /\ k # None /\ store[k].cur # size
               PROVE  \E r \in AllRecords :
                        /\ k \in OpenKeys
                        /\ overlapped' = (overlapped \/ Cardinality(OpenKeys \cup {k}) > 1)
                        /\ store[k].cur # Head(feed).qty
                        /\ Resized(k, r)
  BY <1>1, <1>3
<1>5. k \in OpenKeys
  <2>1. CASE IsOpen(Manual)
    BY <1>3, <2>1 DEF UpdateTargets, OpenKeys, Keys
  <2>2. CASE ~IsOpen(Manual)
    BY <1>3, <1>4, <2>2, CloseTargetFacts DEF UpdateTargets
  <2> QED
    BY <2>1, <2>2
<1> DEFINE o == store[k]
           r == [entry |-> o.entry, cur |-> size, fills |-> o.fills, closed |-> o.closed,
                 outside |-> o.outside, time |-> o.time]
<1>6. o \in AllRecords
  BY <1>5, OpenFacts
<1>7. r \in AllRecords
  <2>1. /\ o.entry \in Nat \ {0} /\ DOMAIN o.fills \in SUBSET Labels
        /\ o.fills \in [DOMAIN o.fills -> Nat \ {0}]
        /\ o.closed \in BOOLEAN /\ o.outside \in BOOLEAN /\ o.time \in Seconds
    BY <1>6, RecordFacts
  <2> HIDE DEF o
  <2> QED
    BY <1>2, <2>1, RecordMade
<1>8. [o EXCEPT !.cur = size] = r
  <2> HIDE DEF o
  <2> QED
    BY <1>6, FieldsChanged
<1>9. /\ store' = [store EXCEPT ![k] = r]
      /\ overlapped' = (overlapped \/ Cardinality(OpenKeys \cup {k}) > 1)
      /\ todo' = <<Save(store')>>
  BY <1>3, <1>4, <1>8 DEF Recorded
<1>10. Resized(k, r)
  <2>1. /\ r.entry = o.entry /\ r.cur = size /\ r.fills = o.fills /\ r.closed = o.closed
        /\ r.outside = o.outside
    OBVIOUS
  <2> HIDE DEF r
  <2> QED
    BY <1>4, <1>9, <2>1 DEF Resized, size
<1> HIDE DEF r
<1> QED
  BY <1>4, <1>5, <1>7, <1>9, <1>10 DEF size

(* A closing fill without an open record.                                  *)
LEMMA SkipHandled ==
  ASSUME TypeInv, NEW kind \in Closing, Skip(kind, CloseTargets)
  PROVE  /\ Handled(kind)
         /\ UNCHANGED <<held, ordered, orders, now, up, disk, rows, active, faults>>
         /\ UNCHANGED <<store, todo, overlapped>>
         /\ OpenKeys = {}
<1>1. CloseTargets = {None} /\ Handling(kind) /\ UNCHANGED <<store, todo, overlapped>>
  BY DEF Skip
<1>2. OpenKeys = {}
  <2> SUFFICES ASSUME OpenKeys # {} PROVE FALSE
    OBVIOUS
  <2>1. None \in Newest
    BY <1>1 DEF CloseTargets
  <2>2. None \in Keys
    BY <2>1 DEF Newest, OpenKeys
  <2> QED
    BY <2>2, ConstantsAssumption DEF Keys
<1> QED
  BY <1>1, <1>2, HandlingFacts

(***************************************************************************)
(* The exchange.  An order adds one or two fills and a report to the feed. *)
(***************************************************************************)

(* The messages of one order: fills A and perhaps B, and the report P.     *)
Reported(kind, k, n, size, outside, X) ==
  \E a \in 1..n, t \in {now, now + 1} :
    LET A == Message(kind, k, a, outside, now)
        B == Message(kind, k, n - a, outside, t)
        P == Report(size)
    IN /\ ~SameSecond => t = now + 1
       /\ A \in Messages /\ P \in Messages
       /\ \/ /\ a = n
             /\ now' = now + 1
             /\ X = <<A, P>> \/ (PositionFirst /\ X = <<P, A>>)
          \/ /\ a < n
             /\ n - a \in Nat \ {0}
             /\ B \in Messages
             /\ now' = now + 2
             /\ X = <<A, B, P>> \/ (PositionFirst /\ X = <<P, A, B>>)

(* Short sequences of fills.                                               *)
LEMMA FillsOne ==
  ASSUME NEW kind, NEW k, NEW n, NEW outside, NEW step, NEW t
  PROVE  [i \in 1..Len(<<n>>) |->
            [kind |-> kind, key |-> k, qty |-> <<n>>[i], outside |-> outside,
             time |-> t + (i - 1) * step]]
           = <<[kind |-> kind, key |-> k, qty |-> n, outside |-> outside,
                time |-> t + (1 - 1) * step]>>
  OBVIOUS

(* The messages of an order filled in two parts.                           *)
LEMMA FillsTwo ==
  ASSUME NEW kind, NEW k, NEW a, NEW b, NEW outside, NEW step, NEW t
  PROVE  [i \in 1..Len(<<a, b>>) |->
            [kind |-> kind, key |-> k, qty |-> <<a, b>>[i], outside |-> outside,
             time |-> t + (i - 1) * step]]
           = <<[kind |-> kind, key |-> k, qty |-> a, outside |-> outside,
                time |-> t + (1 - 1) * step],
               [kind |-> kind, key |-> k, qty |-> b, outside |-> outside,
                time |-> t + (2 - 1) * step]>>
  OBVIOUS

(* Joining sequences is associative.                                       *)
LEMMA JoinedTwice ==
  ASSUME NEW S, NEW q \in Seq(S), NEW r \in Seq(S), NEW s \in Seq(S)
  PROVE  (q \o r) \o s = q \o (r \o s)
  OBVIOUS

Executed(kind, k, n, size, outside) ==
  /\ orders < MaxOrders
  /\ orders' = orders + 1
  /\ held' = size
  /\ now' \in {now + 1, now + 2}
  /\ UNCHANGED <<up, store, todo, disk, rows, active, faults, overlapped>>
  /\ \E X : Reported(kind, k, n, size, outside, X)
            /\ feed' = IF up THEN feed \o X ELSE feed

(* An order is executed: what it reports and in which order.               *)
LEMMA ExecuteFacts ==
  ASSUME TypeInv, NEW kind, NEW k, NEW n \in Nat \ {0}, NEW size \in Nat,
         NEW outside \in BOOLEAN, NEW qs \in Fills(n),
         (kind = "Open" /\ k \in Keys) \/ (kind \in Closing /\ k = None),
         Execute(kind, k, qs, size, outside)
  PROVE  Executed(kind, k, n, size, outside)
<1> DEFINE fills(step) == [i \in 1..Len(qs) |->
                             [kind |-> kind, key |-> k, qty |-> qs[i], outside |-> outside,
                              time |-> now + (i - 1) * step]]
           report == <<[kind |-> "Position", qty |-> size]>>
<1>1. PICK step \in IF SameSecond THEN {0, 1} ELSE {1} :
        /\ orders < MaxOrders
        /\ orders' = orders + 1
        /\ held' = size
        /\ now' = now + Len(qs)
        /\ \/ feed' = IF up THEN feed \o fills(step) \o report ELSE feed
           \/ /\ PositionFirst
              /\ feed' = IF up THEN feed \o report \o fills(step) ELSE feed
        /\ UNCHANGED <<up, store, todo, dbVars, faults, overlapped>>
  BY DEF Execute
<1>2. step \in {0, 1} /\ (~SameSecond => step = 1)
  OBVIOUS
<1>3. now \in Nat /\ now \in Seconds /\ now + 1 \in Seconds
  BY <1>1, ConstantsAssumption DEF TypeInv, Seconds
<1>4. report = <<Report(size)>>
  BY DEF Report
<1>5. qs = <<n>> \/ \E i \in 1..(n - 1) : qs = <<i, n - i>>
  BY DEF Fills
<1> DEFINE P == Report(size)
<1>6. P \in Messages
  BY ReportMade
<1>7. feed \in Seq(Messages)
  BY DEF TypeInv
<1>8. CASE qs = <<n>>
  <2> DEFINE A == Message(kind, k, n, outside, now)
  <2>1. fills(step) = <<A>>
    <3>1. now + (1 - 1) * step = now
      BY <1>2, <1>3
    <3> QED
      BY <1>8, <3>1, FillsOne DEF Message
  <2>2. Len(qs) = 1
    BY <1>8
  <2>3. A \in Messages
    BY <1>3, MessageMade
  <2> HIDE DEF A, P, fills, report
  <2>4. (feed \o <<A>>) \o <<P>> = feed \o <<A, P>> /\ (feed \o <<P>>) \o <<A>> = feed \o <<P, A>>
    <3>1. <<A>> \in Seq(Messages) /\ <<P>> \in Seq(Messages)
      BY <1>6, <2>3
    <3>2. <<A>> \o <<P>> = <<A, P>> /\ <<P>> \o <<A>> = <<P, A>>
      BY Joined2
    <3> QED
      BY <1>7, <3>1, <3>2, JoinedTwice
  <2>5. PICK X : /\ feed' = IF up THEN feed \o X ELSE feed
                 /\ X = <<A, P>> \/ (PositionFirst /\ X = <<P, A>>)
    BY <1>1, <1>4, <2>1, <2>4 DEF P
  <2>6. Reported(kind, k, n, size, outside, X)
    <3>1. n \in 1..n /\ now + 1 \in {now, now + 1} /\ now' = now + 1
      BY <1>1, <2>2
    <3> QED
      BY <1>6, <2>3, <2>5, <3>1 DEF Reported, A, P
  <2> QED
    BY <1>1, <2>2, <2>5, <2>6 DEF dbVars, Executed
<1>9. ASSUME NEW a \in 1..(n - 1), qs = <<a, n - a>>
      PROVE  /\ now' \in {now + 1, now + 2}
             /\ \E X : Reported(kind, k, n, size, outside, X)
                       /\ feed' = IF up THEN feed \o X ELSE feed
  <2> DEFINE t == now + step
             A == Message(kind, k, a, outside, now)
             B == Message(kind, k, n - a, outside, t)
  <2>1. fills(step) = <<A, B>>
    <3>1. now + (1 - 1) * step = now /\ now + (2 - 1) * step = now + step
      BY <1>2, <1>3
    <3> QED
      BY <1>9, <3>1, FillsTwo DEF Message
  <2>2. Len(qs) = 2
    BY <1>9
  <2>3. t \in {now, now + 1} /\ (~SameSecond => t = now + 1)
    BY <1>2, <1>3
  <2>4. a \in 1..n /\ a \in Nat \ {0} /\ a < n /\ n - a \in Nat \ {0}
    OBVIOUS
  <2> HIDE DEF t
  <2>5. A \in Messages /\ B \in Messages
    BY <1>3, <2>3, <2>4, MessageMade
  <2> HIDE DEF A, B, P, fills, report
  <2>6. /\ (feed \o <<A, B>>) \o <<P>> = feed \o <<A, B, P>>
        /\ (feed \o <<P>>) \o <<A, B>> = feed \o <<P, A, B>>
    <3>1. <<A, B>> \in Seq(Messages) /\ <<P>> \in Seq(Messages)
      BY <1>6, <2>5
    <3>2. <<A, B>> \o <<P>> = <<A, B, P>>
      BY Joined3
    <3>3. <<P>> \o <<A, B>> = <<P, A, B>>
      BY Joined12
    <3>4. (feed \o <<A, B>>) \o <<P>> = feed \o (<<A, B>> \o <<P>>)
      BY <1>7, <3>1, JoinedTwice
    <3>5. (feed \o <<P>>) \o <<A, B>> = feed \o (<<P>> \o <<A, B>>)
      BY <1>7, <3>1, JoinedTwice
    <3> QED
      BY <3>2, <3>3, <3>4, <3>5
  <2>7. PICK X : /\ feed' = IF up THEN feed \o X ELSE feed
                 /\ X = <<A, B, P>> \/ (PositionFirst /\ X = <<P, A, B>>)
    BY <1>1, <1>4, <2>1, <2>6 DEF P
  <2>8. now' = now + 2
    BY <1>1, <2>2
  <2>9. Reported(kind, k, n, size, outside, X)
    BY <1>6, <2>3, <2>4, <2>5, <2>7, <2>8 DEF Reported, A, B, P
  <2> QED
    BY <2>7, <2>8, <2>9
<1> QED
  BY <1>1, <1>5, <1>8, <1>9 DEF dbVars, Executed

(* An order of the exchange: its quantity, and the size it leads to.       *)
Ordered(kind, k, n, size) ==
  \/ /\ kind = "Open"
     /\ k \in Keys
     /\ n <= MaxQty
     /\ size = held + n
     /\ IF k \in Zones THEN k \notin ordered /\ ordered' = ordered \cup {k}
                       ELSE ordered' = ordered
  \/ /\ kind \in Closing
     /\ k = None
     /\ n <= held
     /\ size = held - n
     /\ ordered' = ordered
     /\ kind = "StopLoss" => size = 0

(* Every step of the exchange is the execution of one order.               *)
LEMMA ExchangeFacts ==
  ASSUME TypeInv, Exchange
  PROVE  /\ orders < MaxOrders
         /\ orders' = orders + 1
         /\ held' \in Nat
         /\ now' \in {now + 1, now + 2}
         /\ UNCHANGED <<up, store, todo, disk, rows, active, faults, overlapped>>
         /\ \E kind \in Closing \cup {"Open"}, k \in Keys \cup {None}, n \in Nat \ {0},
               outside \in BOOLEAN :
              \E X : /\ Ordered(kind, k, n, held')
                     /\ Reported(kind, k, n, held', outside, X)
                     /\ feed' = IF up THEN feed \o X ELSE feed
<1>1. held \in Nat
  BY DEF TypeInv
<1> DEFINE Chosen(kind, k, n, size, outside) ==
             \E qs \in Fills(n) : /\ Execute(kind, k, qs, size, outside)
                                  /\ Ordered(kind, k, n, size)
<1>2. ASSUME NEW n \in 1..MaxQty, NEW z \in Zones, EnterZone(z, n)
      PROVE  Chosen("Open", z, n, held + n, FALSE)
  <2>1. n \in Nat /\ n <= MaxQty /\ held + n = n /\ z \in Keys
    BY <1>2, ConstantsAssumption DEF EnterZone, Keys
  <2> QED
    BY <1>2, <2>1 DEF EnterZone, Ordered
<1>3. ASSUME NEW n \in 1..MaxQty, EnterManually(n)
      PROVE  Chosen("Open", Manual, n, held + n, FALSE)
  <2>1. n \in Nat /\ n <= MaxQty /\ Manual \in Keys /\ Manual \notin Zones
    BY ConstantsAssumption DEF Keys
  <2> QED
    BY <1>3, <2>1 DEF EnterManually, Ordered
<1>4. ASSUME NEW kind \in {"Close", "TakeProfit"}, NEW n \in 1..held, NEW outside \in BOOLEAN,
             Reduce(kind, n, outside)
      PROVE  Chosen(kind, None, n, held - n, outside)
  BY <1>1, <1>4 DEF Reduce, Ordered, Closing
<1>5. ASSUME StopOut
      PROVE  held \in Nat \ {0} /\ Chosen("StopLoss", None, held, 0, FALSE)
  <2>a. /\ held > 0 /\ ordered' = ordered
        /\ \E qs \in Fills(held) : Execute("StopLoss", None, qs, 0, FALSE)
    BY <1>5, Zenon DEF StopOut
  <2>b. held \in Nat \ {0} /\ held <= held /\ 0 = held - held
    <3>1. held > 0
      BY <2>a
    <3> QED
      BY <1>1, <3>1
  <2>1. /\ held \in Nat \ {0} /\ held <= held /\ 0 = held - held /\ ordered' = ordered
        /\ \E qs \in Fills(held) : Execute("StopLoss", None, qs, 0, FALSE)
    BY <2>a, <2>b, Zenon
  <2>2. Ordered("StopLoss", None, held, 0)
    BY <2>1 DEF Ordered, Closing
  <2> QED
    BY <2>1, <2>2
<1> HIDE DEF Chosen
<1>6. PICK kind \in Closing \cup {"Open"}, k \in Keys \cup {None}, n \in Nat \ {0},
           size \in Nat, outside \in BOOLEAN : Chosen(kind, k, n, size, outside)
  <2>0. /\ "Open" \in Closing \cup {"Open"} /\ FALSE \in BOOLEAN
        /\ {"Close", "TakeProfit", "StopLoss"} \subseteq Closing \cup {"Open"}
        /\ Manual \in Keys \cup {None} /\ None \in Keys \cup {None}
        /\ \A z \in Zones : z \in Keys \cup {None}
    BY DEF Keys, Closing
  <2>1. CASE \E n \in 1..MaxQty : EnterManually(n)
    <3>1. PICK n \in 1..MaxQty : EnterManually(n)
      BY <2>1
    <3>2. n \in Nat \ {0} /\ held + n \in Nat
      BY <1>1, ConstantsAssumption
    <3>3. Chosen("Open", Manual, n, held + n, FALSE)
      BY <1>3, <3>1
    <3> QED
      BY <2>0, <3>2, <3>3
  <2>2. CASE \E n \in 1..MaxQty, z \in Zones : EnterZone(z, n)
    <3>1. PICK n \in 1..MaxQty, z \in Zones : EnterZone(z, n)
      BY <2>2
    <3>2. n \in Nat \ {0} /\ held + n \in Nat
      BY <1>1, ConstantsAssumption
    <3>3. Chosen("Open", z, n, held + n, FALSE)
      BY <1>2, <3>1
    <3> QED
      BY <2>0, <3>2, <3>3
  <2>3. CASE \E n \in 1..held, kind \in {"Close", "TakeProfit"}, outside \in BOOLEAN :
               Reduce(kind, n, outside)
    <3>1. PICK n \in 1..held, kind \in {"Close", "TakeProfit"}, outside \in BOOLEAN :
                Reduce(kind, n, outside)
      BY <2>3
    <3>2. n \in Nat \ {0} /\ held - n \in Nat
      BY <1>1
    <3>3. Chosen(kind, None, n, held - n, outside)
      BY <1>4, <3>1
    <3> QED
      BY <2>0, <3>2, <3>3
  <2>4. CASE StopOut
    BY <1>5, <2>0, <2>4
  <2> QED
    BY <2>1, <2>2, <2>3, <2>4 DEF Exchange
<1>7. PICK qs \in Fills(n) : Execute(kind, k, qs, size, outside) /\ Ordered(kind, k, n, size)
  BY <1>6 DEF Chosen
<1>8. (kind = "Open" /\ k \in Keys) \/ (kind \in Closing /\ k = None)
  BY <1>7 DEF Ordered
<1>9. /\ orders < MaxOrders
      /\ orders' = orders + 1
      /\ held' = size
      /\ now' \in {now + 1, now + 2}
      /\ UNCHANGED <<up, store, todo, disk, rows, active, faults, overlapped>>
      /\ \E X : Reported(kind, k, n, size, outside, X)
                /\ feed' = IF up THEN feed \o X ELSE feed
  <2>1. Executed(kind, k, n, size, outside)
    BY <1>7, <1>8, ExecuteFacts
  <2> QED
    BY <2>1 DEF Executed
<1> QED
  BY <1>7, <1>9

-----------------------------------------------------------------------------
(***************************************************************************)
(* The types are an invariant.                                             *)
(***************************************************************************)

(* A larger product, and the bound of the size.                            *)
LEMMA Larger ==
  ASSUME NEW m \in Nat, NEW a \in Nat, NEW b \in Nat, a <= b
  PROVE  m * a <= m * b
<1> DEFINE T == {d \in Nat : m * a <= m * (a + d)}
<1>1. 0 \in T
  OBVIOUS
<1>2. ASSUME NEW d \in T PROVE d + 1 \in T
  <2>1. m * (a + (d + 1)) = m * (a + d) + m /\ m * (a + d) \in Int /\ m * a \in Int
    BY SMT
  <2>2. m * a <= m * (a + d) + m
    <3>1. ASSUME NEW x \in Int, NEW y \in Int, x <= y PROVE x <= y + m
      BY <3>1
    <3>2. m * a <= m * (a + d)
      OBVIOUS
    <3> QED
      BY <2>1, <3>1, <3>2
  <2> QED
    BY <2>1, <2>2
<1>3. b - a \in T
  <2>1. b - a \in Nat
    OBVIOUS
  <2>2. T \subseteq Nat
    OBVIOUS
  <2> HIDE DEF T
  <2> QED
    BY <1>1, <1>2, <2>1, <2>2, Induction
<1> QED
  BY <1>3

(* Short sequences of one type.                                            *)
LEMMA TupleTypes ==
  ASSUME NEW S
  PROVE  /\ \A a, b \in S : <<a, b>> \in Seq(S)
         /\ \A a, b, c \in S : <<a, b, c>> \in Seq(S)
         /\ \A a, b, c, d \in S : <<a, b, c, d>> \in Seq(S)
  OBVIOUS

(* The messages of an order are messages.                                  *)
LEMMA ReportedMessages ==
  ASSUME NEW kind, NEW k, NEW n, NEW size, NEW outside, NEW X,
         Reported(kind, k, n, size, outside, X)
  PROVE  X \in Seq(Messages)
<1>1. PICK a \in 1..n, t \in {now, now + 1} :
        LET A == Message(kind, k, a, outside, now)
            B == Message(kind, k, n - a, outside, t)
            P == Report(size)
        IN /\ A \in Messages /\ P \in Messages
           /\ \/ X = <<A, P>> \/ X = <<P, A>>
              \/ B \in Messages /\ (X = <<A, B, P>> \/ X = <<P, A, B>>)
  BY DEF Reported
<1> DEFINE A == Message(kind, k, a, outside, now)
           B == Message(kind, k, n - a, outside, t)
           P == Report(size)
<1>2. /\ A \in Messages /\ P \in Messages
      /\ \/ X = <<A, P>> \/ X = <<P, A>>
         \/ B \in Messages /\ (X = <<A, B, P>> \/ X = <<P, A, B>>)
  BY <1>1
<1> HIDE DEF A, B, P
<1>3. CASE X = <<A, P>> \/ X = <<P, A>>
  BY <1>2, <1>3, TupleTypes
<1>4. CASE B \in Messages /\ (X = <<A, B, P>> \/ X = <<P, A, B>>)
  BY <1>2, <1>4, TupleTypes
<1> QED
  BY <1>2, <1>3, <1>4

(* Joining keeps the type.                                                 *)
LEMMA JoinedType ==
  ASSUME NEW S, NEW q \in Seq(S), NEW r \in Seq(S)
  PROVE  q \o r \in Seq(S)
  OBVIOUS

(* A record closed at the start.                                           *)
LEMMA ReconciledFacts ==
  ASSUME NEW image \in Images
  PROVE  /\ Reconciled(image) \in Images
         /\ Reconcile =>
              \A k \in Keys :
                IF image[k] = None THEN Reconciled(image)[k] = None
                ELSE IF LeftOf(image[k]) > 0 THEN Reconciled(image)[k] = image[k]
                ELSE Reconciled(image)[k] = Reset(image[k], 0, TRUE)
<1>1. CASE ~Reconcile
  BY <1>1 DEF Reconciled
<1>2. CASE Reconcile
  <2> DEFINE f == [k \in Keys |->
                     IF image[k] = None THEN None
                     ELSE IF LeftOf(image[k]) > 0 THEN image[k]
                     ELSE Reset(image[k], 0, TRUE)]
  <2>1. Reconciled(image) = f
    BY <1>2 DEF Reconciled, Reset
  <2>2. ASSUME NEW k \in Keys PROVE f[k] \in AllRecords \cup {None}
    <3>1. CASE image[k] = None
      BY <3>1
    <3>2. CASE image[k] # None
      <4> DEFINE o == image[k]
      <4>1. o \in AllRecords
        BY <3>2, ImageFacts
      <4>2. /\ o.entry \in Nat \ {0} /\ DOMAIN o.fills \in SUBSET Labels
            /\ o.fills \in [DOMAIN o.fills -> Nat \ {0}]
            /\ o.outside \in BOOLEAN /\ o.time \in Seconds
        BY <4>1, RecordFacts
      <4> HIDE DEF o
      <4>3. Reset(o, 0, TRUE) = [entry |-> o.entry, cur |-> 0, fills |-> o.fills,
                                 closed |-> TRUE, outside |-> o.outside, time |-> o.time]
        BY <4>1, ResetIs
      <4>4. Reset(o, 0, TRUE) \in AllRecords
        <5>1. [entry |-> o.entry, cur |-> 0, fills |-> o.fills, closed |-> TRUE,
               outside |-> o.outside, time |-> o.time] \in AllRecords
          BY <4>2, RecordMade
        <5> QED
          BY <4>3, <5>1
      <4> QED
        BY <3>2, <4>1, <4>4 DEF o
    <3> QED
      BY <3>1, <3>2
  <2>3. f \in Images
    BY <2>2 DEF Images
  <2> QED
    BY <2>1, <2>3
<1> QED
  BY <1>1, <1>2

(* The initial state has its types.                                        *)
LEMMA TypeInit ==
  ASSUME Init
  PROVE  TypeInv
<1>1. <<>> \in Seq(Messages) /\ <<>> \in Seq(Writes)
  OBVIOUS
<1>2. MaxQty * 0 = 0 /\ 0 \in 0..MaxOrders /\ 0 \in 0..MaxFaults
  BY ConstantsAssumption
<1>3. [k \in Keys |-> None] \in Images
  BY DEF Images
<1>4. /\ held \in Nat /\ held <= MaxQty * orders
      /\ orders \in 0..MaxOrders /\ now \in Nat \ {0} /\ now <= 2 * orders + 1
      /\ faults \in 0..MaxFaults
  BY <1>2 DEF Init
<1>5. /\ up = TRUE /\ overlapped = FALSE /\ ordered = {} /\ active = Zones
      /\ feed = <<>> /\ todo = <<>>
      /\ store \in Images /\ disk \in Images /\ rows \in [Keys -> Rows \cup {None}]
  BY <1>3 DEF Init
<1> QED
  BY <1>1, <1>4, <1>5 DEF TypeInv

(* What a handler leaves alone keeps its type.                             *)
HandlerVars == <<held, ordered, orders, now, up, disk, rows, active, faults>>

(* The types after a handler that keeps those of what it changes,          *)
LEMMA TypeHandler ==
  ASSUME TypeInv, NEW kind, Handled(kind),
         UNCHANGED <<held, ordered, orders, now, up, disk, rows, active, faults>>,
         store' \in Images, todo' \in Seq(Writes), overlapped' \in BOOLEAN
  PROVE  TypeInv'
<1>1. feed' \in Seq(Messages)
  BY TailFacts DEF TypeInv, Handled
<1> QED
  BY <1>1 DEF TypeInv, Handled

(* after a step of the exchange,                                           *)
LEMMA TypeExchange ==
  ASSUME TypeInv, Exchange
  PROVE  TypeInv'
<1>1. PICK kind \in Closing \cup {"Open"}, k \in Keys \cup {None}, n \in Nat \ {0},
           outside \in BOOLEAN :
        \E X : /\ Ordered(kind, k, n, held')
               /\ Reported(kind, k, n, held', outside, X)
               /\ feed' = IF up THEN feed \o X ELSE feed
  BY ExchangeFacts
<1>2. /\ orders < MaxOrders
      /\ orders' = orders + 1
      /\ held' \in Nat
      /\ now' \in {now + 1, now + 2}
      /\ UNCHANGED <<up, store, todo, disk, rows, active, faults, overlapped>>
  BY ExchangeFacts
<1>3. feed' \in Seq(Messages)
  <2>1. PICK X : /\ Reported(kind, k, n, held', outside, X)
                 /\ feed' = IF up THEN feed \o X ELSE feed
    BY <1>1
  <2>2. X \in Seq(Messages)
    BY <2>1, ReportedMessages
  <2> QED
    BY <2>1, <2>2, JoinedType DEF TypeInv
<1>4. ordered' \in SUBSET Zones
  BY <1>1 DEF Ordered, TypeInv
<1>5. held' <= MaxQty * orders'
  <2>1. MaxQty \in Nat /\ orders \in Nat /\ held \in Nat /\ held <= MaxQty * orders
    BY ConstantsAssumption DEF TypeInv
  <2>2. held' <= held + MaxQty
    BY <1>1, <2>1 DEF Ordered
  <2>3. MaxQty * (orders + 1) = MaxQty * orders + MaxQty
    BY <2>1
  <2>4. ASSUME NEW x \in Nat, NEW y \in Nat, NEW z \in Nat, NEW p \in Int,
               x <= p, y <= x + z
        PROVE  y <= p + z
    BY <2>4
  <2>5. MaxQty * orders \in Int
    BY <2>1
  <2> QED
    BY <1>2, <2>1, <2>2, <2>3, <2>4, <2>5
<1>6. now' \in Nat \ {0} /\ now' <= 2 * orders' + 1 /\ orders' \in 0..MaxOrders
  BY <1>2, ConstantsAssumption DEF TypeInv
<1>7. ~up' => feed' = <<>> /\ todo' = <<>> /\ store' = [j \in Keys |-> None]
  BY <1>1, <1>2 DEF TypeInv
<1> QED
  BY <1>2, <1>3, <1>4, <1>5, <1>6, <1>7 DEF TypeInv

(* One write.                                                              *)
LEMMA RowsFacts ==
  ASSUME NEW w \in Writes, rows \in [Keys -> Rows \cup {None}], Applied(w)
  PROVE  rows' \in [Keys -> Rows \cup {None}]
<1> DEFINE k == w.key
           o == rows[k]
<1>1. w.op # "save" => k \in Keys
  BY WriteFacts
<1>2. w.op \in {"upsert", "fill"} => w.qty \in Nat \ {0}
  BY WriteFacts
<1>3. CASE w.op = "upsert" /\ o = None
  <2>1. rows' = [rows EXCEPT ![k] = [qty |-> w.qty, out |-> 0, closed |-> FALSE]]
    BY <1>3 DEF Applied
  <2>2. [qty |-> w.qty, out |-> 0, closed |-> FALSE] \in Rows
    BY <1>2, <1>3 DEF Rows
  <2> QED
    BY <2>1, <2>2
<1>4. CASE w.op = "upsert" /\ o # None
  <2>1. rows' = [rows EXCEPT ![k].qty = o.qty + w.qty]
    BY <1>4 DEF Applied
  <2>2. o \in Rows
    BY <1>1, <1>4
  <2>3. [o EXCEPT !.qty = o.qty + w.qty] \in Rows
    BY <1>2, <1>4, <2>2 DEF Rows
  <2> QED
    BY <2>1, <2>3
<1>5. CASE w.op = "fill" /\ o # None
  <2>1. rows' = [rows EXCEPT ![k].out = o.out + w.qty]
    BY <1>5 DEF Applied
  <2>2. o \in Rows
    BY <1>1, <1>5
  <2>3. [o EXCEPT !.out = o.out + w.qty] \in Rows
    BY <1>2, <1>5, <2>2 DEF Rows
  <2> QED
    BY <2>1, <2>3
<1>6. CASE w.op = "finalize" /\ o # None
  <2>1. rows' = [rows EXCEPT ![k].closed = TRUE]
    BY <1>6 DEF Applied
  <2>2. o \in Rows
    BY <1>1, <1>6
  <2>3. [o EXCEPT !.closed = TRUE] \in Rows
    BY <2>2 DEF Rows
  <2> QED
    BY <2>1, <2>3
<1>7. CASE ~(w.op = "upsert") /\ ~(w.op = "fill" /\ o # None) /\ ~(w.op = "finalize" /\ o # None)
  BY <1>7 DEF Applied
<1> QED
  BY <1>3, <1>4, <1>5, <1>6, <1>7

(* and after any step.                                                     *)
LEMMA TypeStep ==
  ASSUME TypeInv, [Next]_vars
  PROVE  TypeInv'
<1>1. CASE Exchange
  BY <1>1, TypeExchange
<1>2. CASE HandleOpen
  <2> DEFINE k == Head(feed).key
  <2>1. Handled("Open") /\ k \in Keys /\ UNCHANGED HandlerVars /\ overlapped' \in BOOLEAN
    BY <1>2, OpenHandled DEF HandlerVars, TypeInv
  <2>2. PICK r \in AllRecords : Opened(k, r)
    BY <1>2, OpenHandled
  <2>3. Head(feed).qty \in Nat \ {0}
    BY <2>1, MessageFacts DEF Handled
  <2>4. store' \in Images
    BY <2>1, <2>2, ImageMade DEF Opened, TypeInv
  <2>5. todo' \in Seq(Writes)
    <3>1. todo' = <<Upsert(k, Head(feed).qty), Save(store')>>
      BY <2>2 DEF Opened
    <3>2. Upsert(k, Head(feed).qty) \in Writes /\ Save(store') \in Writes
      BY <2>1, <2>3, <2>4, WriteMade
    <3> QED
      BY <3>1, <3>2
  <2> QED
    BY <2>1, <2>4, <2>5, TypeHandler DEF HandlerVars
<1>3. CASE HandleClose
  <2>1. Handled("Close") /\ UNCHANGED HandlerVars
    BY <1>3, CloseHandled DEF HandlerVars
  <2>2. PICK k \in OpenKeys, r \in AllRecords, full \in BOOLEAN, stop \in BOOLEAN :
          /\ overlapped' = (overlapped \/ Cardinality(OpenKeys \cup {k}) > 1)
          /\ Closed(k, r, full, stop)
    BY <1>3, CloseHandled
  <2>3. Head(feed).qty \in Nat \ {0} /\ k \in Keys
    BY <2>1, <2>2, MessageFacts, OpenFacts DEF Handled
  <2>4. store' \in Images
    BY <2>2, <2>3, ImageMade DEF Closed, TypeInv
  <2>5. todo' \in Seq(Writes)
    <3> DEFINE d == Deactivate(k)
               g == Fill(k, Head(feed).qty)
               z == Finalize(k)
               v == Save(store')
    <3>1. todo' \in {<<d, g, z, v>>, <<g, z, v>>, <<g, v>>}
      BY <2>2 DEF Closed
    <3>2. d \in Writes /\ g \in Writes /\ z \in Writes /\ v \in Writes
      BY <2>3, <2>4, WriteMade
    <3> HIDE DEF d, g, z, v
    <3> QED
      BY <3>1, <3>2, TupleTypes
  <2>6. overlapped' \in BOOLEAN
    BY <2>2 DEF TypeInv
  <2> QED
    BY <2>1, <2>4, <2>5, <2>6, TypeHandler DEF HandlerVars
<1>4. CASE HandleTakeProfit
  <2>1. Handled("TakeProfit") /\ UNCHANGED HandlerVars
    BY <1>4, TakeProfitHandled DEF HandlerVars
  <2>2. PICK k \in OpenKeys, b \in AllRecords, r \in AllRecords :
          /\ overlapped' = (overlapped \/ Cardinality(OpenKeys \cup {k}) > 1)
          /\ TookProfit(k, b, r)
    BY <1>4, TakeProfitHandled
  <2>3. Head(feed).qty \in Nat \ {0} /\ k \in Keys
    BY <2>1, <2>2, MessageFacts, OpenFacts DEF Handled
  <2>4. store' \in Images /\ [store EXCEPT ![k] = b] \in Images
    BY <2>2, <2>3, ImageMade DEF TookProfit, TypeInv
  <2>5. todo' \in Seq(Writes)
    <3> DEFINE u == Save([store EXCEPT ![k] = b])
               g == Fill(k, Head(feed).qty)
               z == Finalize(k)
               v == Save(store')
    <3>1. todo' \in {<<u, g, z, v>>, <<u, g>>}
      BY <2>2 DEF TookProfit
    <3>2. u \in Writes /\ g \in Writes /\ z \in Writes /\ v \in Writes
      BY <2>3, <2>4, WriteMade
    <3> HIDE DEF u, g, z, v
    <3> QED
      BY <3>1, <3>2, TupleTypes
  <2>6. overlapped' \in BOOLEAN
    BY <2>2 DEF TypeInv
  <2> QED
    BY <2>1, <2>4, <2>5, <2>6, TypeHandler DEF HandlerVars
<1>5. CASE HandleStopLoss
  <2>1. Handled("StopLoss") /\ UNCHANGED HandlerVars
    BY <1>5, StopLossHandled DEF HandlerVars
  <2>2. PICK k \in OpenKeys, r \in AllRecords :
          /\ overlapped' = (overlapped \/ Cardinality(OpenKeys \cup {k}) > 1)
          /\ Stopped(k, r)
    BY <1>5, StopLossHandled
  <2>3. Head(feed).qty \in Nat \ {0} /\ k \in Keys
    BY <2>1, <2>2, MessageFacts, OpenFacts DEF Handled
  <2>4. store' \in Images
    BY <2>2, <2>3, ImageMade DEF Stopped, TypeInv
  <2>5. todo' \in Seq(Writes)
    <3> DEFINE d == Deactivate(k)
               g == Fill(k, Head(feed).qty)
               z == Finalize(k)
               v == Save(store')
    <3>1. todo' \in {<<d, v, g, z>>, <<v, g, z>>}
      BY <2>2 DEF Stopped
    <3>2. d \in Writes /\ g \in Writes /\ z \in Writes /\ v \in Writes
      BY <2>3, <2>4, WriteMade
    <3> HIDE DEF d, g, z, v
    <3> QED
      BY <3>1, <3>2, TupleTypes
  <2>6. overlapped' \in BOOLEAN
    BY <2>2 DEF TypeInv
  <2> QED
    BY <2>1, <2>4, <2>5, <2>6, TypeHandler DEF HandlerVars
<1>6. CASE HandlePosition
  <2>1. Handled("Position") /\ UNCHANGED HandlerVars
    BY <1>6, PositionHandled DEF HandlerVars
  <2>2. CASE UNCHANGED <<store, todo, overlapped>>
    BY <2>1, <2>2, TypeHandler DEF HandlerVars, TypeInv
  <2>3. CASE \E k \in OpenKeys, r \in AllRecords :
               /\ overlapped' = (overlapped \/ Cardinality(OpenKeys \cup {k}) > 1)
               /\ Resized(k, r)
    <3>1. PICK k \in OpenKeys, r \in AllRecords :
            /\ overlapped' = (overlapped \/ Cardinality(OpenKeys \cup {k}) > 1)
            /\ Resized(k, r)
      BY <2>3
    <3>2. k \in Keys
      BY OpenFacts
    <3>3. store' \in Images
      BY <3>1, <3>2, ImageMade DEF Resized, TypeInv
    <3>4. todo' \in Seq(Writes)
      BY <3>1, <3>3, WriteMade DEF Resized
    <3> QED
      BY <2>1, <3>1, <3>3, <3>4, TypeHandler DEF HandlerVars, TypeInv
  <2> QED
    BY <1>6, <2>2, <2>3, PositionHandled
<1>7. CASE \E kind \in {"Close", "TakeProfit", "StopLoss"} : Skip(kind, CloseTargets)
  <2>1. PICK kind \in Closing : Skip(kind, CloseTargets)
    BY <1>7 DEF Closing
  <2>2. Handled(kind) /\ UNCHANGED HandlerVars /\ UNCHANGED <<store, todo, overlapped>>
    BY <2>1, SkipHandled DEF HandlerVars
  <2> QED
    BY <2>2, TypeHandler DEF HandlerVars, TypeInv
<1>8. CASE Write
  <2>1. Head(todo) \in Writes /\ Tail(todo) \in Seq(Writes)
    BY <1>8, TailFacts DEF Write, TypeInv
  <2>2. Applied(Head(todo)) /\ up /\ todo' = Tail(todo)
        /\ UNCHANGED <<held, ordered, orders, now, feed, up, store, faults, overlapped>>
    BY <1>8 DEF Write, exchangeVars
  <2>3. rows' \in [Keys -> Rows \cup {None}]
    BY <2>1, <2>2, RowsFacts DEF TypeInv
  <2>4. disk' \in Images /\ active' \in SUBSET Zones
    BY <2>1, <2>2, WriteFacts DEF Applied, TypeInv
  <2> QED
    BY <2>1, <2>2, <2>3, <2>4 DEF TypeInv
<1>9. CASE Start
  <2>1. store' \in Images
    BY <1>9, ReconciledFacts DEF Start, TypeInv
  <2>2. todo' \in Seq(Writes)
    <3>1. Save(store') \in Writes
      BY <2>1, WriteMade
    <3> QED
      BY <1>9, <3>1 DEF Start, When
  <2> QED
    BY <1>9, <2>1, <2>2 DEF Start, TypeInv, exchangeVars, dbVars
<1>10. CASE Crash
  <2>1. /\ faults' \in 0..MaxFaults /\ up' = FALSE /\ feed' = <<>> /\ todo' = <<>>
        /\ store' = [k \in Keys |-> None]
        /\ UNCHANGED <<held, ordered, orders, now, disk, rows, active, overlapped>>
    BY <1>10, ConstantsAssumption DEF Crash, Fault, TypeInv, exchangeVars, dbVars
  <2>2. [k \in Keys |-> None] \in Images
    BY DEF Images
  <2>3. store' \in Images /\ feed' \in Seq(Messages) /\ todo' \in Seq(Writes)
    <3>1. <<>> \in Seq(Messages) /\ <<>> \in Seq(Writes)
      OBVIOUS
    <3> QED
      BY <2>1, <2>2, <3>1
  <2> QED
    BY <2>1, <2>3 DEF TypeInv
<1>11. CASE Reconnect
  <2>1. /\ faults' \in 0..MaxFaults /\ up /\ feed' = <<>>
        /\ UNCHANGED <<held, ordered, orders, now, up, store, todo, disk, rows, active, overlapped>>
    BY <1>11, ConstantsAssumption DEF Reconnect, Fault, TypeInv, exchangeVars, dbVars
  <2> QED
    BY <2>1 DEF TypeInv
<1>12. CASE WriteFails
  <2>1. /\ faults' \in 0..MaxFaults /\ up /\ todo' = Tail(todo)
        /\ UNCHANGED <<held, ordered, orders, now, feed, up, store, disk, rows, active, overlapped>>
    BY <1>12, ConstantsAssumption DEF WriteFails, Fault, TypeInv, exchangeVars, dbVars
  <2>2. Tail(todo) \in Seq(Writes)
    BY <1>12, TailFacts DEF WriteFails, TypeInv
  <2> QED
    BY <2>1, <2>2 DEF TypeInv
<1>13. CASE UNCHANGED vars
  BY <1>13 DEF TypeInv, vars
<1> QED
  BY <1>1, <1>2, <1>3, <1>4, <1>5, <1>6, <1>7, <1>8, <1>9, <1>10, <1>11, <1>12, <1>13
     DEF Next, Handler

(* The open records after one record changed.                              *)
LEMMA OpenChange ==
  ASSUME TypeInv, NEW k \in Keys, NEW r \in AllRecords, store' = [store EXCEPT ![k] = r]
  PROVE  /\ OpenKeys' = IF r.closed THEN OpenKeys \ {k} ELSE OpenKeys \cup {k}
         /\ store'[k] = r
         /\ \A j \in Keys \ {k} : store'[j] = store[j]
<1>1. store'[k] = r /\ \A j \in Keys \ {k} : store'[j] = store[j]
  BY ImageMade DEF TypeInv
<1>2. r # None
  BY RecordFacts
<1> QED
  BY <1>1, <1>2 DEF OpenKeys, IsOpen

-----------------------------------------------------------------------------
(***************************************************************************)
(* Sizes.  An open record has something left by both accounts.  An image   *)
(* in the file, or about to be, may also have nothing left by either: the  *)
(* take-profit handler saves the record before it closes it.               *)
(***************************************************************************)
SizeOK(r) == r.cur > 0 /\ LeftOf(r) > 0

ImageOK(image) ==
  \A k \in Keys : image[k] # None /\ ~image[k].closed =>
                    SizeOK(image[k]) \/ (image[k].cur = 0 /\ LeftOf(image[k]) = 0)

GoodWrites == {w \in Writes : w.op = "save" => ImageOK(w.image)}

SizeInv ==
  /\ faults = 0 => up
  /\ Reconcile \/ faults = 0 =>
       /\ \A k \in OpenKeys : SizeOK(store[k])
       /\ ImageOK(disk)
       /\ todo \in Seq(GoodWrites)

(* A fill takes its quantity from what is left, or less.                   *)
LEMMA BookedLeft ==
  ASSUME NEW o \in AllRecords, NEW r \in AllRecords, NEW label \in Labels,
         NEW q \in Nat \ {0}, r.entry = o.entry, r.fills = Booked(o.fills, label, q)
  PROVE  /\ LeftOf(r) \in Nat
         /\ LeftOf(r) >= LeftOf(o) - q
         /\ label \notin DOMAIN o.fills /\ LeftOf(o) >= q => LeftOf(r) = LeftOf(o) - q
<1>1. /\ LeftOf(o) \in Nat /\ LeftOf(r) \in Nat
      /\ Total(o.fills) \in Nat /\ Total(r.fills) \in Nat
      /\ LeftOf(o) > 0 => LeftOf(o) = o.entry - Total(o.fills)
      /\ LeftOf(r) > 0 => LeftOf(r) = r.entry - Total(r.fills)
      /\ LeftOf(r) >= r.entry - Total(r.fills)
  BY LeftFacts
<1>2. /\ Total(r.fills) <= Total(o.fills) + q
      /\ label \notin DOMAIN o.fills => Total(r.fills) = Total(o.fills) + q
  <2>1. /\ Total(Booked(o.fills, label, q)) <= Total(o.fills) + q
        /\ label \notin DOMAIN o.fills =>
             Total(Booked(o.fills, label, q)) = Total(o.fills) + q
    BY BookedFacts
  <2> QED
    BY <2>1
<1>3. o.entry \in Nat
  BY RecordFacts
<1>4. LeftOf(r) >= LeftOf(o) - q
  BY <1>1, <1>2, <1>3
<1>5. ASSUME label \notin DOMAIN o.fills, LeftOf(o) >= q PROVE LeftOf(r) = LeftOf(o) - q
  BY <1>1, <1>2, <1>3, <1>5
<1> QED
  BY <1>1, <1>4, <1>5

(* More entries leave more.                                                *)
LEMMA EnteredLeft ==
  ASSUME NEW o \in AllRecords, NEW r \in AllRecords, NEW q \in Nat \ {0},
         r.entry = o.entry + q, r.fills = o.fills, LeftOf(o) > 0
  PROVE  LeftOf(r) = LeftOf(o) + q
<1>1. /\ LeftOf(o) \in Nat /\ LeftOf(r) \in Nat
      /\ Total(o.fills) \in Nat
      /\ LeftOf(o) > 0 => LeftOf(o) = o.entry - Total(o.fills)
      /\ LeftOf(r) > 0 => LeftOf(r) = r.entry - Total(r.fills)
      /\ LeftOf(r) >= r.entry - Total(r.fills)
  BY LeftFacts
<1>2. o.entry \in Nat
  BY RecordFacts
<1> QED
  BY <1>1, <1>2

(* A new record has all of its entries left.                               *)
LEMMA NewLeft ==
  ASSUME NEW r \in AllRecords, r.fills = <<>>
  PROVE  LeftOf(r) = r.entry
<1>1. Total(r.fills) = 0 /\ r.entry \in Nat \ {0}
  BY NoFills, RecordFacts
<1> QED
  BY <1>1 DEF LeftOf

(* What a handler makes of an open record is either closed or has something *)
(* left by both accounts; the rest of the store is as it was.              *)
LEMMA SizeHandler ==
  ASSUME TypeInv, \A j \in OpenKeys : SizeOK(store[j]), NEW k \in Keys, NEW r \in AllRecords,
         store' = [store EXCEPT ![k] = r], ~r.closed => SizeOK(r)
  PROVE  /\ \A j \in OpenKeys' : SizeOK(store'[j])
         /\ ImageOK(store')
<1>1. \A j \in OpenKeys' : SizeOK(store'[j])
  <2> SUFFICES ASSUME NEW j \in OpenKeys' PROVE SizeOK(store'[j])
    OBVIOUS
  <2>1. CASE j = k
    <3>1. store'[j] = r /\ ~r.closed
      BY <2>1, OpenChange
    <3> QED
      BY <3>1
  <2>2. CASE j # k
    <3>1. j \in OpenKeys /\ j \in Keys /\ store'[j] = store[j]
      <4>a. OpenKeys' = IF r.closed THEN OpenKeys \ {k} ELSE OpenKeys \cup {k}
        BY OpenChange
      <4>1. j \in OpenKeys
        BY <2>2, <4>a
      <4>2. j \in Keys
        BY <4>1 DEF OpenKeys
      <4> QED
        BY <2>2, <4>1, <4>2, OpenChange
    <3> QED
      BY <3>1
  <2> QED
    BY <2>1, <2>2
<1>2. ASSUME NEW j \in Keys, store'[j] # None, ~store'[j].closed PROVE j \in OpenKeys'
  BY <1>2 DEF OpenKeys, IsOpen
<1> QED
  BY <1>1, <1>2 DEF ImageOK

(* No record is open at first.                                             *)
LEMMA SizeInit ==
  ASSUME Init
  PROVE  SizeInv
<1>1. <<>> \in Seq(GoodWrites)
  OBVIOUS
<1> QED
  BY <1>1 DEF Init, SizeInv, OpenKeys, IsOpen, ImageOK

(* The writes of a handler.                                                *)
LEMMA GoodMade ==
  /\ \A image \in Images : ImageOK(image) => Save(image) \in GoodWrites
  /\ \A k \in Keys, q \in Nat \ {0} : Upsert(k, q) \in GoodWrites /\ Fill(k, q) \in GoodWrites
  /\ \A k \in Keys : Finalize(k) \in GoodWrites /\ Deactivate(k) \in GoodWrites
<1>1. ASSUME NEW image \in Images, ImageOK(image) PROVE Save(image) \in GoodWrites
  <2>1. Save(image) \in Writes /\ Save(image).image = image
    BY WriteMade DEF Save
  <2> QED
    BY <1>1, <2>1 DEF GoodWrites
<1>2. ASSUME NEW k \in Keys, NEW q \in Nat \ {0}
      PROVE  Upsert(k, q) \in GoodWrites /\ Fill(k, q) \in GoodWrites
  <2>1. /\ Upsert(k, q) \in Writes /\ Upsert(k, q).op # "save"
        /\ Fill(k, q) \in Writes /\ Fill(k, q).op # "save"
    BY WriteMade DEF Upsert, Fill
  <2> QED
    BY <2>1 DEF GoodWrites
<1>3. ASSUME NEW k \in Keys
      PROVE  Finalize(k) \in GoodWrites /\ Deactivate(k) \in GoodWrites
  <2>1. /\ Finalize(k) \in Writes /\ Finalize(k).op # "save"
        /\ Deactivate(k) \in Writes /\ Deactivate(k).op # "save"
    BY WriteMade DEF Finalize, Deactivate
  <2> QED
    BY <2>1 DEF GoodWrites
<1> QED
  BY <1>1, <1>2, <1>3

(* Every step keeps the sizes positive.                                    *)
LEMMA SizeStep ==
  ASSUME TypeInv, TypeInv', SizeInv, [Next]_vars
  PROVE  SizeInv'
<1>1. faults' = 0 => faults = 0 /\ up'
  <2>1. CASE Exchange
    BY <2>1, ExchangeFacts DEF SizeInv
  <2>2. CASE Handler
    <3>1. UNCHANGED <<faults, up>>
      BY <2>2 DEF Handler, HandleOpen, HandleClose, HandleTakeProfit, HandleStopLoss,
                  HandlePosition, Skip, Handling
    <3> QED
      BY <3>1 DEF SizeInv
  <2>3. CASE Write \/ Start
    BY <2>3 DEF SizeInv, Write, Start
  <2>4. CASE Crash \/ Reconnect \/ WriteFails
    BY <2>4 DEF Crash, Reconnect, WriteFails, Fault, TypeInv
  <2>5. CASE UNCHANGED vars
    BY <2>5 DEF SizeInv, vars
  <2> QED
    BY <2>1, <2>2, <2>3, <2>4, <2>5 DEF Next
<1>2. SUFFICES ASSUME Reconcile \/ faults = 0
               PROVE  /\ \A j \in OpenKeys' : SizeOK(store'[j])
                      /\ ImageOK(disk')
                      /\ todo' \in Seq(GoodWrites)
  BY <1>1 DEF SizeInv
<1>3. /\ \A j \in OpenKeys : SizeOK(store[j])
      /\ ImageOK(disk)
      /\ todo \in Seq(GoodWrites)
  BY <1>2 DEF SizeInv
<1>4. CASE Exchange
  <2>1. UNCHANGED <<store, disk, todo>>
    BY <1>4, ExchangeFacts
  <2> QED
    BY <1>3, <2>1 DEF OpenKeys, IsOpen
<1>5. CASE HandleOpen
  <2> DEFINE k == Head(feed).key
             m == Head(feed)
  <2>1. Handled("Open") /\ k \in Keys /\ UNCHANGED disk
    BY <1>5, OpenHandled
  <2>2. PICK r \in AllRecords : Opened(k, r)
    BY <1>5, OpenHandled
  <2>3. m.qty \in Nat \ {0}
    BY <2>1, MessageFacts DEF Handled
  <2>4. SizeOK(r)
    <3>1. CASE k \in OpenKeys
      <4>1. store[k] \in AllRecords /\ store[k].cur > 0 /\ LeftOf(store[k]) > 0
        BY <1>3, <3>1, OpenFacts DEF SizeOK
      <4>2. r.entry = store[k].entry + m.qty /\ r.fills = store[k].fills
            /\ r.cur = store[k].cur + m.qty
        BY <2>2, <3>1 DEF Opened
      <4>3. LeftOf(r) = LeftOf(store[k]) + m.qty
        BY <2>3, <4>1, <4>2, EnteredLeft
      <4>4. LeftOf(store[k]) \in Nat /\ store[k].cur \in Nat
        BY <4>1, LeftFacts, RecordFacts
      <4> QED
        BY <2>3, <4>1, <4>2, <4>3, <4>4 DEF SizeOK
    <3>2. CASE k \notin OpenKeys
      <4>1. r.fills = <<>> /\ r.cur = m.qty /\ r.entry = m.qty
        BY <2>2, <3>2 DEF Opened
      <4>2. LeftOf(r) = m.qty
        BY <4>1, NewLeft
      <4> QED
        BY <2>3, <4>1, <4>2 DEF SizeOK
    <3> QED
      BY <3>1, <3>2
  <2>5. store' = [store EXCEPT ![k] = r] /\ todo' = <<Upsert(k, m.qty), Save(store')>>
    BY <2>2 DEF Opened
  <2> HIDE DEF k
  <2>6. (\A j \in OpenKeys' : SizeOK(store'[j])) /\ ImageOK(store')
    BY <1>3, <2>1, <2>4, <2>5, SizeHandler
  <2>7. Upsert(k, m.qty) \in GoodWrites /\ Save(store') \in GoodWrites
    BY <2>1, <2>3, <2>6, GoodMade DEF TypeInv
  <2> QED
    BY <1>3, <2>1, <2>5, <2>6, <2>7, TupleTypes
<1>6. CASE HandleClose
  <2> DEFINE m == Head(feed)
  <2>1. Handled("Close") /\ UNCHANGED disk
    BY <1>6, CloseHandled
  <2>2. PICK k \in OpenKeys, r \in AllRecords, full \in BOOLEAN, stop \in BOOLEAN :
          Closed(k, r, full, stop)
    BY <1>6, CloseHandled
  <2>3. m.qty \in Nat \ {0} /\ m.time \in Seconds
    BY <2>1, MessageFacts DEF Handled
  <2> DEFINE o == store[k]
  <2>4. k \in Keys /\ o \in AllRecords /\ SizeOK(o)
    BY <1>3, OpenFacts
  <2>5. ~r.closed => SizeOK(r)
    <3> SUFFICES ASSUME ~full PROVE SizeOK(r)
      BY <2>2 DEF Closed
    <3> DEFINE label == <<"Reduce", m.time>>
    <3>1. /\ ~(Sure(o) <= m.qty) /\ r.entry = o.entry /\ r.cur = Sure(o) - m.qty
          /\ r.fills = Booked(o.fills, label, m.qty)
      BY <2>2 DEF Closed
    <3>2. label \in Labels
      BY <2>3 DEF Labels
    <3>3. LeftOf(r) \in Nat /\ LeftOf(r) >= LeftOf(o) - m.qty
      <4> HIDE DEF label, m, o
      <4> QED
        BY <2>3, <2>4, <3>1, <3>2, BookedLeft
    <3>4. Sure(o) \in Nat /\ Sure(o) <= LeftOf(o) /\ LeftOf(o) \in Nat
      BY <2>4, SureFacts, LeftFacts
    <3> HIDE DEF m, o
    <3>5. r.cur > 0 /\ LeftOf(r) > 0
      BY <2>3, <3>1, <3>3, <3>4
    <3> QED
      BY <3>5 DEF SizeOK
  <2>6. store' = [store EXCEPT ![k] = r]
    BY <2>2 DEF Closed
  <2>7. (\A j \in OpenKeys' : SizeOK(store'[j])) /\ ImageOK(store')
    BY <1>3, <2>4, <2>5, <2>6, SizeHandler
  <2>8. todo' \in Seq(GoodWrites)
    <3> DEFINE d == Deactivate(k)
               g == Fill(k, m.qty)
               z == Finalize(k)
               v == Save(store')
    <3>1. todo' \in {<<d, g, z, v>>, <<g, z, v>>, <<g, v>>}
      BY <2>2 DEF Closed
    <3>2. d \in GoodWrites /\ g \in GoodWrites /\ z \in GoodWrites /\ v \in GoodWrites
      BY <2>3, <2>4, <2>7, GoodMade DEF TypeInv
    <3> HIDE DEF d, g, z, v
    <3> QED
      BY <3>1, <3>2, TupleTypes
  <2> QED
    BY <1>3, <2>1, <2>7, <2>8
<1>7. CASE HandleTakeProfit
  <2> DEFINE m == Head(feed)
  <2>1. Handled("TakeProfit") /\ UNCHANGED disk
    BY <1>7, TakeProfitHandled
  <2>2. PICK k \in OpenKeys, b \in AllRecords, r \in AllRecords : TookProfit(k, b, r)
    BY <1>7, TakeProfitHandled
  <2>3. m.qty \in Nat \ {0}
    BY <2>1, MessageFacts DEF Handled
  <2> DEFINE o == store[k]
  <2>4. k \in Keys /\ o \in AllRecords /\ SizeOK(o)
    BY <1>3, OpenFacts
  <2>5. /\ b.cur = Least(o.cur, LeftOf(b)) /\ r.cur = b.cur /\ r.closed = (r.cur = 0)
        /\ b.entry = r.entry /\ b.fills = r.fills
    BY <2>2 DEF TookProfit
  <2>6. LeftOf(b) \in Nat /\ LeftOf(r) = LeftOf(b) /\ o.cur \in Nat \ {0}
    <3> HIDE DEF o
    <3>1. LeftOf(b) \in Nat
      BY LeftFacts
    <3>2. LeftOf(r) = LeftOf(b)
      BY <2>5 DEF LeftOf
    <3>3. o.cur \in Nat
      BY <2>4, RecordFacts
    <3> QED
      BY <2>4, <3>1, <3>2, <3>3 DEF SizeOK
  <2>7. ~r.closed => SizeOK(r)
    <3> HIDE DEF o
    <3>1. b.cur \in Nat /\ b.cur <= LeftOf(b)
      BY <2>5, <2>6, LeastFacts
    <3>2. r.cur # 0 => r.cur > 0 /\ LeftOf(r) > 0
      BY <2>5, <2>6, <3>1
    <3> QED
      BY <2>5, <3>2 DEF SizeOK
  <2>8. SizeOK(b) \/ (b.cur = 0 /\ LeftOf(b) = 0)
    BY <2>5, <2>6 DEF SizeOK, Least
  <2>9. store' = [store EXCEPT ![k] = r]
    BY <2>2 DEF TookProfit
  <2>10. (\A j \in OpenKeys' : SizeOK(store'[j])) /\ ImageOK(store')
    BY <1>3, <2>4, <2>7, <2>9, SizeHandler
  <2> DEFINE image == [store EXCEPT ![k] = b]
  <2>11. image \in Images /\ ImageOK(image)
    <3>1. image \in Images /\ image[k] = b /\ \A j \in Keys \ {k} : image[j] = store[j]
      BY <2>4, ImageMade DEF TypeInv
    <3>2. ASSUME NEW j \in Keys, image[j] # None, ~image[j].closed
          PROVE  SizeOK(image[j]) \/ (image[j].cur = 0 /\ LeftOf(image[j]) = 0)
      <4>1. CASE j = k
        BY <2>8, <3>1, <4>1
      <4>2. CASE j # k
        <5>1. image[j] = store[j] /\ j \in OpenKeys
          BY <3>1, <3>2, <4>2 DEF OpenKeys, IsOpen
        <5> QED
          BY <1>3, <5>1
      <4> QED
        BY <4>1, <4>2
    <3> HIDE DEF image
    <3> QED
      BY <3>1, <3>2 DEF ImageOK
  <2>12. todo' \in Seq(GoodWrites)
    <3> DEFINE u == Save(image)
               g == Fill(k, m.qty)
               z == Finalize(k)
               v == Save(store')
    <3>1. todo' \in {<<u, g, z, v>>, <<u, g>>}
      BY <2>2 DEF TookProfit
    <3> HIDE DEF image
    <3>2. u \in GoodWrites /\ g \in GoodWrites /\ z \in GoodWrites /\ v \in GoodWrites
      BY <2>3, <2>4, <2>10, <2>11, GoodMade DEF TypeInv
    <3> HIDE DEF u, g, z, v
    <3> QED
      BY <3>1, <3>2, TupleTypes
  <2> QED
    BY <1>3, <2>1, <2>10, <2>12
<1>8. CASE HandleStopLoss
  <2> DEFINE m == Head(feed)
  <2>1. Handled("StopLoss") /\ UNCHANGED disk
    BY <1>8, StopLossHandled
  <2>2. PICK k \in OpenKeys, r \in AllRecords : Stopped(k, r)
    BY <1>8, StopLossHandled
  <2>3. m.qty \in Nat \ {0} /\ k \in Keys
    BY <2>1, MessageFacts, OpenFacts DEF Handled
  <2>4. r.closed /\ store' = [store EXCEPT ![k] = r]
    BY <2>2 DEF Stopped
  <2>5. (\A j \in OpenKeys' : SizeOK(store'[j])) /\ ImageOK(store')
    BY <1>3, <2>3, <2>4, SizeHandler
  <2>6. todo' \in Seq(GoodWrites)
    <3> DEFINE d == Deactivate(k)
               g == Fill(k, m.qty)
               z == Finalize(k)
               v == Save(store')
    <3>1. todo' \in {<<d, v, g, z>>, <<v, g, z>>}
      BY <2>2 DEF Stopped
    <3>2. d \in GoodWrites /\ g \in GoodWrites /\ z \in GoodWrites /\ v \in GoodWrites
      BY <2>3, <2>5, GoodMade DEF TypeInv
    <3> HIDE DEF d, g, z, v
    <3> QED
      BY <3>1, <3>2, TupleTypes
  <2> QED
    BY <1>3, <2>1, <2>5, <2>6
<1>9. CASE HandlePosition
  <2>1. Handled("Position") /\ UNCHANGED disk
    BY <1>9, PositionHandled
  <2>2. CASE UNCHANGED <<store, todo, overlapped>>
    BY <1>3, <2>1, <2>2 DEF OpenKeys, IsOpen
  <2>3. CASE \E k \in OpenKeys, r \in AllRecords : Resized(k, r)
    <3>1. PICK k \in OpenKeys, r \in AllRecords : Resized(k, r)
      BY <2>3
    <3>2. k \in Keys /\ store[k] \in AllRecords /\ SizeOK(store[k])
      BY <1>3, OpenFacts
    <3>3. /\ r.cur > 0 /\ r.entry = store[k].entry /\ r.fills = store[k].fills
          /\ store' = [store EXCEPT ![k] = r] /\ todo' = <<Save(store')>>
      BY <3>1 DEF Resized
    <3>4. SizeOK(r)
      BY <3>2, <3>3 DEF SizeOK, LeftOf
    <3>5. (\A j \in OpenKeys' : SizeOK(store'[j])) /\ ImageOK(store')
      BY <1>3, <3>2, <3>3, <3>4, SizeHandler
    <3>6. Save(store') \in GoodWrites
      BY <3>5, GoodMade DEF TypeInv
    <3> QED
      BY <1>3, <2>1, <3>3, <3>5, <3>6
  <2> QED
    BY <1>9, <2>2, <2>3, PositionHandled
<1>10. CASE \E kind \in {"Close", "TakeProfit", "StopLoss"} : Skip(kind, CloseTargets)
  <2>1. UNCHANGED <<store, todo, disk>>
    BY <1>10, SkipHandled DEF Closing
  <2> QED
    BY <1>3, <2>1 DEF OpenKeys, IsOpen
<1>11. CASE Write
  <2>1. Head(todo) \in GoodWrites /\ Tail(todo) \in Seq(GoodWrites)
    BY <1>3, <1>11, TailFacts DEF Write
  <2>2. Applied(Head(todo)) /\ todo' = Tail(todo) /\ UNCHANGED store
    BY <1>11 DEF Write
  <2>3. ImageOK(disk')
    BY <1>3, <2>1, <2>2 DEF Applied, GoodWrites
  <2> QED
    BY <1>3, <2>1, <2>2, <2>3 DEF OpenKeys, IsOpen
<1>12. CASE Start
  <2>1. Reconcile
    BY <1>2, <1>12 DEF SizeInv, Start
  <2>2. store' = Reconciled(disk) /\ todo' = <<Save(store')>> /\ UNCHANGED disk
    BY <1>12, <2>1 DEF Start, dbVars, When
  <2>3. ASSUME NEW j \in Keys, store'[j] # None, ~store'[j].closed
        PROVE  SizeOK(store'[j])
    <3>1. disk[j] # None
      BY <2>1, <2>2, <2>3, ReconciledFacts DEF TypeInv
    <3>2. disk[j] \in AllRecords
      BY <3>1, ImageFacts DEF TypeInv
    <3>3. CASE LeftOf(disk[j]) > 0
      <4>1. store'[j] = disk[j]
        BY <2>1, <2>2, <3>1, <3>3, ReconciledFacts DEF TypeInv
      <4>2. SizeOK(disk[j]) \/ (disk[j].cur = 0 /\ LeftOf(disk[j]) = 0)
        BY <1>3, <2>3, <3>1, <4>1 DEF ImageOK
      <4> QED
        BY <3>3, <4>1, <4>2
    <3>4. CASE ~(LeftOf(disk[j]) > 0)
      <4>1. store'[j] = Reset(disk[j], 0, TRUE)
        BY <2>1, <2>2, <3>1, <3>4, ReconciledFacts DEF TypeInv
      <4>2. store'[j].closed
        <5> DEFINE o == disk[j]
        <5> HIDE DEF o
        <5>1. Reset(o, 0, TRUE) = [entry |-> o.entry, cur |-> 0, fills |-> o.fills,
                                   closed |-> TRUE, outside |-> o.outside, time |-> o.time]
          BY <3>2, ResetIs DEF o
        <5> DEFINE R == [entry |-> o.entry, cur |-> 0, fills |-> o.fills,
                         closed |-> TRUE, outside |-> o.outside, time |-> o.time]
        <5>2. R.closed
          OBVIOUS
        <5>3. store'[j] = R
          BY <4>1, <5>1 DEF o
        <5> HIDE DEF R
        <5> QED
          BY <5>2, <5>3
      <4> QED
        BY <2>3, <4>2
    <3> QED
      BY <3>3, <3>4
  <2>4. (\A j \in OpenKeys' : SizeOK(store'[j])) /\ ImageOK(store')
    BY <2>3 DEF ImageOK, OpenKeys, IsOpen
  <2>5. Save(store') \in GoodWrites
    BY <2>4, GoodMade DEF TypeInv
  <2> QED
    BY <1>3, <2>2, <2>4, <2>5
<1>13. CASE Crash
  <2>1. store' = [k \in Keys |-> None] /\ todo' = <<>> /\ UNCHANGED disk
    BY <1>13 DEF Crash, dbVars
  <2>2. OpenKeys' = {}
    BY <2>1 DEF OpenKeys, IsOpen
  <2>3. <<>> \in Seq(GoodWrites)
    OBVIOUS
  <2> QED
    BY <1>3, <2>1, <2>2, <2>3
<1>14. CASE Reconnect
  <2>1. UNCHANGED <<store, todo, disk>>
    BY <1>14 DEF Reconnect, dbVars
  <2> QED
    BY <1>3, <2>1 DEF OpenKeys, IsOpen
<1>15. CASE WriteFails
  <2>1. UNCHANGED <<store, disk>> /\ todo' = Tail(todo)
    BY <1>15 DEF WriteFails, dbVars
  <2>2. Tail(todo) \in Seq(GoodWrites)
    BY <1>3, <1>15, TailFacts DEF WriteFails
  <2> QED
    BY <1>3, <2>1, <2>2 DEF OpenKeys, IsOpen
<1>16. CASE UNCHANGED vars
  BY <1>3, <1>16 DEF OpenKeys, IsOpen, vars
<1> QED
  BY <1>4, <1>5, <1>6, <1>7, <1>8, <1>9, <1>10, <1>11, <1>12, <1>13, <1>14, <1>15, <1>16
     DEF Next, Handler

(***************************************************************************)
(* The types of the whole state, and the bound of the position.            *)
(***************************************************************************)
LEMMA TypeSpec == Spec => []TypeInv
<1>1. Init => TypeInv
  BY TypeInit
<1>2. TypeInv /\ [Next]_vars => TypeInv'
  BY TypeStep
<1> QED
  BY <1>1, <1>2, PTL DEF Spec

(* The bot's memory, its file and the rows of MySQL hold records and rows  *)
(* of these types only, the position never exceeds what the exchange       *)
(* executed, and a dead process has no open record.                        *)
THEOREM TypeCorrect == Spec => []TypeOK
<1>1. TypeInv => TypeOK
  <2> SUFFICES ASSUME TypeInv PROVE TypeOK
    OBVIOUS
  <2>1. held \in 0..(MaxQty * MaxOrders)
    <3>1. MaxQty \in Nat /\ MaxOrders \in Nat /\ orders \in Nat /\ orders <= MaxOrders
      BY ConstantsAssumption DEF TypeInv
    <3>2. MaxQty * orders <= MaxQty * MaxOrders
      BY <3>1, Larger
    <3>3. MaxQty * orders \in Int /\ MaxQty * MaxOrders \in Int
      BY <3>1
    <3>4. held \in Nat /\ held <= MaxQty * orders
      BY DEF TypeInv
    <3>5. ASSUME NEW x \in Nat, NEW y \in Int, NEW z \in Int, x <= y, y <= z
          PROVE  x \in 0..z
      BY <3>5
    <3> QED
      BY <3>2, <3>3, <3>4, <3>5
  <2>2. ASSUME NEW image \in Images PROVE IsImage(image)
    <3>1. \A k \in Keys : image[k] = None \/ IsRecord(image[k])
      BY ImageFacts, RecordFacts
    <3>2. DOMAIN image = Keys
      BY DEF Images
    <3> QED
      BY <3>1, <3>2 DEF IsImage
  <2>3. ~up => todo = <<>> /\ feed = <<>> /\ OpenKeys = {}
    BY DEF TypeInv, OpenKeys, IsOpen
  <2> QED
    BY <2>1, <2>2, <2>3 DEF TypeInv, TypeOK
<1> QED
  BY <1>1, TypeSpec, PTL

(* SizeInv always holds.                                                   *)
LEMMA SizeSpec == Spec => []SizeInv
<1>1. Init => SizeInv
  BY SizeInit
<1>2. TypeInv /\ TypeInv' /\ SizeInv /\ [Next]_vars => SizeInv'
  BY SizeStep
<1> QED
  BY <1>1, <1>2, TypeSpec, PTL DEF Spec

(* With the start-up reconciliation no crash, lost message or failed write *)
(* leaves an open record without a size: what the handlers close and what  *)
(* _reconcile_execution_store_from_fills() closes is all that can run out. *)
THEOREM OpenHasSizeHolds ==
  ASSUME Reconcile
  PROVE  Spec => []OpenHasSize
<1>1. SizeInv => OpenHasSize
  BY DEF SizeInv, OpenHasSize, SizeOK
<1> QED
  BY <1>1, SizeSpec, PTL

-----------------------------------------------------------------------------
(***************************************************************************)
(* While nothing is lost.                                                  *)
(***************************************************************************)

(* Before a first fault the process runs, and only the exchange, the       *)
(* handlers and the writes take steps.                                     *)
LEMMA QuietStep ==
  ASSUME TypeInv, SizeInv, [Next]_vars, faults' = 0
  PROVE  /\ faults = 0 /\ up
         /\ Exchange \/ Handler \/ Write \/ UNCHANGED vars
<1>1. CASE Exchange
  BY <1>1, ExchangeFacts DEF SizeInv
<1>2. CASE Handler
  <2>1. UNCHANGED faults
    BY <1>2 DEF Handler, HandleOpen, HandleClose, HandleTakeProfit, HandleStopLoss,
                HandlePosition, Skip, Handling
  <2> QED
    BY <1>2, <2>1 DEF SizeInv
<1>3. CASE Write
  BY <1>3 DEF SizeInv, Write
<1>4. CASE Start
  BY <1>4 DEF SizeInv, Start
<1>5. CASE Crash \/ Reconnect \/ WriteFails
  BY <1>5 DEF Crash, Reconnect, WriteFails, Fault, TypeInv
<1>6. CASE UNCHANGED vars
  BY <1>6 DEF SizeInv, vars
<1> QED
  BY <1>1, <1>2, <1>3, <1>4, <1>5, <1>6 DEF Next

(* The last image that is saved.                                           *)
NoSave(q) == \A j \in 1..Len(q) : q[j].op # "save"

SavedLast(q, image) ==
  \E i \in 1..Len(q) : /\ q[i].op = "save" /\ q[i].image = image
                       /\ \A j \in 1..Len(q) : j > i => q[j].op # "save"

Synced ==
  faults = 0 => (disk = store /\ NoSave(todo)) \/ SavedLast(todo, store)

(* Sequences of writes that end with a save, or with writes elsewhere.     *)
LEMMA SavedLastMade ==
  ASSUME NEW image, NEW v, v.op = "save", v.image = image
  PROVE  /\ SavedLast(<<v>>, image)
         /\ \A a : SavedLast(<<a, v>>, image)
         /\ \A a, b : SavedLast(<<a, b, v>>, image)
         /\ \A a, b, c : SavedLast(<<a, b, c, v>>, image)
         /\ \A a : a.op # "save" => SavedLast(<<v, a>>, image)
         /\ \A a, b : a.op # "save" /\ b.op # "save" => SavedLast(<<v, a, b>>, image)
         /\ \A a, b, c : b.op # "save" /\ c.op # "save" => SavedLast(<<a, v, b, c>>, image)
<1>1. SavedLast(<<v>>, image)
  BY DEF SavedLast
<1>2. ASSUME NEW a PROVE SavedLast(<<a, v>>, image)
  BY DEF SavedLast
<1>3. ASSUME NEW a, NEW b PROVE SavedLast(<<a, b, v>>, image)
  BY DEF SavedLast
<1>4. ASSUME NEW a, NEW b, NEW c PROVE SavedLast(<<a, b, c, v>>, image)
  BY DEF SavedLast
<1>5. ASSUME NEW a, a.op # "save" PROVE SavedLast(<<v, a>>, image)
  BY <1>5 DEF SavedLast
<1>6. ASSUME NEW a, NEW b, a.op # "save", b.op # "save" PROVE SavedLast(<<v, a, b>>, image)
  BY <1>6 DEF SavedLast
<1>7. ASSUME NEW a, NEW b, NEW c, b.op # "save", c.op # "save"
      PROVE  SavedLast(<<a, v, b, c>>, image)
  BY <1>7 DEF SavedLast
<1> QED
  BY <1>1, <1>2, <1>3, <1>4, <1>5, <1>6, <1>7

(* Every handler that changes the store saves it.                          *)
LEMMA HandlerSaves ==
  ASSUME TypeInv, Handler
  PROVE  UNCHANGED <<store, todo>> \/ SavedLast(todo', store')
<1>0. /\ Save(store').op = "save" /\ Save(store').image = store'
      /\ \A k, q : Fill(k, q).op # "save"
      /\ \A k : Finalize(k).op # "save"
  BY DEF Save, Fill, Finalize
<1>1. CASE HandleOpen
  <2>1. PICK r : Opened(Head(feed).key, r)
    BY <1>1, OpenHandled
  <2>2. todo' = <<Upsert(Head(feed).key, Head(feed).qty), Save(store')>>
    BY <2>1 DEF Opened
  <2> QED
    BY <1>0, <2>2, SavedLastMade
<1>2. CASE HandleClose
  <2>1. PICK k \in OpenKeys, r \in AllRecords, full \in BOOLEAN, stop \in BOOLEAN :
          Closed(k, r, full, stop)
    BY <1>2, CloseHandled
  <2> DEFINE d == Deactivate(k)
             g == Fill(k, Head(feed).qty)
             z == Finalize(k)
             v == Save(store')
  <2>2. todo' \in {<<d, g, z, v>>, <<g, z, v>>, <<g, v>>}
    BY <2>1 DEF Closed
  <2>3. v.op = "save" /\ v.image = store'
    BY <1>0
  <2> HIDE DEF d, g, z, v
  <2> QED
    BY <2>2, <2>3, SavedLastMade
<1>3. CASE HandleTakeProfit
  <2>1. PICK k \in OpenKeys, b \in AllRecords, r \in AllRecords : TookProfit(k, b, r)
    BY <1>3, TakeProfitHandled
  <2> DEFINE u == Save([store EXCEPT ![k] = b])
             g == Fill(k, Head(feed).qty)
             z == Finalize(k)
             v == Save(store')
  <2>2. todo' = <<u, g, z, v>> \/ (todo' = <<u, g>> /\ u = v)
    BY <2>1 DEF TookProfit
  <2>3. v.op = "save" /\ v.image = store' /\ g.op # "save"
    BY <1>0
  <2> HIDE DEF u, g, z, v
  <2> QED
    BY <2>2, <2>3, SavedLastMade
<1>4. CASE HandleStopLoss
  <2>1. PICK k \in OpenKeys, r \in AllRecords : Stopped(k, r)
    BY <1>4, StopLossHandled
  <2> DEFINE d == Deactivate(k)
             g == Fill(k, Head(feed).qty)
             z == Finalize(k)
             v == Save(store')
  <2>2. todo' \in {<<d, v, g, z>>, <<v, g, z>>}
    BY <2>1 DEF Stopped
  <2>3. v.op = "save" /\ v.image = store' /\ g.op # "save" /\ z.op # "save"
    BY <1>0
  <2> HIDE DEF d, g, z, v
  <2> QED
    BY <2>2, <2>3, SavedLastMade
<1>5. CASE HandlePosition
  <2>1. CASE \E k \in OpenKeys, r \in AllRecords : Resized(k, r)
    <3>1. todo' = <<Save(store')>>
      BY <2>1 DEF Resized
    <3> QED
      BY <1>0, <3>1, SavedLastMade
  <2> QED
    BY <1>5, <2>1, PositionHandled
<1>6. CASE \E kind \in {"Close", "TakeProfit", "StopLoss"} : Skip(kind, CloseTargets)
  BY <1>6, SkipHandled DEF Closing
<1> QED
  BY <1>1, <1>2, <1>3, <1>4, <1>5, <1>6 DEF Handler

(* The file has the store, or a write that will put it there is pending.   *)
LEMMA SyncedStep ==
  ASSUME TypeInv, SizeInv, Synced, [Next]_vars
  PROVE  Synced'
<1> SUFFICES ASSUME faults' = 0
             PROVE  ((disk = store)' /\ NoSave(todo')) \/ SavedLast(todo', store')
  BY DEF Synced, NoSave, SavedLast
<1>1. /\ faults = 0
      /\ Exchange \/ Handler \/ Write \/ UNCHANGED vars
  BY QuietStep
<1>2. (disk = store /\ NoSave(todo)) \/ SavedLast(todo, store)
  BY <1>1 DEF Synced
<1>3. CASE Exchange
  <2>1. UNCHANGED <<store, todo, disk>>
    BY <1>3, ExchangeFacts
  <2> QED
    BY <1>2, <2>1
<1>4. CASE Handler
  <2>1. UNCHANGED disk
    BY <1>4 DEF Handler, HandleOpen, HandleClose, HandleTakeProfit, HandleStopLoss,
                HandlePosition, Skip, Handling, dbVars
  <2>2. UNCHANGED <<store, todo>> \/ SavedLast(todo', store')
    BY <1>4, HandlerSaves
  <2> QED
    BY <1>2, <2>1, <2>2
<1>5. CASE Write
  <2>1. todo # <<>> /\ Applied(Head(todo)) /\ todo' = Tail(todo) /\ UNCHANGED store
    BY <1>5 DEF Write
  <2>2. todo \in Seq(Writes)
    BY DEF TypeInv
  <2> DEFINE w == Head(todo)
  <2>3. /\ w = todo[1] /\ 1 \in 1..Len(todo) /\ Len(todo) \in Nat
        /\ Len(Tail(todo)) = Len(todo) - 1
        /\ \A i \in 1..Len(Tail(todo)) : Tail(todo)[i] = todo[i + 1] /\ i + 1 \in 1..Len(todo)
        /\ \A i \in 1..Len(todo) : i = 1 \/ (i - 1 \in 1..Len(Tail(todo)) /\ Tail(todo)[i - 1] = todo[i])
    BY <2>1, <2>2, TailFacts
  <2>4. disk' = IF w.op = "save" THEN w.image ELSE disk
    BY <2>1 DEF Applied
  <2> HIDE DEF w
  <2>5. CASE disk = store /\ NoSave(todo)
    <3>1. disk' = disk
      BY <2>3, <2>4, <2>5 DEF NoSave
    <3>2. NoSave(Tail(todo))
      BY <2>3, <2>5 DEF NoSave
    <3> QED
      BY <2>1, <2>5, <3>1, <3>2
  <2>6. CASE SavedLast(todo, store)
    <3>1. PICK i \in 1..Len(todo) :
            /\ todo[i].op = "save" /\ todo[i].image = store
            /\ \A j \in 1..Len(todo) : j > i => todo[j].op # "save"
      BY <2>6 DEF SavedLast
    <3>2. CASE i = 1
      <4>1. disk' = store
        BY <2>3, <2>4, <3>1, <3>2
      <4>2. NoSave(Tail(todo))
        BY <2>3, <3>1, <3>2 DEF NoSave
      <4> QED
        BY <2>1, <4>1, <4>2
    <3>3. CASE i # 1
      <4>1. i - 1 \in 1..Len(Tail(todo)) /\ Tail(todo)[i - 1] = todo[i]
        BY <2>3, <3>3
      <4>2. \A j \in 1..Len(Tail(todo)) : j > i - 1 => Tail(todo)[j].op # "save"
        BY <2>3, <3>1
      <4>3. SavedLast(Tail(todo), store)
        BY <3>1, <4>1, <4>2 DEF SavedLast
      <4> QED
        BY <2>1, <4>3
    <3> QED
      BY <3>2, <3>3
  <2> QED
    BY <1>2, <2>5, <2>6
<1>6. CASE UNCHANGED vars
  BY <1>2, <1>6 DEF vars
<1> QED
  BY <1>1, <1>3, <1>4, <1>5, <1>6

(* Synced always holds.                                                    *)
LEMMA SyncedSpec == Spec => []Synced
<1>1. Init => Synced
  BY DEF Init, Synced, NoSave
<1>2. TypeInv /\ SizeInv /\ Synced /\ [Next]_vars => Synced'
  BY SyncedStep
<1> QED
  BY <1>1, <1>2, TypeSpec, SizeSpec, PTL DEF Spec

(* The file of an idle bot that lost nothing has its store, and the        *)
(* reconciliation at the next start leaves the open records as they are:   *)
(* each has something left by its fills.                                   *)
THEOREM RestartKeepsOpenHolds == Spec => []RestartKeepsOpen
<1>1. TypeInv /\ SizeInv /\ Synced => RestartKeepsOpen
  <2> SUFFICES ASSUME TypeInv, SizeInv, Synced, Idle, NothingLost, NEW k \in Keys
               PROVE  IF IsOpen(k) THEN Reconciled(disk)[k] = store[k]
                      ELSE Reconciled(disk)[k] = None \/ Reconciled(disk)[k].closed
    BY DEF RestartKeepsOpen
  <2>1. faults = 0 /\ todo = <<>> /\ ~SavedLast(todo, store)
    BY DEF Idle, NothingLost, SavedLast
  <2>2. disk = store
    BY <2>1 DEF Synced
  <2>3. \A j \in OpenKeys : SizeOK(store[j])
    BY <2>1 DEF SizeInv
  <2>4. CASE ~Reconcile
    BY <2>2, <2>4 DEF Reconciled, IsOpen
  <2>5. CASE Reconcile
    <3>1. IF store[k] = None THEN Reconciled(store)[k] = None
          ELSE IF LeftOf(store[k]) > 0 THEN Reconciled(store)[k] = store[k]
          ELSE Reconciled(store)[k] = Reset(store[k], 0, TRUE)
      BY <2>5, ReconciledFacts DEF TypeInv
    <3>2. CASE IsOpen(k)
      <4>1. store[k] # None /\ LeftOf(store[k]) > 0
        BY <2>3, <3>2 DEF OpenKeys, IsOpen, SizeOK
      <4> QED
        BY <2>2, <3>1, <3>2, <4>1
    <3>3. CASE store[k] = None
      BY <2>2, <3>1, <3>3 DEF IsOpen
    <3>4. CASE store[k] # None /\ store[k].closed
      <4>1. CASE LeftOf(store[k]) > 0
        BY <2>2, <3>1, <3>4, <4>1 DEF IsOpen
      <4>2. CASE ~(LeftOf(store[k]) > 0)
        <5> DEFINE o == store[k]
                   R == [entry |-> o.entry, cur |-> 0, fills |-> o.fills,
                         closed |-> TRUE, outside |-> o.outside, time |-> o.time]
        <5>1. o \in AllRecords
          BY <3>4, ImageFacts DEF TypeInv
        <5>2. R.closed
          OBVIOUS
        <5> HIDE DEF o
        <5>3. Reset(o, 0, TRUE) = R
          BY <5>1, ResetIs
        <5>4. Reconciled(store)[k] = R
          BY <3>1, <3>4, <4>2, <5>3 DEF o
        <5> HIDE DEF R
        <5> QED
          BY <2>2, <3>4, <5>2, <5>4 DEF IsOpen
      <4> QED
        BY <4>1, <4>2
    <3> QED
      BY <3>2, <3>3, <3>4 DEF IsOpen
  <2> QED
    BY <2>4, <2>5
<1> QED
  BY <1>1, TypeSpec, SizeSpec, SyncedSpec, PTL

-----------------------------------------------------------------------------
(***************************************************************************)
(* The order of events.  Without fills of one second the times of the      *)
(* feed's fills increase, and every label in the store is older: a fill is *)
(* booked under a label of its own.                                        *)
(***************************************************************************)

(* What a handler makes of one record, as far as its fills are concerned.  *)
Changed(kind, k, r) ==
  \/ /\ kind = "Open" /\ k = Head(feed).key /\ k \notin OpenKeys
     /\ r.fills = <<>> /\ r.closed = FALSE /\ r.outside = FALSE
  \/ /\ kind = "Open" /\ k = Head(feed).key /\ k \in OpenKeys
     /\ r.fills = store[k].fills /\ r.closed = FALSE /\ r.outside = store[k].outside
  \/ /\ kind = "Position" /\ k \in OpenKeys
     /\ r.fills = store[k].fills /\ r.closed = FALSE /\ r.outside = store[k].outside
  \/ /\ kind \in Closing /\ k \in OpenKeys
     /\ \E label \in Labels :
          /\ label \in {<<"Exit", 0>>, <<"SL", 0>>} \cup ({"TP", "Reduce"} \X {Head(feed).time})
          /\ r.fills = Booked(store[k].fills, label, Head(feed).qty)
          /\ r.closed \/ (label[1] \in {"TP", "Reduce"} /\ r.outside = FALSE)

(* An open record stays clean, or is closed.                               *)
IsClean(r) ==
  r.outside = FALSE /\ <<"Exit", 0>> \notin DOMAIN r.fills /\ <<"SL", 0>> \notin DOMAIN r.fills

Clean == faults = 0 => \A k \in OpenKeys : IsClean(store[k])

(* While no fault has happened every handler changes one record in one of  *)
(* five ways.                                                              *)
LEMMA HandlerChange ==
  ASSUME TypeInv, Handler, \A k \in OpenKeys : IsClean(store[k])
  PROVE  /\ UNCHANGED <<held, ordered, orders, now, up, disk, rows, active, faults>>
         /\ \E kind \in Closing \cup {"Open", "Position"} :
              /\ Handled(kind)
              /\ \/ kind # "Open" /\ UNCHANGED <<store, todo, overlapped>>
                 \/ \E k \in Keys, r \in AllRecords :
                      store' = [store EXCEPT ![k] = r] /\ Changed(kind, k, r)
<1>1. CASE HandleOpen
  <2> DEFINE k == Head(feed).key
  <2>1. /\ Handled("Open") /\ k \in Keys
        /\ UNCHANGED <<held, ordered, orders, now, up, disk, rows, active, faults>>
    BY <1>1, OpenHandled
  <2>2. PICK r \in AllRecords : Opened(k, r)
    BY <1>1, OpenHandled
  <2>3. k \in OpenKeys => store[k].closed = FALSE
    <3>1. k \in OpenKeys => store[k] \in AllRecords /\ ~store[k].closed
      BY OpenFacts
    <3> QED
      BY <3>1, RecordFacts
  <2>4. store' = [store EXCEPT ![k] = r] /\ Changed("Open", k, r)
    BY <2>2, <2>3 DEF Opened, Changed
  <2> HIDE DEF k
  <2> QED
    BY <2>1, <2>4
<1>2. CASE HandleClose
  <2> DEFINE m == Head(feed)
  <2>1. /\ Handled("Close")
        /\ UNCHANGED <<held, ordered, orders, now, up, disk, rows, active, faults>>
    BY <1>2, CloseHandled
  <2>2. PICK k \in OpenKeys, r \in AllRecords, full \in BOOLEAN, stop \in BOOLEAN :
          Closed(k, r, full, stop)
    BY <1>2, CloseHandled
  <2>3. m.time \in Seconds /\ k \in Keys
    BY <2>1, MessageFacts, OpenFacts DEF Handled
  <2> DEFINE label == IF full THEN <<"Exit", 0>> ELSE <<"Reduce", m.time>>
  <2>4. /\ store' = [store EXCEPT ![k] = r]
        /\ r.fills = Booked(store[k].fills, label, m.qty)
        /\ r.closed = full /\ r.outside = stop /\ (stop => full)
    BY <2>2 DEF Closed
  <2>5. /\ label \in Labels
        /\ label \in {<<"Exit", 0>>, <<"SL", 0>>} \cup ({"TP", "Reduce"} \X {m.time})
        /\ ~full => label[1] \in {"TP", "Reduce"}
    BY <2>3 DEF Labels
  <2> HIDE DEF label, m
  <2>6. Changed("Close", k, r)
    BY <2>4, <2>5 DEF Changed, m, Closing
  <2> QED
    BY <2>1, <2>3, <2>4, <2>6 DEF Closing
<1>3. CASE HandleTakeProfit
  <2> DEFINE m == Head(feed)
  <2>1. /\ Handled("TakeProfit")
        /\ UNCHANGED <<held, ordered, orders, now, up, disk, rows, active, faults>>
    BY <1>3, TakeProfitHandled
  <2>2. PICK k \in OpenKeys, b \in AllRecords, r \in AllRecords : TookProfit(k, b, r)
    BY <1>3, TakeProfitHandled
  <2>3. m.time \in Seconds /\ k \in Keys /\ store[k].outside = FALSE
    BY <2>1, MessageFacts, OpenFacts DEF Handled, IsClean
  <2> DEFINE label == <<"TP", m.time>>
  <2>4. /\ store' = [store EXCEPT ![k] = r]
        /\ r.fills = Booked(store[k].fills, label, m.qty)
        /\ r.outside = FALSE
    BY <2>2, <2>3 DEF TookProfit
  <2>5. /\ label \in Labels
        /\ label \in {<<"Exit", 0>>, <<"SL", 0>>} \cup ({"TP", "Reduce"} \X {m.time})
        /\ label[1] \in {"TP", "Reduce"}
    BY <2>3 DEF Labels
  <2> HIDE DEF label, m
  <2>6. Changed("TakeProfit", k, r)
    BY <2>4, <2>5 DEF Changed, m, Closing
  <2> QED
    BY <2>1, <2>3, <2>4, <2>6 DEF Closing
<1>4. CASE HandleStopLoss
  <2> DEFINE m == Head(feed)
  <2>1. /\ Handled("StopLoss")
        /\ UNCHANGED <<held, ordered, orders, now, up, disk, rows, active, faults>>
    BY <1>4, StopLossHandled
  <2>2. PICK k \in OpenKeys, r \in AllRecords : Stopped(k, r)
    BY <1>4, StopLossHandled
  <2>3. k \in Keys
    BY OpenFacts
  <2> DEFINE label == <<"SL", 0>>
  <2>4. /\ store' = [store EXCEPT ![k] = r]
        /\ r.fills = Booked(store[k].fills, label, m.qty)
        /\ r.closed
    BY <2>2 DEF Stopped
  <2>5. /\ label \in Labels
        /\ label \in {<<"Exit", 0>>, <<"SL", 0>>} \cup ({"TP", "Reduce"} \X {m.time})
    BY DEF Labels
  <2> HIDE DEF label, m
  <2>6. Changed("StopLoss", k, r)
    BY <2>4, <2>5 DEF Changed, m, Closing
  <2> QED
    BY <2>1, <2>3, <2>4, <2>6 DEF Closing
<1>5. CASE HandlePosition
  <2>1. /\ Handled("Position")
        /\ UNCHANGED <<held, ordered, orders, now, up, disk, rows, active, faults>>
    BY <1>5, PositionHandled
  <2>2. CASE UNCHANGED <<store, todo, overlapped>>
    BY <2>1, <2>2
  <2>3. CASE \E k \in OpenKeys, r \in AllRecords : Resized(k, r)
    <3>1. PICK k \in OpenKeys, r \in AllRecords : Resized(k, r)
      BY <2>3
    <3>2. k \in Keys /\ store[k].closed = FALSE
      BY OpenFacts, RecordFacts
    <3>3. store' = [store EXCEPT ![k] = r] /\ Changed("Position", k, r)
      BY <3>1, <3>2 DEF Resized, Changed
    <3> QED
      BY <2>1, <3>2, <3>3
  <2> QED
    BY <1>5, <2>2, <2>3, PositionHandled
<1>6. CASE \E kind \in {"Close", "TakeProfit", "StopLoss"} : Skip(kind, CloseTargets)
  <2>1. PICK kind \in Closing : Skip(kind, CloseTargets)
    BY <1>6 DEF Closing
  <2>2. /\ Handled(kind)
        /\ UNCHANGED <<held, ordered, orders, now, up, disk, rows, active, faults>>
        /\ UNCHANGED <<store, todo, overlapped>>
    BY <2>1, SkipHandled
  <2>3. kind # "Open"
    BY DEF Closing
  <2> QED
    BY <2>2, <2>3
<1> QED
  BY <1>1, <1>2, <1>3, <1>4, <1>5, <1>6 DEF Handler

(* Every step keeps records clean.                                         *)
LEMMA CleanStep ==
  ASSUME TypeInv, SizeInv, Clean, [Next]_vars
  PROVE  Clean'
<1> SUFFICES ASSUME faults' = 0, NEW j \in OpenKeys' PROVE IsClean(store'[j])
  BY DEF Clean, IsClean
<1>1. /\ faults = 0
      /\ Exchange \/ Handler \/ Write \/ UNCHANGED vars
  BY QuietStep
<1>2. \A k \in OpenKeys : IsClean(store[k])
  BY <1>1 DEF Clean
<1>3. CASE UNCHANGED store
  BY <1>2, <1>3 DEF OpenKeys, IsOpen
<1>4. CASE Exchange \/ Write \/ UNCHANGED vars
  BY <1>3, <1>4, ExchangeFacts DEF Write, vars
<1>5. CASE Handler
  <2>1. PICK kind \in Closing \cup {"Open", "Position"} :
          \/ UNCHANGED store
          \/ \E k \in Keys, r \in AllRecords :
               store' = [store EXCEPT ![k] = r] /\ Changed(kind, k, r)
    BY <1>2, <1>5, HandlerChange
  <2>2. CASE \E k \in Keys, r \in AllRecords :
               store' = [store EXCEPT ![k] = r] /\ Changed(kind, k, r)
    <3>1. PICK k \in Keys, r \in AllRecords :
            store' = [store EXCEPT ![k] = r] /\ Changed(kind, k, r)
      BY <2>2
    <3>2. /\ OpenKeys' = IF r.closed THEN OpenKeys \ {k} ELSE OpenKeys \cup {k}
          /\ store'[k] = r
          /\ \A i \in Keys \ {k} : store'[i] = store[i]
      BY <3>1, OpenChange
    <3>3. CASE j # k
      <4>1. j \in OpenKeys /\ j \in Keys
        BY <3>2, <3>3 DEF OpenKeys
      <4> QED
        BY <1>2, <3>2, <3>3, <4>1
    <3>4. CASE j = k
      <4>1. ~r.closed
        BY <3>2, <3>4
      <4>2. CASE r.fills = <<>> /\ r.outside = FALSE
        BY <3>2, <3>4, <4>2, NoFills DEF IsClean
      <4>3. CASE k \in OpenKeys /\ r.fills = store[k].fills /\ r.outside = store[k].outside
        BY <1>2, <3>2, <3>4, <4>3 DEF IsClean
      <4>4. CASE /\ k \in OpenKeys
                 /\ \E label \in Labels :
                      /\ r.fills = Booked(store[k].fills, label, Head(feed).qty)
                      /\ label[1] \in {"TP", "Reduce"} /\ r.outside = FALSE
        <5>1. PICK label \in Labels :
                /\ r.fills = Booked(store[k].fills, label, Head(feed).qty)
                /\ label[1] \in {"TP", "Reduce"} /\ r.outside = FALSE
          BY <4>4
        <5>2. DOMAIN r.fills = DOMAIN store[k].fills \cup {label}
          BY <5>1 DEF Booked
        <5>3. label # <<"Exit", 0>> /\ label # <<"SL", 0>>
          BY <5>1
        <5> QED
          BY <1>2, <3>2, <3>4, <4>4, <5>1, <5>2, <5>3 DEF IsClean
      <4> QED
        BY <3>1, <4>1, <4>2, <4>3, <4>4 DEF Changed
    <3> QED
      BY <3>3, <3>4
  <2> QED
    BY <1>3, <2>1, <2>2
<1> QED
  BY <1>1, <1>4, <1>5

(* Clean always holds.                                                     *)
LEMMA CleanSpec == Spec => []Clean
<1>1. Init => Clean
  BY DEF Init, Clean, OpenKeys, IsOpen
<1>2. TypeInv /\ SizeInv /\ Clean /\ [Next]_vars => Clean'
  BY CleanStep
<1> QED
  BY <1>1, <1>2, TypeSpec, SizeSpec, PTL DEF Spec

(* A sequence after another.                                               *)
LEMMA AppendFacts ==
  ASSUME NEW S, NEW q \in Seq(S), NEW x \in Seq(S)
  PROVE  /\ Len(q \o x) = Len(q) + Len(x) /\ Len(q) \in Nat /\ Len(x) \in Nat
         /\ \A i \in 1..Len(q) : (q \o x)[i] = q[i] /\ i \in 1..Len(q \o x)
         /\ \A i \in 1..Len(x) : (q \o x)[Len(q) + i] = x[i] /\ Len(q) + i \in 1..Len(q \o x)
         /\ \A i \in 1..Len(q \o x) :
              \/ i \in 1..Len(q)
              \/ i > Len(q) /\ i - Len(q) \in 1..Len(x) /\ (q \o x)[i] = x[i - Len(q)]
  OBVIOUS

(* The fills of one order by their times and their keys.                   *)
LEMMA ReportedFacts ==
  ASSUME TypeInv, NEW kind, NEW k, NEW n, NEW size, NEW outside, NEW X,
         Reported(kind, k, n, size, outside, X)
  PROVE  /\ X \in Seq(Messages)
         /\ \A i \in 1..Len(X) : X[i].kind = "Position" \/ (X[i].kind = kind /\ X[i].key = k)
         /\ \A i, j \in 1..Len(X) :
              X[i].kind # "Position" /\ X[j].kind # "Position" => j \in {i - 1, i, i + 1}
         /\ ~SameSecond =>
              \A i \in 1..Len(X) :
                X[i].kind # "Position" =>
                  /\ now <= X[i].time /\ X[i].time < now'
                  /\ \A j \in 1..Len(X) :
                       i < j /\ X[j].kind # "Position" => X[i].time < X[j].time
<1>1. PICK a \in 1..n, t \in {now, now + 1} :
        LET A == Message(kind, k, a, outside, now)
            B == Message(kind, k, n - a, outside, t)
            P == Report(size)
        IN /\ ~SameSecond => t = now + 1
           /\ \/ /\ X = <<A, P>> \/ X = <<P, A>>
                 /\ now' = now + 1
              \/ /\ X = <<A, B, P>> \/ X = <<P, A, B>>
                 /\ now' = now + 2
  BY DEF Reported
<1> DEFINE A == Message(kind, k, a, outside, now)
           B == Message(kind, k, n - a, outside, t)
           P == Report(size)
<1>2. /\ P.kind = "Position" /\ A.kind = kind /\ A.key = k /\ B.kind = kind /\ B.key = k
      /\ A.time = now /\ B.time = t
  BY DEF Message, Report
<1>3. /\ ~SameSecond => t = now + 1
      /\ \/ /\ X = <<A, P>> \/ X = <<P, A>>
            /\ now' = now + 1
         \/ /\ X = <<A, B, P>> \/ X = <<P, A, B>>
            /\ now' = now + 2
  BY <1>1
<1>4. now \in Nat
  BY DEF TypeInv
<1>5. X \in Seq(Messages)
  BY ReportedMessages
<1> HIDE DEF A, B, P
<1>6. CASE X = <<A, P>>
  BY <1>2, <1>3, <1>4, <1>5, <1>6
<1>7. CASE X = <<P, A>>
  BY <1>2, <1>3, <1>4, <1>5, <1>7
<1>8. CASE X = <<A, B, P>>
  <2>1. now' = now + 2
    BY <1>3, <1>8
  <2> QED
    BY <2>1, <1>2, <1>3, <1>4, <1>5, <1>8
<1>9. CASE X = <<P, A, B>>
  <2>1. now' = now + 2
    BY <1>3, <1>9
  <2> QED
    BY <2>1, <1>2, <1>3, <1>4, <1>5, <1>9
<1> QED
  BY <1>3, <1>6, <1>7, <1>8, <1>9

(* A second earlier than every fill that is unread or still to come.       *)
Past(t) ==
  /\ t < now
  /\ \A i \in 1..Len(feed) : feed[i].kind # "Position" => t < feed[i].time

Times ==
  faults = 0 /\ ~SameSecond =>
    \A i \in 1..Len(feed) :
      feed[i].kind # "Position" =>
        /\ feed[i].time < now
        /\ \A j \in 1..Len(feed) :
             i < j /\ feed[j].kind # "Position" => feed[i].time < feed[j].time

Fresh ==
  faults = 0 /\ ~SameSecond =>
    \A k \in Keys : store[k] # None => \A l \in DOMAIN store[k].fills : Past(l[2])

(* What the exchange adds leaves the past in the past.                     *)
LEMMA PastExchange ==
  ASSUME TypeInv, faults = 0, ~SameSecond, Exchange, up
  PROVE  /\ \A t \in Nat : Past(t) => Past(t)'
         /\ Times => Times'
<1>1. PICK X, kind, k, n, outside :
        /\ Reported(kind, k, n, held', outside, X)
        /\ feed' = feed \o X
  <2>1. \E kind \in Closing \cup {"Open"}, k \in Keys \cup {None}, n \in Nat \ {0},
           outside \in BOOLEAN :
          \E X : /\ Reported(kind, k, n, held', outside, X)
                 /\ feed' = IF up THEN feed \o X ELSE feed
    BY ExchangeFacts
  <2> QED
    BY <2>1
<1>2. now' \in {now + 1, now + 2} /\ now \in Nat /\ feed \in Seq(Messages)
  BY ExchangeFacts DEF TypeInv
<1>3. /\ X \in Seq(Messages)
      /\ \A i \in 1..Len(X) :
           X[i].kind # "Position" =>
             /\ now <= X[i].time /\ X[i].time < now'
             /\ \A j \in 1..Len(X) :
                  i < j /\ X[j].kind # "Position" => X[i].time < X[j].time
  BY <1>1, ReportedFacts
<1>4. /\ \A i \in 1..Len(feed) : feed'[i] = feed[i] /\ i \in 1..Len(feed')
      /\ Len(feed) \in Nat
      /\ \A i \in 1..Len(feed') :
           \/ i \in 1..Len(feed)
           \/ i > Len(feed) /\ i - Len(feed) \in 1..Len(X) /\ feed'[i] = X[i - Len(feed)]
  BY <1>1, <1>2, <1>3, AppendFacts
<1>5. /\ \A i \in 1..Len(feed) : feed[i].kind # "Position" => feed[i].time \in Nat
      /\ \A i \in 1..Len(X) : X[i].kind # "Position" => X[i].time \in Nat
  <2>1. ASSUME NEW m \in Messages, m.kind # "Position" PROVE m.time \in Nat
    BY <2>1, MessageFacts DEF Seconds
  <2>2. /\ \A i \in 1..Len(feed) : feed[i] \in Messages
        /\ \A i \in 1..Len(X) : X[i] \in Messages
    BY <1>2, <1>3
  <2> QED
    BY <2>1, <2>2
<1>6. ASSUME NEW t \in Nat, Past(t) PROVE Past(t)'
  <2>1. t < now /\ \A i \in 1..Len(feed) : feed[i].kind # "Position" => t < feed[i].time
    BY <1>6 DEF Past
  <2>2. t < now'
    BY <1>2, <2>1
  <2>3. ASSUME NEW i \in 1..Len(feed'), feed'[i].kind # "Position" PROVE t < feed'[i].time
    <3>1. CASE i \in 1..Len(feed)
      BY <1>4, <2>1, <2>3, <3>1
    <3>2. CASE i - Len(feed) \in 1..Len(X) /\ feed'[i] = X[i - Len(feed)]
      <4>1. now <= X[i - Len(feed)].time /\ X[i - Len(feed)].time \in Nat
        BY <1>3, <1>5, <2>3, <3>2
      <4> QED
        BY <1>2, <2>1, <3>2, <4>1
    <3> QED
      BY <1>4, <3>1, <3>2
  <2> QED
    BY <2>2, <2>3 DEF Past
<1>7. ASSUME Times PROVE Times'
  <2>1. \A i \in 1..Len(feed) :
          feed[i].kind # "Position" =>
            /\ feed[i].time < now
            /\ \A j \in 1..Len(feed) :
                 i < j /\ feed[j].kind # "Position" => feed[i].time < feed[j].time
    BY <1>7 DEF Times
  <2> SUFFICES ASSUME NEW i \in 1..Len(feed'), feed'[i].kind # "Position"
               PROVE  /\ feed'[i].time < now'
                      /\ \A j \in 1..Len(feed') :
                           i < j /\ feed'[j].kind # "Position" => feed'[i].time < feed'[j].time
    BY DEF Times
  <2>2. CASE i \in 1..Len(feed)
    <3>1. feed'[i] = feed[i] /\ feed[i].time \in Nat /\ feed[i].time < now
      BY <1>4, <1>5, <2>1, <2>2
    <3>2. ASSUME NEW j \in 1..Len(feed'), i < j, feed'[j].kind # "Position"
          PROVE  feed'[i].time < feed'[j].time
      <4>1. CASE j \in 1..Len(feed)
        BY <1>4, <2>1, <2>2, <3>1, <3>2, <4>1
      <4>2. CASE j - Len(feed) \in 1..Len(X) /\ feed'[j] = X[j - Len(feed)]
        <5>1. now <= X[j - Len(feed)].time /\ X[j - Len(feed)].time \in Nat
          BY <1>3, <1>5, <3>2, <4>2
        <5> QED
          BY <1>2, <3>1, <4>2, <5>1
      <4> QED
        BY <1>4, <4>1, <4>2
    <3> QED
      BY <1>2, <3>1, <3>2
  <2>3. CASE i > Len(feed) /\ i - Len(feed) \in 1..Len(X) /\ feed'[i] = X[i - Len(feed)]
    <3>1. feed'[i].time < now'
      BY <1>3, <2>3
    <3>2. ASSUME NEW j \in 1..Len(feed'), i < j, feed'[j].kind # "Position"
          PROVE  feed'[i].time < feed'[j].time
      <4>1. j - Len(feed) \in 1..Len(X) /\ feed'[j] = X[j - Len(feed)]
        <5>1. j > Len(feed)
          BY <1>4, <2>3, <3>2
        <5>2. j \notin 1..Len(feed)
          BY <1>4, <5>1
        <5> QED
          BY <1>4, <5>2
      <4>2. i - Len(feed) < j - Len(feed)
        BY <1>4, <3>2
      <4> QED
        BY <1>3, <2>3, <3>2, <4>1, <4>2
    <3> QED
      BY <3>1, <3>2
  <2> QED
    BY <1>4, <2>2, <2>3
<1> QED
  BY <1>6, <1>7

(* Reading a message leaves the past in the past, and adds its second.     *)
LEMMA PastHandler ==
  ASSUME TypeInv, faults = 0, ~SameSecond, Times, NEW kind, Handled(kind), UNCHANGED now
  PROVE  /\ \A t \in Nat : Past(t) => Past(t)'
         /\ \A t \in Nat : kind # "Position" /\ t = Head(feed).time => Past(t)'
         /\ Past(0)'
         /\ Times'
<1>1. /\ Head(feed) = feed[1] /\ feed[1].kind = kind /\ feed' = Tail(feed)
      /\ 1 \in 1..Len(feed) /\ feed' \in Seq(Messages)
      /\ \A i \in 1..Len(feed') : feed'[i] = feed[i + 1] /\ i + 1 \in 1..Len(feed)
  BY TailFacts DEF Handled, TypeInv
<1>2. \A i \in 1..Len(feed) :
        feed[i].kind # "Position" =>
          /\ feed[i].time < now
          /\ \A j \in 1..Len(feed) :
               i < j /\ feed[j].kind # "Position" => feed[i].time < feed[j].time
  BY DEF Times
<1>3. ASSUME NEW t \in Nat, Past(t) PROVE Past(t)'
  BY <1>1, <1>3 DEF Past
<1>4. ASSUME NEW t \in Nat, kind # "Position", t = feed[1].time PROVE Past(t)'
  <2>1. feed[1].time < now
    BY <1>1, <1>2, <1>4
  <2>2. ASSUME NEW i \in 1..Len(feed'), feed'[i].kind # "Position"
        PROVE  t < feed'[i].time
    <3>1. 1 < i + 1 /\ feed[i + 1] = feed'[i] /\ i + 1 \in 1..Len(feed)
      BY <1>1
    <3> QED
      BY <1>1, <1>2, <1>4, <2>2, <3>1
  <2> QED
    BY <1>4, <2>1, <2>2 DEF Past
<1>5. Past(0)'
  <2>1. ASSUME NEW i \in 1..Len(feed'), feed'[i].kind # "Position" PROVE 0 < feed'[i].time
    <3>1. feed'[i] \in Messages
      BY <1>1
    <3>2. feed'[i].time \in Seconds
      BY <2>1, <3>1, MessageFacts
    <3> QED
      BY <3>2 DEF Seconds
  <2>2. 0 < now'
    BY DEF TypeInv
  <2> QED
    BY <2>1, <2>2 DEF Past
<1>6. Times'
  <2> SUFFICES ASSUME NEW i \in 1..Len(feed'), feed'[i].kind # "Position"
               PROVE  /\ feed'[i].time < now'
                      /\ \A j \in 1..Len(feed') :
                           i < j /\ feed'[j].kind # "Position" => feed'[i].time < feed'[j].time
    BY DEF Times
  <2>1. feed'[i] = feed[i + 1] /\ i + 1 \in 1..Len(feed)
    BY <1>1
  <2>2. feed'[i].time < now'
    BY <1>2, <2>1
  <2>3. ASSUME NEW j \in 1..Len(feed'), i < j, feed'[j].kind # "Position"
        PROVE  feed'[i].time < feed'[j].time
    <3>1. feed'[j] = feed[j + 1] /\ j + 1 \in 1..Len(feed) /\ i + 1 < j + 1
      BY <1>1, <2>3
    <3> QED
      BY <1>2, <2>1, <2>3, <3>1
  <2> QED
    BY <2>2, <2>3
<1> QED
  BY <1>1, <1>3, <1>4, <1>5, <1>6

(* Every step keeps the seconds in order.                                  *)
LEMMA TimesStep ==
  ASSUME TypeInv, SizeInv, Clean, Times, [Next]_vars
  PROVE  Times'
<1> SUFFICES ASSUME faults' = 0, ~SameSecond PROVE Times'
  BY DEF Times
<1>1. /\ faults = 0 /\ up
      /\ Exchange \/ Handler \/ Write \/ UNCHANGED vars
  BY QuietStep
<1>2. CASE Exchange
  BY <1>1, <1>2, PastExchange
<1>3. CASE Handler
  <2>1. PICK kind : Handled(kind) /\ UNCHANGED now
    BY <1>1, <1>3, HandlerChange DEF Clean
  <2> QED
    BY <1>1, <2>1, PastHandler
<1>4. CASE Write \/ UNCHANGED vars
  <2>1. UNCHANGED <<feed, now, faults>>
    BY <1>4 DEF Write, exchangeVars, vars
  <2> QED
    BY <2>1 DEF Times
<1> QED
  BY <1>1, <1>2, <1>3, <1>4

(* Times always holds.                                                     *)
LEMMA TimesSpec == Spec => []Times
<1>1. Init => Times
  BY DEF Init, Times
<1>2. TypeInv /\ SizeInv /\ Clean /\ Times /\ [Next]_vars => Times'
  BY TimesStep
<1> QED
  BY <1>1, <1>2, TypeSpec, SizeSpec, CleanSpec, PTL DEF Spec

(* The second of a label.                                                  *)
LEMMA LabelFacts ==
  ASSUME NEW l \in Labels
  PROVE  l[2] \in Nat
BY DEF Labels, Seconds

(* Every step keeps the labels of fills to come unused.                    *)
LEMMA FreshStep ==
  ASSUME TypeInv, TypeInv', SizeInv, Clean, Times, Fresh, [Next]_vars
  PROVE  Fresh'
<1> SUFFICES ASSUME faults' = 0, ~SameSecond, NEW j \in Keys, store'[j] # None,
                    NEW l \in DOMAIN store'[j].fills
             PROVE  Past(l[2])'
  BY DEF Fresh
<1>1. /\ faults = 0 /\ up
      /\ Exchange \/ Handler \/ Write \/ UNCHANGED vars
  BY QuietStep
<1>2. \A k \in Keys : store[k] # None => \A h \in DOMAIN store[k].fills : Past(h[2])
  BY <1>1 DEF Fresh
<1>3. l \in Labels /\ l[2] \in Nat
  <2>1. store'[j] \in AllRecords
    BY ImageFacts DEF TypeInv
  <2> DEFINE r == store'[j]
  <2> HIDE DEF r
  <2>2. DOMAIN r.fills \in SUBSET Labels
    BY <2>1, RecordFacts DEF r
  <2>3. l \in Labels
    BY <2>2 DEF r
  <2> QED
    BY <2>3, LabelFacts
<1>a. ASSUME NEW t \in Nat, t = l[2], Past(t)' PROVE Past(l[2])'
  BY <1>a DEF Past
<1>4. CASE Exchange
  <2>1. Past(l[2])
    BY <1>2, <1>4, ExchangeFacts
  <2> QED
    BY <1>1, <1>3, <1>4, <2>1, PastExchange
<1>5. CASE Handler
  <2>1. PICK kind \in Closing \cup {"Open", "Position"} :
          /\ Handled(kind) /\ UNCHANGED now
          /\ \/ UNCHANGED store
             \/ \E k \in Keys, r \in AllRecords :
                  store' = [store EXCEPT ![k] = r] /\ Changed(kind, k, r)
    BY <1>1, <1>5, HandlerChange DEF Clean
  <2>2. /\ \A t \in Nat : Past(t) => Past(t)'
        /\ \A t \in Nat : kind # "Position" /\ t = Head(feed).time => Past(t)'
        /\ Past(0)'
    BY <1>1, <2>1, PastHandler
  <2>3. CASE store'[j] = store[j]
    BY <1>2, <1>3, <2>2, <2>3
  <2>4. ASSUME NEW k \in Keys, NEW r \in AllRecords,
               store' = [store EXCEPT ![k] = r], Changed(kind, k, r)
        PROVE  Past(l[2])'
    <3>1. store'[k] = r /\ \A i \in Keys \ {k} : store'[i] = store[i]
      BY <2>4, OpenChange
    <3>2. CASE j = k
      <4>1. l \in DOMAIN r.fills
        BY <3>1, <3>2
      <4>2. k \in OpenKeys => store[k] # None
        BY DEF OpenKeys, IsOpen
      <4>3. CASE k \in OpenKeys /\ l \in DOMAIN store[k].fills
        BY <1>2, <1>3, <2>2, <4>2, <4>3
      <4>4. CASE k \notin OpenKeys \/ l \notin DOMAIN store[k].fills
        <5>1. r.fills # <<>>
          BY <4>1, NoFills
        <5>2. kind \in Closing
          BY <2>4, <4>1, <4>4, <5>1 DEF Changed
        <5>3. PICK label \in Labels :
                /\ label \in {<<"Exit", 0>>, <<"SL", 0>>} \cup ({"TP", "Reduce"} \X {Head(feed).time})
                /\ r.fills = Booked(store[k].fills, label, Head(feed).qty)
          BY <2>4, <5>2 DEF Changed, Closing
        <5>4. l = label
          BY <2>4, <4>1, <4>4, <5>1, <5>2, <5>3 DEF Booked, Changed, Closing
        <5>5. l[2] = 0 \/ l[2] = Head(feed).time
          BY <5>3, <5>4
        <5>6. kind # "Position"
          BY <5>2 DEF Closing
        <5> QED
          BY <1>3, <2>2, <5>5, <5>6
      <4> QED
        BY <4>3, <4>4
    <3>3. CASE j # k
      BY <2>3, <3>1, <3>3
    <3> QED
      BY <3>2, <3>3
  <2> QED
    BY <2>1, <2>3, <2>4
<1>6. CASE Write \/ UNCHANGED vars
  <2>1. UNCHANGED <<feed, now, store>>
    BY <1>6 DEF Write, exchangeVars, vars
  <2>2. Past(l[2])
    BY <1>2, <2>1
  <2> QED
    BY <2>1, <2>2 DEF Past
<1> QED
  BY <1>1, <1>4, <1>5, <1>6

(* Fresh always holds.                                                     *)
LEMMA FreshSpec == Spec => []Fresh
<1>1. Init => Fresh
  BY DEF Init, Fresh
<1>2. TypeInv /\ TypeInv' /\ SizeInv /\ Clean /\ Times /\ Fresh /\ [Next]_vars => Fresh'
  BY FreshStep
<1> QED
  BY <1>1, <1>2, TypeSpec, SizeSpec, CleanSpec, TimesSpec, PTL DEF Spec

(* A closing fill is booked under a label the open record does not have.   *)
LEMMA NewLabel ==
  ASSUME TypeInv, Fresh, Clean, faults = 0, ~SameSecond,
         NEW kind \in Closing, Handled(kind), NEW k \in OpenKeys,
         NEW label \in {<<"Exit", 0>>, <<"SL", 0>>} \cup ({"TP", "Reduce"} \X {Head(feed).time})
  PROVE  label \notin DOMAIN store[k].fills
<1> SUFFICES ASSUME label \in DOMAIN store[k].fills PROVE FALSE
  OBVIOUS
<1>1. k \in Keys /\ store[k] # None
  BY DEF OpenKeys, IsOpen
<1>2. Past(label[2])
  BY <1>1 DEF Fresh
<1>3. label # <<"Exit", 0>> /\ label # <<"SL", 0>>
  BY DEF Clean, IsClean
<1>4. label[2] = Head(feed).time
  BY <1>3
<1>5. feed[1] = Head(feed) /\ 1 \in 1..Len(feed) /\ Head(feed).kind # "Position"
      /\ Head(feed).time \in Nat
  <2>1. feed[1] = Head(feed) /\ 1 \in 1..Len(feed) /\ Head(feed) \in Messages
    BY TailFacts DEF Handled, TypeInv
  <2>2. Head(feed).kind # "Position"
    BY DEF Handled, Closing
  <2>3. Head(feed).time \in Seconds
    BY <2>1, <2>2, MessageFacts
  <2> QED
    BY <2>1, <2>2, <2>3 DEF Seconds
<1>6. label[2] < Head(feed).time
  BY <1>2, <1>5 DEF Past
<1> QED
  BY <1>4, <1>5, <1>6

-----------------------------------------------------------------------------
(***************************************************************************)
(* The entry of a zone.  The exchange sees one order of a zone, and its    *)
(* fills follow one another: the first makes the record, the second finds  *)
(* it open.                                                                *)
(***************************************************************************)
Opens(m, z) == m.kind = "Open" /\ m.key = z

Once ==
  faults = 0 =>
    \A z \in Zones :
      /\ z \notin ordered => /\ store[z] = None
                             /\ \A i \in 1..Len(feed) : ~Opens(feed[i], z)
      /\ \A i \in 1..Len(feed) :
           Opens(feed[i], z) =>
             /\ \A j \in 1..Len(feed) : Opens(feed[j], z) => j \in {i - 1, i, i + 1}
             /\ store[z] = None \/ (i = 1 /\ z \in OpenKeys)

(* Every step keeps a zone key to one order.                               *)
LEMMA OnceStep ==
  ASSUME TypeInv, SizeInv, Clean, Once, [Next]_vars
  PROVE  Once'
<1> SUFFICES ASSUME faults' = 0, NEW z \in Zones
             PROVE  /\ z \notin ordered' => /\ store'[z] = None
                                            /\ \A i \in 1..Len(feed') : ~Opens(feed'[i], z)
                    /\ \A i \in 1..Len(feed') :
                         Opens(feed'[i], z) =>
                           /\ \A j \in 1..Len(feed') : Opens(feed'[j], z) => j \in {i - 1, i, i + 1}
                           /\ store'[z] = None \/ (i = 1 /\ z \in OpenKeys')
  BY DEF Once, Opens
<1>1. /\ faults = 0 /\ up
      /\ Exchange \/ Handler \/ Write \/ UNCHANGED vars
  BY QuietStep
<1>2. /\ z \notin ordered => /\ store[z] = None
                             /\ \A i \in 1..Len(feed) : ~Opens(feed[i], z)
      /\ \A i \in 1..Len(feed) :
           Opens(feed[i], z) =>
             /\ \A j \in 1..Len(feed) : Opens(feed[j], z) => j \in {i - 1, i, i + 1}
             /\ store[z] = None \/ (i = 1 /\ z \in OpenKeys)
  BY <1>1 DEF Once
<1>3. z \in Keys
  BY DEF Keys
<1>4. CASE Exchange
  <2>1. PICK X, kind, k, n, outside :
          /\ Ordered(kind, k, n, held')
          /\ Reported(kind, k, n, held', outside, X)
          /\ feed' = feed \o X
    <3>1. \E kind \in Closing \cup {"Open"}, k \in Keys \cup {None}, n \in Nat \ {0},
             outside \in BOOLEAN :
            \E X : /\ Ordered(kind, k, n, held')
                   /\ Reported(kind, k, n, held', outside, X)
                   /\ feed' = IF up THEN feed \o X ELSE feed
      BY <1>4, ExchangeFacts
    <3> QED
      BY <1>1, <3>1
  <2>2. store' = store /\ OpenKeys' = OpenKeys
    BY <1>4, ExchangeFacts DEF OpenKeys, IsOpen
  <2>3. /\ X \in Seq(Messages)
        /\ \A i \in 1..Len(X) : X[i].kind = "Position" \/ (X[i].kind = kind /\ X[i].key = k)
        /\ \A i, j \in 1..Len(X) :
             X[i].kind # "Position" /\ X[j].kind # "Position" => j \in {i - 1, i, i + 1}
    <3>1. Reported(kind, k, n, held', outside, X)
      BY <2>1
    <3>2. X \in Seq(Messages)
      BY <3>1, ReportedFacts
    <3>3. \A i \in 1..Len(X) : X[i].kind = "Position" \/ (X[i].kind = kind /\ X[i].key = k)
      BY <3>1, ReportedFacts
    <3>4. \A i, j \in 1..Len(X) :
             X[i].kind # "Position" /\ X[j].kind # "Position" => j \in {i - 1, i, i + 1}
      BY <3>1, ReportedFacts
    <3> QED
      BY <3>2, <3>3, <3>4
  <2>4. /\ \A i \in 1..Len(feed) : feed'[i] = feed[i] /\ i \in 1..Len(feed')
        /\ Len(feed) \in Nat
        /\ \A i \in 1..Len(feed') :
             \/ i \in 1..Len(feed)
             \/ i > Len(feed) /\ i - Len(feed) \in 1..Len(X) /\ feed'[i] = X[i - Len(feed)]
    BY <2>1, <2>3, AppendFacts DEF TypeInv
  <2>5. CASE kind = "Open" /\ k = z
    <3>1. z \notin ordered /\ z \in ordered'
      BY <2>1, <2>5 DEF Ordered, Closing
    <3>2. store[z] = None /\ \A i \in 1..Len(feed) : ~Opens(feed[i], z)
      BY <1>2, <3>1
    <3>3. ASSUME NEW i \in 1..Len(feed'), Opens(feed'[i], z),
                 NEW j \in 1..Len(feed'), Opens(feed'[j], z)
          PROVE  j \in {i - 1, i, i + 1}
      <4>1. /\ i - Len(feed) \in 1..Len(X) /\ feed'[i] = X[i - Len(feed)]
            /\ j - Len(feed) \in 1..Len(X) /\ feed'[j] = X[j - Len(feed)]
        BY <2>4, <3>2, <3>3
      <4>2. X[i - Len(feed)].kind # "Position" /\ X[j - Len(feed)].kind # "Position"
        BY <3>3, <4>1 DEF Opens
      <4>3. j - Len(feed) \in {i - Len(feed) - 1, i - Len(feed), i - Len(feed) + 1}
        BY <2>3, <4>1, <4>2
      <4> QED
        BY <2>4, <4>3
    <3> QED
      BY <2>2, <3>1, <3>2, <3>3
  <2>6. CASE ~(kind = "Open" /\ k = z)
    <3>1. \A i \in 1..Len(feed') : Opens(feed'[i], z) => i \in 1..Len(feed)
      BY <2>3, <2>4, <2>6 DEF Opens
    <3>2. z \notin ordered' => z \notin ordered
      BY <2>1 DEF Ordered
    <3> QED
      BY <1>2, <2>2, <2>4, <3>1, <3>2
  <2> QED
    BY <2>5, <2>6
<1>5. CASE Handler
  <2>1. PICK kind \in Closing \cup {"Open", "Position"} :
          /\ Handled(kind) /\ UNCHANGED ordered
          /\ \/ kind # "Open" /\ UNCHANGED store
             \/ \E k \in Keys, r \in AllRecords :
                  store' = [store EXCEPT ![k] = r] /\ Changed(kind, k, r)
    BY <1>1, <1>5, HandlerChange DEF Clean
  <2>2. /\ Head(feed) = feed[1] /\ feed[1].kind = kind
        /\ 1 \in 1..Len(feed)
        /\ \A i \in 1..Len(feed') : feed'[i] = feed[i + 1] /\ i + 1 \in 1..Len(feed)
    BY <2>1, TailFacts DEF Handled, TypeInv
  <2>3. \A i \in 1..Len(feed') : Opens(feed'[i], z) => store[z] = None
    BY <1>2, <2>2
  <2>4. ASSUME NEW i \in 1..Len(feed'), Opens(feed'[i], z),
               NEW j \in 1..Len(feed'), Opens(feed'[j], z)
        PROVE  j \in {i - 1, i, i + 1}
    <3>1. j + 1 \in {i + 1 - 1, i + 1, i + 1 + 1}
      BY <1>2, <2>2, <2>4
    <3> QED
      BY <3>1
  <2>5. z \notin ordered => \A i \in 1..Len(feed') : ~Opens(feed'[i], z)
    BY <1>2, <2>2
  <2>6. CASE store'[z] = store[z]
    BY <1>2, <2>1, <2>3, <2>4, <2>5, <2>6
  <2>7. ASSUME NEW r \in AllRecords, store' = [store EXCEPT ![z] = r], Changed(kind, z, r),
               store[z] = None
        PROVE  /\ z \in ordered
               /\ \A i \in 1..Len(feed') : Opens(feed'[i], z) => i = 1
               /\ z \in OpenKeys'
    <3>1. z \notin OpenKeys
      BY <2>7 DEF OpenKeys, IsOpen
    <3>2. kind = "Open" /\ z = Head(feed).key /\ r.closed = FALSE
      BY <2>7, <3>1 DEF Changed
    <3>3. Opens(feed[1], z)
      BY <2>2, <3>2 DEF Opens
    <3>4. z \in ordered
      BY <1>2, <2>2, <3>3
    <3>5. ASSUME NEW i \in 1..Len(feed'), Opens(feed'[i], z) PROVE i = 1
      <4>1. i + 1 \in {1 - 1, 1, 1 + 1}
        BY <1>2, <2>2, <3>3, <3>5
      <4> QED
        BY <4>1
    <3>6. z \in OpenKeys'
      BY <1>3, <2>7, <3>2, OpenChange
    <3> QED
      BY <3>4, <3>5, <3>6
  <2>8. CASE store'[z] # store[z]
    <3>1. PICK r \in AllRecords : store' = [store EXCEPT ![z] = r] /\ Changed(kind, z, r)
      <4>1. PICK k \in Keys, r \in AllRecords :
              store' = [store EXCEPT ![k] = r] /\ Changed(kind, k, r)
        BY <2>1, <2>8
      <4>2. k = z
        BY <1>3, <2>8, <4>1, OpenChange
      <4> QED
        BY <4>1, <4>2
    <3>2. z \notin ordered => store[z] = None
      BY <1>2
    <3>3. store[z] = None => /\ z \in ordered
                             /\ \A i \in 1..Len(feed') : Opens(feed'[i], z) => i = 1
                             /\ z \in OpenKeys'
      BY <2>7, <3>1
    <3> QED
      BY <2>1, <2>3, <2>4, <2>5, <3>2, <3>3
  <2> QED
    BY <2>6, <2>8
<1>6. CASE Write \/ UNCHANGED vars
  <2>1. UNCHANGED <<feed, ordered, store>> /\ OpenKeys' = OpenKeys
    BY <1>6 DEF Write, exchangeVars, vars, OpenKeys, IsOpen
  <2> QED
    BY <1>2, <2>1
<1> QED
  BY <1>1, <1>4, <1>5, <1>6

(* Once always holds.                                                      *)
LEMMA OnceSpec == Spec => []Once
<1>1. Init => Once
  BY DEF Init, Once, Keys
<1>2. TypeInv /\ SizeInv /\ Clean /\ Once /\ [Next]_vars => Once'
  BY OnceStep
<1> QED
  BY <1>1, <1>2, TypeSpec, SizeSpec, CleanSpec, PTL DEF Spec

-----------------------------------------------------------------------------
(***************************************************************************)
(* MySQL.  A row with the pending writes applied to it says what the       *)
(* record says.  A handler queues four writes at most.                     *)
(***************************************************************************)
Row(qty, out, closed) == [qty |-> qty, out |-> out, closed |-> closed]

RowAfter(w, z, row) ==
  IF w.op = "upsert" /\ w.key = z
    THEN IF row = None THEN Row(w.qty, 0, FALSE) ELSE Row(row.qty + w.qty, row.out, row.closed)
  ELSE IF w.op = "fill" /\ w.key = z /\ row # None
    THEN Row(row.qty, row.out + w.qty, row.closed)
  ELSE IF w.op = "finalize" /\ w.key = z /\ row # None
    THEN Row(row.qty, row.out, TRUE)
  ELSE row

Put(q, i, z, row) == IF i \in 1..Len(q) THEN RowAfter(q[i], z, row) ELSE row

Finally(q, z, row) == Put(q, 4, z, Put(q, 3, z, Put(q, 2, z, Put(q, 1, z, row))))

TurnsOff(q, z) == \E i \in 1..Len(q) : q[i].op = "deactivate" /\ q[i].key = z

RowOf(r) == IF r = None THEN None ELSE Row(r.entry, Total(r.fills), r.closed)

Told ==
  faults = 0 /\ ~SameSecond =>
    /\ Len(todo) <= 4
    /\ \A z \in Zones :
         /\ Finally(todo, z, rows[z]) = RowOf(store[z])
         /\ z \in active /\ ~TurnsOff(todo, z)
              <=> store[z] = None \/ ~StoppedOut(store[z])

(* A row by its fields.                                                    *)
LEMMA RowFacts ==
  ASSUME NEW row \in Rows
  PROVE  /\ row # None
         /\ row.qty \in Nat \ {0} /\ row.out \in Nat /\ row.closed \in BOOLEAN
         /\ row = Row(row.qty, row.out, row.closed)
BY NoneAssumption DEF Rows, Row

(* A row by its fields.                                                    *)
LEMMA RowMade ==
  ASSUME NEW qty \in Nat \ {0}, NEW out \in Nat, NEW closed \in BOOLEAN
  PROVE  /\ Row(qty, out, closed) \in Rows
         /\ Row(qty, out, closed) # None
         /\ Row(qty, out, closed).qty = qty
         /\ Row(qty, out, closed).out = out
         /\ Row(qty, out, closed).closed = closed
BY NoneAssumption DEF Rows, Row

(* A row that is closed.                                                   *)
LEMMA RowChanged ==
  ASSUME NEW o \in Rows, NEW v
  PROVE  [o EXCEPT !.closed = v] = Row(o.qty, o.out, v)
BY DEF Rows, Row

(* One write and the rows.                                                 *)
LEMMA RowAt ==
  ASSUME NEW w \in Writes, rows \in [Keys -> Rows \cup {None}], Applied(w), NEW z \in Keys
  PROVE  rows'[z] = RowAfter(w, z, rows[z])
<1> DEFINE k == w.key
           o == rows[k]
<1>1. w.op # "save" => k \in Keys
  BY WriteFacts
<1>2. CASE w.op = "upsert" /\ o = None
  <2>1. rows' = [rows EXCEPT ![k] = [qty |-> w.qty, out |-> 0, closed |-> FALSE]]
    BY <1>2 DEF Applied
  <2> QED
    BY <1>1, <1>2, <2>1 DEF RowAfter, Row
<1>3. CASE w.op = "upsert" /\ o # None
  <2>1. rows' = [rows EXCEPT ![k].qty = o.qty + w.qty]
    BY <1>3 DEF Applied
  <2>2. o \in Rows
    BY <1>1, <1>3
  <2>3. [o EXCEPT !.qty = o.qty + w.qty] = Row(o.qty + w.qty, o.out, o.closed)
    <3> HIDE DEF o
    <3> QED
      BY <2>2 DEF Rows, Row
  <2>4. rows' = [rows EXCEPT ![k] = Row(o.qty + w.qty, o.out, o.closed)]
    BY <2>1, <2>3
  <2> QED
    BY <1>1, <1>3, <2>4 DEF RowAfter
<1>4. CASE w.op = "fill" /\ o # None
  <2>1. rows' = [rows EXCEPT ![k].out = o.out + w.qty]
    BY <1>4 DEF Applied
  <2>2. o \in Rows
    BY <1>1, <1>4
  <2>3. [o EXCEPT !.out = o.out + w.qty] = Row(o.qty, o.out + w.qty, o.closed)
    <3> HIDE DEF o
    <3> QED
      BY <2>2 DEF Rows, Row
  <2>4. rows' = [rows EXCEPT ![k] = Row(o.qty, o.out + w.qty, o.closed)]
    BY <2>1, <2>3
  <2> QED
    BY <1>1, <1>4, <2>4 DEF RowAfter
<1>5. CASE w.op = "finalize" /\ o # None
  <2>1. rows' = [rows EXCEPT ![k].closed = TRUE]
    BY <1>5 DEF Applied
  <2>2. o \in Rows
    BY <1>1, <1>5
  <2>3. [o EXCEPT !.closed = TRUE] = Row(o.qty, o.out, TRUE)
    BY <2>2, RowChanged
  <2>4. rows' = [rows EXCEPT ![k] = Row(o.qty, o.out, TRUE)]
    BY <2>1, <2>3
  <2> QED
    BY <1>1, <1>5, <2>4 DEF RowAfter
<1>6. CASE ~(w.op = "upsert") /\ ~(w.op = "fill" /\ o # None) /\ ~(w.op = "finalize" /\ o # None)
  <2>1. rows' = rows
    BY <1>6 DEF Applied
  <2> QED
    BY <1>6, <2>1 DEF RowAfter
<1> QED
  BY <1>2, <1>3, <1>4, <1>5, <1>6

(* The writes of a handler about another key do not touch a row.           *)
LEMMA Untouched ==
  ASSUME NEW q, NEW z, NEW row,
         \A i \in 1..Len(q) : q[i].op = "save" \/ q[i].key # z
  PROVE  Finally(q, z, row) = row /\ ~TurnsOff(q, z)
<1>1. ASSUME NEW i, NEW x PROVE Put(q, i, z, x) = x
  BY DEF Put, RowAfter
<1>2. ~TurnsOff(q, z)
  BY DEF TurnsOff
<1> QED
  BY <1>1, <1>2 DEF Finally

(* What short sequences of writes make of a row.                           *)
LEMMA FinallyNone ==
  ASSUME NEW z, NEW row
  PROVE  Finally(<<>>, z, row) = row
BY DEF Finally, Put

(* The row after one write to come,                                        *)
LEMMA FinallyOne ==
  ASSUME NEW z, NEW row, NEW a
  PROVE  Finally(<<a>>, z, row) = RowAfter(a, z, row)
BY DEF Finally, Put

(* after two,                                                              *)
LEMMA FinallyTwo ==
  ASSUME NEW z, NEW row, NEW a, NEW b
  PROVE  Finally(<<a, b>>, z, row) = RowAfter(b, z, RowAfter(a, z, row))
BY DEF Finally, Put

(* after three                                                             *)
LEMMA FinallyThree ==
  ASSUME NEW z, NEW row, NEW a, NEW b, NEW c
  PROVE  Finally(<<a, b, c>>, z, row) = RowAfter(c, z, RowAfter(b, z, RowAfter(a, z, row)))
BY DEF Finally, Put

(* and after four.                                                         *)
LEMMA FinallyFour ==
  ASSUME NEW z, NEW row, NEW a, NEW b, NEW c, NEW d
  PROVE  Finally(<<a, b, c, d>>, z, row)
           = RowAfter(d, z, RowAfter(c, z, RowAfter(b, z, RowAfter(a, z, row))))
BY DEF Finally, Put

(* What one write makes of a row.                                          *)
LEMMA AfterWrites ==
  ASSUME NEW z, NEW row
  PROVE  /\ \A image : RowAfter(Save(image), z, row) = row
         /\ RowAfter(Deactivate(z), z, row) = row
         /\ \A n : row = None => RowAfter(Upsert(z, n), z, row) = Row(n, 0, FALSE)
         /\ \A n : row # None => RowAfter(Upsert(z, n), z, row) = Row(row.qty + n, row.out, row.closed)
         /\ \A n : row # None => RowAfter(Fill(z, n), z, row) = Row(row.qty, row.out + n, row.closed)
         /\ row # None => RowAfter(Finalize(z), z, row) = Row(row.qty, row.out, TRUE)
<1>1. \A image : RowAfter(Save(image), z, row) = row
  BY DEF RowAfter, Save
<1>2. RowAfter(Deactivate(z), z, row) = row
  BY DEF RowAfter, Deactivate
<1>3. \A n : row = None => RowAfter(Upsert(z, n), z, row) = Row(n, 0, FALSE)
  BY DEF RowAfter, Upsert
<1>4. \A n : row # None => RowAfter(Upsert(z, n), z, row) = Row(row.qty + n, row.out, row.closed)
  BY DEF RowAfter, Upsert
<1>5. \A n : row # None => RowAfter(Fill(z, n), z, row) = Row(row.qty, row.out + n, row.closed)
  BY DEF RowAfter, Fill
<1>6. row # None => RowAfter(Finalize(z), z, row) = Row(row.qty, row.out, TRUE)
  BY DEF RowAfter, Finalize
<1> QED
  BY <1>1, <1>2, <1>3, <1>4, <1>5, <1>6

(* The record of a zone in rows.                                           *)
LEMMA RowOfFacts ==
  ASSUME NEW r \in AllRecords
  PROVE  /\ RowOf(r) = Row(r.entry, Total(r.fills), r.closed)
         /\ RowOf(r) # None
         /\ RowOf(r).qty = r.entry
         /\ RowOf(r).out = Total(r.fills)
         /\ RowOf(r).closed = r.closed
<1>1. r # None /\ r.entry \in Nat \ {0} /\ r.closed \in BOOLEAN /\ Total(r.fills) \in Nat
  BY RecordFacts, LeftFacts
<1> QED
  BY <1>1, RowMade DEF RowOf

(* A fill of an open record, closing it or not, in a row.                  *)
LEMMA FillRow ==
  ASSUME NEW o \in AllRecords, ~o.closed, NEW z, NEW n \in Nat \ {0}
  PROVE  /\ RowAfter(Fill(z, n), z, RowOf(o)) = Row(o.entry, Total(o.fills) + n, FALSE)
         /\ RowAfter(Finalize(z), z, Row(o.entry, Total(o.fills) + n, FALSE))
              = Row(o.entry, Total(o.fills) + n, TRUE)
<1>1. o.entry \in Nat \ {0} /\ o.closed = FALSE /\ Total(o.fills) \in Nat
  BY RecordFacts, LeftFacts
<1>2. RowAfter(Fill(z, n), z, RowOf(o)) = Row(o.entry, Total(o.fills) + n, FALSE)
  <2> DEFINE row == RowOf(o)
  <2>1. row # None /\ row.qty = o.entry /\ row.out = Total(o.fills) /\ row.closed = o.closed
    BY RowOfFacts
  <2> HIDE DEF row
  <2>2. RowAfter(Fill(z, n), z, row) = Row(row.qty, row.out + n, row.closed)
    BY <2>1 DEF RowAfter, Fill
  <2> QED
    BY <1>1, <2>1, <2>2 DEF row
<1> DEFINE t == Total(o.fills) + n
           row == Row(o.entry, t, FALSE)
<1>3. t \in Nat
  BY <1>1
<1> HIDE DEF t
<1>4. row # None /\ row.qty = o.entry /\ row.out = t
  BY <1>1, <1>3, RowMade
<1> HIDE DEF row
<1>5. RowAfter(Finalize(z), z, row) = Row(o.entry, t, TRUE)
  BY <1>4, AfterWrites
<1> QED
  BY <1>2, <1>5 DEF row, t

(* A handler that changes one record, and its writes about that record.    *)
LEMMA ToldChange ==
  ASSUME TypeInv, Told, faults = 0, ~SameSecond, todo = <<>>,
         NEW k \in Keys, NEW r \in AllRecords, store' = [store EXCEPT ![k] = r],
         UNCHANGED <<rows, active>>, Len(todo') <= 4,
         \A i \in 1..Len(todo') : todo'[i].op = "save" \/ todo'[i].key = k,
         k \in Zones => /\ Finally(todo', k, rows[k]) = RowOf(r)
                        /\ k \in active /\ ~TurnsOff(todo', k) <=> ~StoppedOut(r)
  PROVE  Told'
<1>1. \A z \in Zones :
         /\ Finally(todo, z, rows[z]) = RowOf(store[z])
         /\ z \in active /\ ~TurnsOff(todo, z)
              <=> store[z] = None \/ ~StoppedOut(store[z])
  BY DEF Told
<1>2. ASSUME NEW z \in Zones
      PROVE  /\ Finally(todo', z, rows'[z]) = RowOf(store'[z])
             /\ z \in active' /\ ~TurnsOff(todo', z)
                  <=> store'[z] = None \/ ~StoppedOut(store'[z])
  <2>1. z \in Keys /\ rows' = rows /\ active' = active
    BY DEF Keys
  <2>2. store'[k] = r /\ r # None /\ \A j \in Keys \ {k} : store'[j] = store[j]
    BY OpenChange, RecordFacts
  <2>3. CASE z = k
    BY <2>1, <2>2, <2>3
  <2>4. CASE z # k
    <3>1. \A i \in 1..Len(todo') : todo'[i].op = "save" \/ todo'[i].key # z
      BY <2>4
    <3>2. Finally(todo', z, rows[z]) = rows[z] /\ ~TurnsOff(todo', z)
      BY <3>1, Untouched
    <3>3. Finally(todo, z, rows[z]) = rows[z] /\ ~TurnsOff(todo, z)
      BY FinallyNone DEF TurnsOff
    <3> QED
      BY <1>1, <2>1, <2>2, <2>4, <3>2, <3>3
  <2> QED
    BY <2>3, <2>4
<1> QED
  BY <1>2 DEF Told

(* What Told says when no write is pending.                                *)
LEMMA ToldNow ==
  ASSUME TypeInv, Told, Clean, faults = 0, ~SameSecond, todo = <<>>, NEW z \in Zones
  PROVE  /\ rows[z] = RowOf(store[z])
         /\ store[z] = None => rows[z] = None /\ z \in active
         /\ z \in OpenKeys => z \in active
<1>1. /\ Finally(todo, z, rows[z]) = RowOf(store[z])
      /\ z \in active /\ ~TurnsOff(todo, z) <=> store[z] = None \/ ~StoppedOut(store[z])
  BY DEF Told
<1>2. Finally(todo, z, rows[z]) = rows[z] /\ ~TurnsOff(todo, z)
  BY FinallyNone DEF TurnsOff
<1>3. z \in OpenKeys => ~StoppedOut(store[z])
  BY DEF Clean, IsClean, StoppedOut
<1> QED
  BY <1>1, <1>2, <1>3 DEF RowOf

(* A fill booked in a record, and in its row.                              *)
LEMMA BookedRow ==
  ASSUME TypeInv, Told, Fresh, Clean, faults = 0, ~SameSecond, todo = <<>>,
         NEW kind \in Closing, Handled(kind), NEW k \in OpenKeys, NEW r \in AllRecords,
         NEW label \in Labels,
         label \in {<<"Exit", 0>>, <<"SL", 0>>} \cup ({"TP", "Reduce"} \X {Head(feed).time}),
         r.entry = store[k].entry,
         r.fills = Booked(store[k].fills, label, Head(feed).qty),
         NEW z, z = k, z \in Zones
  PROVE  LET q == Head(feed).qty
         IN /\ r.closed => RowAfter(Finalize(z), z, RowAfter(Fill(z, q), z, rows[z])) = RowOf(r)
            /\ ~r.closed => RowAfter(Fill(z, q), z, rows[z]) = RowOf(r)
            /\ <<"SL", 0>> \in DOMAIN r.fills <=> label = <<"SL", 0>>
            /\ z \in active
<1> DEFINE q == Head(feed).qty
           o == store[k]
<1>1. q \in Nat \ {0}
  BY MessageFacts DEF Handled, Closing
<1>2. o \in AllRecords /\ ~o.closed /\ k \in Keys
  BY OpenFacts
<1>3. rows[z] = RowOf(o) /\ z \in active
  BY ToldNow
<1>4. label \notin DOMAIN o.fills /\ <<"SL", 0>> \notin DOMAIN o.fills
  BY NewLabel DEF Clean, IsClean
<1> HIDE DEF q, o
<1>5. r.entry = o.entry /\ r.fills = Booked(o.fills, label, q)
  BY DEF o, q
<1>6. Total(r.fills) = Total(o.fills) + q
  <2>1. Total(Booked(o.fills, label, q)) = Total(o.fills) + q
    BY <1>1, <1>2, <1>4, BookedFacts, ZenonT(40)
  <2> QED
    BY <1>5, <2>1
<1>7. DOMAIN r.fills = DOMAIN o.fills \cup {label}
  BY <1>5 DEF Booked
<1>8. RowOf(r) = Row(o.entry, Total(o.fills) + q, r.closed) /\ r.closed \in BOOLEAN
  BY <1>5, <1>6, RowOfFacts, RecordFacts
<1>9. /\ RowAfter(Fill(z, q), z, RowOf(o)) = Row(o.entry, Total(o.fills) + q, FALSE)
      /\ RowAfter(Finalize(z), z, Row(o.entry, Total(o.fills) + q, FALSE))
           = Row(o.entry, Total(o.fills) + q, TRUE)
  BY <1>1, <1>2, FillRow
<1>10. ASSUME r.closed
       PROVE  RowAfter(Finalize(z), z, RowAfter(Fill(z, q), z, rows[z])) = RowOf(r)
  <2>1. r.closed = TRUE
    BY <1>8, <1>10
  <2> QED
    BY <1>3, <1>8, <1>9, <2>1
<1>11. ASSUME ~r.closed PROVE RowAfter(Fill(z, q), z, rows[z]) = RowOf(r)
  <2>1. r.closed = FALSE
    BY <1>8, <1>11
  <2> QED
    BY <1>3, <1>8, <1>9, <2>1
<1> QED
  BY <1>3, <1>4, <1>7, <1>10, <1>11 DEF q

(* The operations and keys of writes.                                      *)
LEMMA WriteOps ==
  /\ \A image : Save(image).op = "save"
  /\ \A k, q : Upsert(k, q).op = "upsert" /\ Upsert(k, q).key = k
  /\ \A k, q : Fill(k, q).op = "fill" /\ Fill(k, q).key = k
  /\ \A k : Finalize(k).op = "finalize" /\ Finalize(k).key = k
  /\ \A k : Deactivate(k).op = "deactivate" /\ Deactivate(k).key = k
BY DEF Save, Upsert, Fill, Finalize, Deactivate

(* What an entry queues makes the rows agree with the record,              *)
LEMMA ToldOpen ==
  ASSUME TypeInv, Told, Clean, Once, faults = 0, ~SameSecond, HandleOpen
  PROVE  Told'
<1> DEFINE k == Head(feed).key
           q == Head(feed).qty
<1>1. Handled("Open") /\ k \in Keys /\ UNCHANGED <<rows, active>>
  BY OpenHandled
<1>2. PICK r \in AllRecords : Opened(k, r)
  BY OpenHandled
<1>3. q \in Nat \ {0} /\ todo = <<>>
  BY <1>1, MessageFacts DEF Handled
<1> DEFINE u == Upsert(k, q)
           v == Save(store')
<1>4. store' = [store EXCEPT ![k] = r] /\ todo' = <<u, v>>
  BY <1>2 DEF Opened
<1>5. u.op = "upsert" /\ u.key = k /\ v.op = "save"
  BY WriteOps
<1>6. ASSUME k \in Zones
      PROVE  /\ RowAfter(u, k, rows[k]) = RowOf(r)
             /\ k \in active /\ ~StoppedOut(r)
  <2>1. store[k] = None \/ k \in OpenKeys
    <3>1. feed[1] = Head(feed) /\ 1 \in 1..Len(feed) /\ Opens(feed[1], k)
      BY <1>1, TailFacts DEF Handled, TypeInv, Opens
    <3> QED
      BY <1>6, <3>1 DEF Once
  <2>2. CASE store[k] = None
    <3>1. rows[k] = None /\ k \in active
      BY <1>3, <1>6, <2>2, ToldNow
    <3>2. k \notin OpenKeys
      BY <2>2 DEF OpenKeys, IsOpen
    <3>3. r.entry = q /\ r.fills = <<>> /\ r.closed = FALSE /\ r.outside = FALSE
      BY <1>2, <3>2 DEF Opened
    <3>4. RowOf(r) = Row(q, 0, FALSE)
      BY <3>3, NoFills, RowOfFacts
    <3>5. ~StoppedOut(r)
      BY <3>3, NoFills DEF StoppedOut
    <3>6. RowAfter(u, k, rows[k]) = Row(q, 0, FALSE)
      BY <3>1 DEF RowAfter, Upsert
    <3> QED
      BY <3>1, <3>4, <3>5, <3>6
  <2>3. CASE k \in OpenKeys
    <3> DEFINE o == store[k]
    <3>1. o \in AllRecords /\ IsClean(o)
      BY <2>3, OpenFacts DEF Clean
    <3>2. rows[k] = RowOf(o) /\ k \in active
      BY <1>3, <1>6, <2>3, ToldNow
    <3>3. r.entry = o.entry + q /\ r.fills = o.fills /\ r.closed = o.closed /\ r.outside = o.outside
      BY <1>2, <2>3 DEF Opened
    <3> HIDE DEF o
    <3> DEFINE row == rows[k]
    <3>4. /\ row # None /\ row.qty = o.entry /\ row.out = Total(o.fills) /\ row.closed = o.closed
      BY <3>1, <3>2, RowOfFacts
    <3>5. RowAfter(u, k, row) = Row(row.qty + q, row.out, row.closed)
      <4> HIDE DEF row, k, q
      <4> QED
        BY <3>4 DEF RowAfter, Upsert
    <3>6. RowOf(r) = Row(o.entry + q, Total(o.fills), o.closed)
      BY <3>3, RowOfFacts
    <3>7. ~StoppedOut(r)
      BY <3>1, <3>3 DEF StoppedOut, IsClean
    <3> HIDE DEF row
    <3>8. RowAfter(u, k, row) = RowOf(r)
      BY <3>4, <3>5, <3>6
    <3> QED
      BY <3>2, <3>7, <3>8 DEF row
  <2> QED
    BY <2>1, <2>2, <2>3
<1> HIDE DEF k, q, u, v
<1>7. ASSUME k \in Zones
      PROVE  /\ Finally(todo', k, rows[k]) = RowOf(r)
             /\ k \in active /\ ~TurnsOff(todo', k) <=> ~StoppedOut(r)
  <2>1. Finally(<<u, v>>, k, rows[k]) = RowAfter(v, k, RowAfter(u, k, rows[k]))
    BY FinallyTwo
  <2>2. RowAfter(v, k, RowOf(r)) = RowOf(r)
    BY <1>5 DEF RowAfter
  <2>3. ~TurnsOff(<<u, v>>, k)
    BY <1>5 DEF TurnsOff
  <2> QED
    BY <1>4, <1>6, <1>7, <2>1, <2>2, <2>3
<1>8. Len(todo') <= 4 /\ \A i \in 1..Len(todo') : todo'[i].op = "save" \/ todo'[i].key = k
  BY <1>4, <1>5
<1> QED
  BY <1>1, <1>3, <1>4, <1>7, <1>8, ToldChange

(* and what a close queues,                                                *)
LEMMA ToldClose ==
  ASSUME TypeInv, Told, Fresh, Clean, faults = 0, ~SameSecond, HandleClose
  PROVE  Told'
<1> DEFINE m == Head(feed)
<1>1. Handled("Close") /\ UNCHANGED <<rows, active>> /\ "Close" \in Closing
  BY CloseHandled DEF Closing
<1>2. PICK k \in OpenKeys, r \in AllRecords, full \in BOOLEAN, stop \in BOOLEAN :
        Closed(k, r, full, stop)
  BY CloseHandled
<1>3. m.qty \in Nat \ {0} /\ m.time \in Seconds /\ todo = <<>> /\ k \in Keys
  BY <1>1, MessageFacts, OpenFacts DEF Handled
<1> DEFINE label == IF full THEN <<"Exit", 0>> ELSE <<"Reduce", m.time>>
           d == Deactivate(k)
           g == Fill(k, m.qty)
           z == Finalize(k)
           v == Save(store')
<1>4. /\ label \in Labels
      /\ label \in {<<"Exit", 0>>, <<"SL", 0>>} \cup ({"TP", "Reduce"} \X {m.time})
      /\ label # <<"SL", 0>>
  BY <1>3 DEF Labels
<1>5. /\ store' = [store EXCEPT ![k] = r]
      /\ r.entry = store[k].entry
      /\ r.fills = Booked(store[k].fills, label, m.qty)
      /\ r.closed = full /\ r.outside = stop
      /\ stop => full
      /\ todo' = IF stop THEN <<d, g, z, v>> ELSE IF full THEN <<g, z, v>> ELSE <<g, v>>
  BY <1>2 DEF Closed
<1>6. /\ d.op = "deactivate" /\ d.key = k /\ g.op = "fill" /\ g.key = k
      /\ z.op = "finalize" /\ z.key = k /\ v.op = "save"
  BY WriteOps
<1> HIDE DEF label
<1>7. ASSUME k \in Zones
      PROVE  /\ r.closed => RowAfter(z, k, RowAfter(g, k, rows[k])) = RowOf(r)
             /\ ~r.closed => RowAfter(g, k, rows[k]) = RowOf(r)
             /\ <<"SL", 0>> \notin DOMAIN r.fills
             /\ k \in active
  BY <1>1, <1>3, <1>4, <1>5, <1>7, BookedRow
<1> HIDE DEF m, d, g, z, v
<1>8. ASSUME NEW row
      PROVE  RowAfter(d, k, row) = row /\ RowAfter(v, k, row) = row
  BY <1>6 DEF RowAfter
<1>9. ASSUME k \in Zones
      PROVE  /\ Finally(todo', k, rows[k]) = RowOf(r)
             /\ k \in active /\ ~TurnsOff(todo', k) <=> ~StoppedOut(r)
  <2>1. StoppedOut(r) <=> stop
    BY <1>5, <1>7, <1>9 DEF StoppedOut
  <2>2. CASE stop
    <3>1. Finally(<<d, g, z, v>>, k, rows[k])
            = RowAfter(v, k, RowAfter(z, k, RowAfter(g, k, RowAfter(d, k, rows[k]))))
      BY FinallyFour
    <3>2. TurnsOff(<<d, g, z, v>>, k)
      BY <1>6 DEF TurnsOff
    <3> QED
      BY <1>5, <1>7, <1>8, <1>9, <2>1, <2>2, <3>1, <3>2
  <2>3. CASE ~stop /\ full
    <3>1. Finally(<<g, z, v>>, k, rows[k]) = RowAfter(v, k, RowAfter(z, k, RowAfter(g, k, rows[k])))
      BY FinallyThree
    <3>2. ~TurnsOff(<<g, z, v>>, k)
      BY <1>6 DEF TurnsOff
    <3> QED
      BY <1>5, <1>7, <1>8, <1>9, <2>1, <2>3, <3>1, <3>2
  <2>4. CASE ~stop /\ ~full
    <3>1. Finally(<<g, v>>, k, rows[k]) = RowAfter(v, k, RowAfter(g, k, rows[k]))
      BY FinallyTwo
    <3>2. ~TurnsOff(<<g, v>>, k)
      BY <1>6 DEF TurnsOff
    <3> QED
      BY <1>5, <1>7, <1>8, <1>9, <2>1, <2>4, <3>1, <3>2
  <2> QED
    BY <2>2, <2>3, <2>4
<1>10. Len(todo') <= 4 /\ \A i \in 1..Len(todo') : todo'[i].op = "save" \/ todo'[i].key = k
  <2>1. todo' \in {<<d, g, z, v>>, <<g, z, v>>, <<g, v>>}
    BY <1>5
  <2>2. CASE todo' = <<d, g, z, v>>
    BY <1>6, <2>2
  <2>3. CASE todo' = <<g, z, v>>
    BY <1>6, <2>3
  <2>4. CASE todo' = <<g, v>>
    BY <1>6, <2>4
  <2> QED
    BY <2>1, <2>2, <2>3, <2>4
<1> QED
  BY <1>1, <1>3, <1>5, <1>9, <1>10, ToldChange

(* a take profit or a reduction,                                           *)
LEMMA ToldTakeProfit ==
  ASSUME TypeInv, Told, Fresh, Clean, faults = 0, ~SameSecond, HandleTakeProfit
  PROVE  Told'
<1> DEFINE m == Head(feed)
<1>1. Handled("TakeProfit") /\ UNCHANGED <<rows, active>> /\ "TakeProfit" \in Closing
  BY TakeProfitHandled DEF Closing
<1>2. PICK k \in OpenKeys, b \in AllRecords, r \in AllRecords : TookProfit(k, b, r)
  BY TakeProfitHandled
<1>3. m.qty \in Nat \ {0} /\ m.time \in Seconds /\ todo = <<>> /\ k \in Keys
  BY <1>1, MessageFacts, OpenFacts DEF Handled
<1> DEFINE label == <<"TP", m.time>>
           u == Save([store EXCEPT ![k] = b])
           g == Fill(k, m.qty)
           z == Finalize(k)
           v == Save(store')
<1>4. /\ label \in Labels
      /\ label \in {<<"Exit", 0>>, <<"SL", 0>>} \cup ({"TP", "Reduce"} \X {m.time})
      /\ label # <<"SL", 0>>
  BY <1>3 DEF Labels
<1>5. /\ store' = [store EXCEPT ![k] = r]
      /\ r.entry = store[k].entry
      /\ r.fills = Booked(store[k].fills, label, m.qty)
      /\ r.outside = store[k].outside
      /\ todo' = IF r.closed THEN <<u, g, z, v>> ELSE <<u, g>>
  BY <1>2 DEF TookProfit
<1>6. /\ u.op = "save" /\ g.op = "fill" /\ g.key = k
      /\ z.op = "finalize" /\ z.key = k /\ v.op = "save"
  BY WriteOps
<1> HIDE DEF label
<1>7. ASSUME k \in Zones
      PROVE  /\ r.closed => RowAfter(z, k, RowAfter(g, k, rows[k])) = RowOf(r)
             /\ ~r.closed => RowAfter(g, k, rows[k]) = RowOf(r)
             /\ <<"SL", 0>> \notin DOMAIN r.fills
             /\ k \in active
  BY <1>1, <1>3, <1>4, <1>5, <1>7, BookedRow
<1> HIDE DEF m, u, g, z, v
<1>8. ASSUME NEW row
      PROVE  RowAfter(u, k, row) = row /\ RowAfter(v, k, row) = row
  BY <1>6 DEF RowAfter
<1>9. ASSUME k \in Zones
      PROVE  /\ Finally(todo', k, rows[k]) = RowOf(r)
             /\ k \in active /\ ~TurnsOff(todo', k) <=> ~StoppedOut(r)
  <2>1. ~StoppedOut(r)
    BY <1>5, <1>7, <1>9 DEF StoppedOut, Clean, IsClean
  <2>2. CASE r.closed
    <3>1. Finally(<<u, g, z, v>>, k, rows[k])
            = RowAfter(v, k, RowAfter(z, k, RowAfter(g, k, RowAfter(u, k, rows[k]))))
      BY FinallyFour
    <3>2. ~TurnsOff(<<u, g, z, v>>, k)
      BY <1>6 DEF TurnsOff
    <3> QED
      BY <1>5, <1>7, <1>8, <1>9, <2>1, <2>2, <3>1, <3>2
  <2>3. CASE ~r.closed
    <3>1. Finally(<<u, g>>, k, rows[k]) = RowAfter(g, k, RowAfter(u, k, rows[k]))
      BY FinallyTwo
    <3>2. ~TurnsOff(<<u, g>>, k)
      BY <1>6 DEF TurnsOff
    <3> QED
      BY <1>5, <1>7, <1>8, <1>9, <2>1, <2>3, <3>1, <3>2
  <2> QED
    BY <2>2, <2>3
<1>10. Len(todo') <= 4 /\ \A i \in 1..Len(todo') : todo'[i].op = "save" \/ todo'[i].key = k
  <2>1. todo' \in {<<u, g, z, v>>, <<u, g>>}
    BY <1>5
  <2>2. CASE todo' = <<u, g, z, v>>
    BY <1>6, <2>2
  <2>3. CASE todo' = <<u, g>>
    BY <1>6, <2>3
  <2> QED
    BY <2>1, <2>2, <2>3
<1> QED
  BY <1>1, <1>3, <1>5, <1>9, <1>10, ToldChange

(* a stop loss,                                                            *)
LEMMA ToldStopLoss ==
  ASSUME TypeInv, Told, Fresh, Clean, faults = 0, ~SameSecond, HandleStopLoss
  PROVE  Told'
<1> DEFINE m == Head(feed)
<1>1. Handled("StopLoss") /\ UNCHANGED <<rows, active>> /\ "StopLoss" \in Closing
  BY StopLossHandled DEF Closing
<1>2. PICK k \in OpenKeys, r \in AllRecords : Stopped(k, r)
  BY StopLossHandled
<1>3. m.qty \in Nat \ {0} /\ todo = <<>> /\ k \in Keys
  BY <1>1, MessageFacts, OpenFacts DEF Handled
<1> DEFINE label == <<"SL", 0>>
           d == Deactivate(k)
           g == Fill(k, m.qty)
           z == Finalize(k)
           v == Save(store')
<1>4. /\ label \in Labels
      /\ label \in {<<"Exit", 0>>, <<"SL", 0>>} \cup ({"TP", "Reduce"} \X {m.time})
  BY DEF Labels
<1>5. /\ store' = [store EXCEPT ![k] = r]
      /\ r.entry = store[k].entry
      /\ r.fills = Booked(store[k].fills, label, m.qty)
      /\ r.closed
      /\ todo' = IF k \in Zones THEN <<d, v, g, z>> ELSE <<v, g, z>>
  BY <1>2 DEF Stopped
<1>6. /\ d.op = "deactivate" /\ d.key = k /\ g.op = "fill" /\ g.key = k
      /\ z.op = "finalize" /\ z.key = k /\ v.op = "save"
  BY WriteOps
<1>7. ASSUME k \in Zones
      PROVE  /\ RowAfter(z, k, RowAfter(g, k, rows[k])) = RowOf(r)
             /\ <<"SL", 0>> \in DOMAIN r.fills
  <2> HIDE DEF label
  <2>1. /\ r.closed => RowAfter(z, k, RowAfter(g, k, rows[k])) = RowOf(r)
        /\ <<"SL", 0>> \in DOMAIN r.fills <=> label = <<"SL", 0>>
    BY <1>1, <1>3, <1>4, <1>5, <1>7, BookedRow
  <2> QED
    BY <1>5, <2>1 DEF label
<1> HIDE DEF m, d, g, z, v
<1>8. ASSUME NEW row
      PROVE  RowAfter(d, k, row) = row /\ RowAfter(v, k, row) = row
  BY <1>6 DEF RowAfter
<1>9. ASSUME k \in Zones
      PROVE  /\ Finally(todo', k, rows[k]) = RowOf(r)
             /\ k \in active /\ ~TurnsOff(todo', k) <=> ~StoppedOut(r)
  <2>1. StoppedOut(r)
    BY <1>7, <1>9 DEF StoppedOut
  <2>2. Finally(<<d, v, g, z>>, k, rows[k])
          = RowAfter(z, k, RowAfter(g, k, RowAfter(v, k, RowAfter(d, k, rows[k]))))
    BY FinallyFour
  <2>3. TurnsOff(<<d, v, g, z>>, k)
    BY <1>6 DEF TurnsOff
  <2> QED
    BY <1>5, <1>7, <1>8, <1>9, <2>1, <2>2, <2>3
<1>10. Len(todo') <= 4 /\ \A i \in 1..Len(todo') : todo'[i].op = "save" \/ todo'[i].key = k
  <2>1. todo' \in {<<d, v, g, z>>, <<v, g, z>>}
    BY <1>5
  <2>2. CASE todo' = <<d, v, g, z>>
    BY <1>6, <2>2
  <2>3. CASE todo' = <<v, g, z>>
    BY <1>6, <2>3
  <2> QED
    BY <2>1, <2>2, <2>3
<1> QED
  BY <1>1, <1>3, <1>5, <1>9, <1>10, ToldChange

(* and a size message.                                                     *)
LEMMA ToldPosition ==
  ASSUME TypeInv, Told, Clean, faults = 0, ~SameSecond, HandlePosition
  PROVE  Told'
<1>1. Handled("Position") /\ UNCHANGED <<rows, active, faults>>
  BY PositionHandled
<1>2. CASE UNCHANGED <<store, todo, overlapped>>
  BY <1>1, <1>2 DEF Told
<1>3. CASE \E k \in OpenKeys, r \in AllRecords : Resized(k, r)
  <2>1. PICK k \in OpenKeys, r \in AllRecords : Resized(k, r)
    BY <1>3
  <2> DEFINE o == store[k]
  <2>2. /\ r.entry = o.entry /\ r.fills = o.fills /\ r.closed = o.closed /\ r.outside = o.outside
        /\ store' = [store EXCEPT ![k] = r] /\ todo' = <<Save(store')>>
    BY <2>1 DEF Resized
  <2>3. o \in AllRecords /\ k \in Keys /\ IsClean(o) /\ todo = <<>>
    BY <1>1, OpenFacts DEF Clean, Handled
  <2> DEFINE v == Save(store')
  <2>4. v.op = "save"
    BY WriteOps
  <2>5. ASSUME k \in Zones
        PROVE  /\ Finally(todo', k, rows[k]) = RowOf(r)
               /\ k \in active /\ ~TurnsOff(todo', k) <=> ~StoppedOut(r)
    <3> HIDE DEF v
    <3>1. rows[k] = RowOf(o) /\ k \in active
      BY <2>3, <2>5, ToldNow
    <3>2. RowOf(r) = RowOf(o)
      <4> HIDE DEF o
      <4> QED
        BY <2>2, <2>3, RowOfFacts
    <3>3. ~StoppedOut(r)
      BY <2>2, <2>3 DEF StoppedOut, IsClean
    <3>4. Finally(<<v>>, k, rows[k]) = RowAfter(v, k, rows[k])
      BY FinallyOne
    <3>5. RowAfter(v, k, rows[k]) = rows[k]
      BY <2>4 DEF RowAfter
    <3>6. ~TurnsOff(<<v>>, k)
      BY <2>4 DEF TurnsOff
    <3>7. todo' = <<v>>
      BY <2>2 DEF v
    <3> QED
      BY <3>1, <3>2, <3>3, <3>4, <3>5, <3>6, <3>7
  <2>6. Len(todo') <= 4 /\ \A i \in 1..Len(todo') : todo'[i].op = "save" \/ todo'[i].key = k
    BY <2>2, <2>4
  <2> QED
    BY <1>1, <2>2, <2>3, <2>5, <2>6, ToldChange
<1> QED
  BY <1>2, <1>3, PositionHandled

(* Doing the first pending write changes nothing in the end.               *)
LEMMA FinallyTail ==
  ASSUME NEW q \in Seq(Writes), q # <<>>, Len(q) <= 4, NEW z, NEW row
  PROVE  /\ Finally(Tail(q), z, RowAfter(Head(q), z, row)) = Finally(q, z, row)
         /\ TurnsOff(q, z) <=> (Head(q).op = "deactivate" /\ Head(q).key = z) \/ TurnsOff(Tail(q), z)
         /\ Len(Tail(q)) <= 4
<1> DEFINE t == Tail(q)
<1>1. /\ Head(q) = q[1] /\ 1 \in 1..Len(q) /\ Len(q) \in Nat
      /\ Len(t) = Len(q) - 1 /\ Len(t) \in Nat
      /\ \A i \in 1..Len(t) : t[i] = q[i + 1] /\ i + 1 \in 1..Len(q)
      /\ \A i \in 1..Len(q) : i = 1 \/ (i - 1 \in 1..Len(t) /\ t[i - 1] = q[i])
  BY TailFacts
<1> HIDE DEF t
<1>2. ASSUME NEW i \in {1, 2, 3}, NEW x PROVE Put(t, i, z, x) = Put(q, i + 1, z, x)
  <2>1. i \in 1..Len(t) <=> i + 1 \in 1..Len(q)
    BY <1>1
  <2>2. i \in 1..Len(t) => t[i] = q[i + 1]
    BY <1>1
  <2> QED
    BY <2>1, <2>2 DEF Put
<1>3. ASSUME NEW x PROVE Put(t, 4, z, x) = x
  <2>1. 4 \notin 1..Len(t)
    BY <1>1
  <2> QED
    BY <2>1 DEF Put
<1>4. Put(q, 1, z, row) = RowAfter(Head(q), z, row)
  BY <1>1 DEF Put
<1> DEFINE a == RowAfter(Head(q), z, row)
           b == Put(q, 2, z, a)
           c == Put(q, 3, z, b)
           d == Put(q, 4, z, c)
<1>5. Finally(q, z, row) = d
  BY <1>4 DEF Finally
<1>6. Finally(t, z, a) = d
  <2> HIDE DEF a, b, c, d
  <2>1. Put(t, 1, z, a) = b
    BY <1>2 DEF b
  <2>2. Put(t, 2, z, b) = c
    BY <1>2 DEF c
  <2>3. Put(t, 3, z, c) = d
    BY <1>2 DEF d
  <2>4. Put(t, 4, z, d) = d
    BY <1>3
  <2> QED
    BY <2>1, <2>2, <2>3, <2>4 DEF Finally
<1>7. TurnsOff(q, z) <=> (q[1].op = "deactivate" /\ q[1].key = z) \/ TurnsOff(t, z)
  <2>1. ASSUME TurnsOff(q, z), ~TurnsOff(t, z) PROVE q[1].op = "deactivate" /\ q[1].key = z
    <3>1. PICK i \in 1..Len(q) : q[i].op = "deactivate" /\ q[i].key = z
      BY <2>1 DEF TurnsOff
    <3> QED
      BY <1>1, <2>1, <3>1 DEF TurnsOff
  <2>2. ASSUME q[1].op = "deactivate" /\ q[1].key = z PROVE TurnsOff(q, z)
    BY <1>1, <2>2 DEF TurnsOff
  <2>3. ASSUME TurnsOff(t, z) PROVE TurnsOff(q, z)
    BY <1>1, <2>3 DEF TurnsOff
  <2> QED
    BY <2>1, <2>2, <2>3
<1>8. Len(t) <= 4
  BY <1>1
<1> QED
  BY <1>1, <1>5, <1>6, <1>7, <1>8 DEF t

(* A write that is done is one write less to come.                         *)
LEMMA ToldWrite ==
  ASSUME TypeInv, Told, faults = 0, ~SameSecond, Write
  PROVE  Told'
<1> DEFINE w == Head(todo)
<1>1. todo # <<>> /\ Applied(w) /\ todo' = Tail(todo) /\ UNCHANGED store
  BY DEF Write
<1>2. todo \in Seq(Writes) /\ w \in Writes /\ rows \in [Keys -> Rows \cup {None}]
  BY <1>1, TailFacts DEF TypeInv
<1>3. /\ Len(todo) <= 4
      /\ \A z \in Zones :
           /\ Finally(todo, z, rows[z]) = RowOf(store[z])
           /\ z \in active /\ ~TurnsOff(todo, z)
                <=> store[z] = None \/ ~StoppedOut(store[z])
  BY DEF Told
<1>4. active' = IF w.op = "deactivate" THEN active \ {w.key} ELSE active
  BY <1>1 DEF Applied
<1>5. ASSUME NEW z \in Zones
      PROVE  /\ Finally(todo', z, rows'[z]) = RowOf(store'[z])
             /\ z \in active' /\ ~TurnsOff(todo', z)
                  <=> store'[z] = None \/ ~StoppedOut(store'[z])
  <2>1. z \in Keys
    BY DEF Keys
  <2>2. rows'[z] = RowAfter(w, z, rows[z])
    BY <1>1, <1>2, <2>1, RowAt
  <2>3. /\ Finally(Tail(todo), z, RowAfter(w, z, rows[z])) = Finally(todo, z, rows[z])
        /\ TurnsOff(todo, z) <=> (w.op = "deactivate" /\ w.key = z) \/ TurnsOff(Tail(todo), z)
    BY <1>1, <1>2, <1>3, FinallyTail
  <2>4. store'[z] = store[z]
    BY <1>1
  <2>5. Finally(todo', z, rows'[z]) = RowOf(store'[z])
    BY <1>1, <1>3, <2>2, <2>3, <2>4
  <2>6. z \in active' <=> z \in active /\ ~(w.op = "deactivate" /\ w.key = z)
    BY <1>4
  <2> QED
    BY <1>1, <1>3, <2>3, <2>4, <2>5, <2>6
<1>6. Len(todo') <= 4
  BY <1>1, <1>2, <1>3, FinallyTail
<1> QED
  BY <1>5, <1>6 DEF Told

(* Every step keeps what the rows will say.                                *)
LEMMA ToldStep ==
  ASSUME TypeInv, SizeInv, Clean, Fresh, Once, Told, [Next]_vars
  PROVE  Told'
<1> SUFFICES ASSUME faults' = 0, ~SameSecond PROVE Told'
  BY DEF Told
<1>1. /\ faults = 0
      /\ Exchange \/ Handler \/ Write \/ UNCHANGED vars
  BY QuietStep
<1>2. CASE Exchange
  <2>1. UNCHANGED <<store, todo, rows, active, faults>>
    BY <1>2, ExchangeFacts
  <2> QED
    BY <2>1 DEF Told
<1>3. CASE \E kind \in {"Close", "TakeProfit", "StopLoss"} : Skip(kind, CloseTargets)
  <2>1. UNCHANGED <<store, todo, rows, active, faults>>
    BY <1>3, SkipHandled DEF Closing
  <2> QED
    BY <2>1 DEF Told
<1>4. CASE UNCHANGED vars
  BY <1>4 DEF Told, vars
<1> QED
  BY <1>1, <1>2, <1>3, <1>4, ToldOpen, ToldClose, ToldTakeProfit, ToldStopLoss,
     ToldPosition, ToldWrite DEF Handler

(* Told always holds.                                                      *)
LEMMA ToldSpec == Spec => []Told
<1>1. Init => Told
  <2> SUFFICES ASSUME Init PROVE Told
    OBVIOUS
  <2>1. todo = <<>> /\ Len(todo) = 0 /\ active = Zones
    BY DEF Init
  <2>2. ASSUME NEW z \in Zones
        PROVE  /\ Finally(todo, z, rows[z]) = RowOf(store[z])
               /\ z \in active /\ ~TurnsOff(todo, z)
                    <=> store[z] = None \/ ~StoppedOut(store[z])
    <3>1. store[z] = None /\ rows[z] = None
      BY DEF Init, Keys
    <3>2. Finally(todo, z, rows[z]) = None /\ ~TurnsOff(todo, z)
      BY <2>1, <3>1, FinallyNone DEF TurnsOff
    <3> QED
      BY <2>1, <3>1, <3>2 DEF RowOf
  <2> QED
    BY <2>1, <2>2 DEF Told
<1>2. TypeInv /\ SizeInv /\ Clean /\ Fresh /\ Once /\ Told /\ [Next]_vars => Told'
  BY ToldStep
<1> QED
  BY <1>1, <1>2, TypeSpec, SizeSpec, CleanSpec, FreshSpec, OnceSpec, PTL DEF Spec

(* When fills of one order carry different seconds, an idle bot that lost  *)
(* nothing and MySQL tell the same story about every zone: the quantities  *)
(* of the row, whether it is closed, and whether the zone is switched off. *)
THEOREM DatabaseAgreesHolds ==
  ASSUME ~SameSecond
  PROVE  Spec => []DatabaseAgrees
<1>1. TypeInv /\ Told => DatabaseAgrees
  <2> SUFFICES ASSUME TypeInv, Told, Idle, NothingLost, NEW z \in Zones
               PROVE  IF store[z] = None
                        THEN rows[z] = None /\ z \in active
                        ELSE /\ rows[z] = [qty |-> store[z].entry, out |-> Total(store[z].fills),
                                           closed |-> store[z].closed]
                             /\ z \in active <=> ~StoppedOut(store[z])
    BY DEF DatabaseAgrees
  <2>1. faults = 0 /\ todo = <<>>
    BY DEF Idle, NothingLost
  <2>2. /\ Finally(todo, z, rows[z]) = RowOf(store[z])
        /\ z \in active /\ ~TurnsOff(todo, z)
             <=> store[z] = None \/ ~StoppedOut(store[z])
    BY <2>1 DEF Told
  <2>3. Finally(todo, z, rows[z]) = rows[z] /\ ~TurnsOff(todo, z)
    BY <2>1, FinallyNone DEF TurnsOff
  <2> QED
    BY <2>2, <2>3 DEF RowOf, Row
<1> QED
  BY <1>1, TypeSpec, ToldSpec, PTL

-----------------------------------------------------------------------------
(***************************************************************************)
(* The size of the position.  Every unread message moves it from the size  *)
(* the bot knows of, L[0], to the size the exchange holds; the fills of a  *)
(* stop loss follow one another down to 0.                                 *)
(***************************************************************************)
Moves(q, i, L) ==
  /\ q[i].kind = "Open" => L[i] = L[i - 1] + q[i].qty
  /\ q[i].kind = "Position" => L[i] = L[i - 1] /\ q[i].qty = L[i]
  /\ q[i].kind \in Closing => L[i - 1] = L[i] + q[i].qty
  /\ q[i].kind = "StopLoss" => L[i] = 0 \/ (i + 1 \in 1..Len(q) /\ q[i + 1].kind = "StopLoss")

Level(q, L, end) ==
  /\ L \in [0..Len(q) -> Nat]
  /\ L[Len(q)] = end
  /\ \A i \in 1..Len(q) : Moves(q, i, L)

(* One feed after another.                                                 *)
LEMMA LevelJoin ==
  ASSUME NEW q \in Seq(Messages), NEW x \in Seq(Messages), NEW L, NEW M, NEW end,
         Level(q, L, M[0]), Level(x, M, end)
  PROVE  \E K : Level(q \o x, K, end) /\ K[0] = L[0]
<1> DEFINE n == Len(q)
           K == [i \in 0..(n + Len(x)) |-> IF i <= n THEN L[i] ELSE M[i - n]]
<1>1. n \in Nat /\ Len(x) \in Nat /\ Len(q \o x) = n + Len(x)
  OBVIOUS
<1>2. /\ \A i \in 1..n : (q \o x)[i] = q[i] /\ i \in 1..Len(q \o x)
      /\ \A i \in 1..Len(x) : (q \o x)[n + i] = x[i] /\ n + i \in 1..Len(q \o x)
      /\ \A i \in 1..Len(q \o x) :
           \/ i \in 1..n
           \/ i > n /\ i - n \in 1..Len(x) /\ (q \o x)[i] = x[i - n]
  BY AppendFacts
<1>3. /\ L \in [0..n -> Nat] /\ L[n] = M[0] /\ \A i \in 1..n : Moves(q, i, L)
      /\ M \in [0..Len(x) -> Nat] /\ M[Len(x)] = end /\ \A i \in 1..Len(x) : Moves(x, i, M)
  BY DEF Level
<1> HIDE DEF n
<1>4. K \in [0..(n + Len(x)) -> Nat]
  <2> SUFFICES ASSUME NEW i \in 0..(n + Len(x))
               PROVE  (IF i <= n THEN L[i] ELSE M[i - n]) \in Nat
    OBVIOUS
  <2>1. CASE i <= n
    BY <1>1, <1>3, <2>1
  <2>2. CASE ~(i <= n)
    <3>1. i - n \in 0..Len(x)
      BY <1>1, <2>2
    <3> QED
      BY <1>3, <2>2, <3>1
  <2> QED
    BY <2>1, <2>2
<1>5. /\ \A i \in 0..n : K[i] = L[i]
      /\ \A i \in 0..Len(x) : K[n + i] = M[i]
  <2>1. ASSUME NEW i \in 0..n PROVE K[i] = L[i]
    BY <1>1
  <2>2. ASSUME NEW i \in 0..Len(x) PROVE K[n + i] = M[i]
    <3>1. CASE i = 0
      BY <1>1, <1>3, <3>1
    <3>2. CASE i # 0
      <4>1. n + i \in 0..(n + Len(x)) /\ ~(n + i <= n) /\ (n + i) - n = i
        BY <1>1, <3>2
      <4> QED
        BY <4>1
    <3> QED
      BY <3>1, <3>2
  <2> QED
    BY <2>1, <2>2
<1> HIDE DEF K
<1>6. ASSUME NEW i \in 1..Len(q \o x) PROVE Moves(q \o x, i, K)
  <2>1. CASE i \in 1..n
    <3>1. (q \o x)[i] = q[i] /\ K[i] = L[i] /\ K[i - 1] = L[i - 1] /\ Moves(q, i, L)
      BY <1>1, <1>2, <1>3, <1>5, <2>1
    <3>2. i + 1 \in 1..n => (q \o x)[i + 1] = q[i + 1] /\ i + 1 \in 1..Len(q \o x)
      BY <1>2
    <3> QED
      BY <3>1, <3>2 DEF Moves, n
  <2>2. CASE i > n /\ i - n \in 1..Len(x) /\ (q \o x)[i] = x[i - n]
    <3> DEFINE j == i - n
    <3>1. j \in 1..Len(x) /\ j - 1 \in 0..Len(x) /\ j \in 0..Len(x) /\ n + j = i /\ n + (j - 1) = i - 1
          /\ n + (j + 1) = i + 1
      BY <1>1, <2>2
    <3>2. K[i] = M[j] /\ K[i - 1] = M[j - 1] /\ Moves(x, j, M)
      BY <1>3, <1>5, <3>1
    <3>3. j + 1 \in 1..Len(x) => (q \o x)[i + 1] = x[j + 1] /\ i + 1 \in 1..Len(q \o x)
      BY <1>2, <3>1, SMTT(30)
    <3>4. (q \o x)[i] = x[j]
      BY <2>2
    <3> HIDE DEF j
    <3> QED
      BY <3>2, <3>3, <3>4 DEF Moves
  <2> QED
    BY <1>2, <2>1, <2>2
<1>7. K[0] = L[0] /\ K[n + Len(x)] = end
  BY <1>1, <1>3, <1>5
<1> QED
  BY <1>1, <1>4, <1>6, <1>7 DEF Level

(* The rest of a feed.                                                     *)
LEMMA LevelTail ==
  ASSUME NEW q \in Seq(Messages), q # <<>>, NEW L, NEW end, Level(q, L, end)
  PROVE  \E K : Level(Tail(q), K, end) /\ K[0] = L[1]
<1> DEFINE t == Tail(q)
           K == [i \in 0..Len(t) |-> L[i + 1]]
<1>1. /\ 1 \in 1..Len(q) /\ Len(q) \in Nat
      /\ Len(t) = Len(q) - 1 /\ Len(t) \in Nat
      /\ \A i \in 1..Len(t) : t[i] = q[i + 1] /\ i + 1 \in 1..Len(q)
      /\ \A i \in 1..Len(q) : i = 1 \/ (i - 1 \in 1..Len(t) /\ t[i - 1] = q[i])
  BY TailFacts
<1>2. L \in [0..Len(q) -> Nat] /\ L[Len(q)] = end /\ \A i \in 1..Len(q) : Moves(q, i, L)
  BY DEF Level
<1> HIDE DEF t
<1>3. K \in [0..Len(t) -> Nat] /\ K[Len(t)] = end /\ K[0] = L[1]
  BY <1>1, <1>2
<1>4. ASSUME NEW i \in 1..Len(t) PROVE Moves(t, i, K)
  <2>1. t[i] = q[i + 1] /\ i + 1 \in 1..Len(q) /\ Moves(q, i + 1, L)
    BY <1>1, <1>2
  <2>2. K[i] = L[i + 1] /\ K[i - 1] = L[i] /\ (i + 1) - 1 = i
    <3>1. i \in 0..Len(t) /\ i - 1 \in 0..Len(t) /\ (i - 1) + 1 = i /\ (i + 1) - 1 = i
      BY <1>1
    <3> QED
      BY <3>1
  <2>3. (i + 1) + 1 \in 1..Len(q) => i + 1 \in 1..Len(t) /\ t[i + 1] = q[(i + 1) + 1]
    BY <1>1
  <2> HIDE DEF K
  <2> QED
    BY <2>1, <2>2, <2>3 DEF Moves
<1> HIDE DEF K
<1> QED
  BY <1>3, <1>4 DEF Level, t

(* The messages of one order move the position from its size to the next.  *)
LEMMA LevelReported ==
  ASSUME TypeInv, ~PositionFirst, NEW kind, NEW k, NEW n \in Nat \ {0}, NEW outside, NEW X,
         NEW size \in Nat, Ordered(kind, k, n, size), Reported(kind, k, n, size, outside, X)
  PROVE  \E M : Level(X, M, size) /\ M[0] = held
<1>1. PICK a \in 1..n, t \in {now, now + 1} :
        LET A == Message(kind, k, a, outside, now)
            B == Message(kind, k, n - a, outside, t)
            P == Report(size)
        IN \/ a = n /\ X = <<A, P>>
           \/ a < n /\ X = <<A, B, P>>
  BY DEF Reported
<1> DEFINE A == Message(kind, k, a, outside, now)
           B == Message(kind, k, n - a, outside, t)
           P == Report(size)
<1>2. /\ P.kind = "Position" /\ P.qty = size
      /\ A.kind = kind /\ A.qty = a /\ B.kind = kind /\ B.qty = n - a
  BY DEF Message, Report
<1>3. (a = n /\ X = <<A, P>>) \/ (a < n /\ X = <<A, B, P>>)
  BY <1>1
<1>4. held \in Nat /\ a \in Nat
  BY DEF TypeInv
<1>5. \/ kind = "Open" /\ size = held + n
      \/ kind \in Closing /\ n <= held /\ size = held - n /\ (kind = "StopLoss" => size = 0)
  BY DEF Ordered
<1>6. "Open" \notin Closing /\ "Position" \notin Closing /\ "StopLoss" \in Closing
  BY DEF Closing
<1> HIDE DEF A, B, P
<1>7. CASE a = n /\ X = <<A, P>>
  <2> DEFINE M == [i \in 0..2 |-> IF i = 0 THEN held ELSE size]
  <2>1. M \in [0..2 -> Nat] /\ M[0] = held /\ M[1] = size /\ M[2] = size
    BY <1>4
  <2> HIDE DEF M
  <2>2. Len(X) = 2 /\ X[1] = A /\ X[2] = P /\ 2 \in 1..Len(X)
    BY <1>7
  <2>3. Moves(X, 1, M)
    <3>1. 1 - 1 = 0
      OBVIOUS
    <3> QED
      BY <1>2, <1>4, <1>5, <1>6, <1>7, <2>1, <2>2, <3>1 DEF Moves
  <2>4. Moves(X, 2, M)
    <3>1. 2 - 1 = 1
      OBVIOUS
    <3> QED
      BY <1>2, <1>6, <2>1, <2>2, <3>1 DEF Moves
  <2>5. 1..Len(X) = {1, 2}
    BY <2>2
  <2> QED
    BY <2>1, <2>2, <2>3, <2>4, <2>5 DEF Level
<1>8. CASE a < n /\ X = <<A, B, P>>
  <2> DEFINE mid == IF kind = "Open" THEN held + a ELSE held - a
             M == [i \in 0..3 |-> IF i = 0 THEN held ELSE IF i = 1 THEN mid ELSE size]
  <2>0. mid \in Nat
    BY <1>4, <1>5, <1>8
  <2>1. M \in [0..3 -> Nat] /\ M[0] = held /\ M[1] = mid /\ M[2] = size /\ M[3] = size
    <3> HIDE DEF mid
    <3> QED
      BY <1>4, <2>0
  <2> HIDE DEF M
  <2>2. Len(X) = 3 /\ X[1] = A /\ X[2] = B /\ X[3] = P /\ 2 \in 1..Len(X)
    BY <1>8
  <2>3. Moves(X, 1, M)
    <3>1. 1 - 1 = 0 /\ 1 + 1 = 2
      OBVIOUS
    <3> QED
      BY <1>2, <1>4, <1>5, <1>6, <1>8, <2>1, <2>2, <3>1 DEF Moves
  <2>4. Moves(X, 2, M)
    <3>1. 2 - 1 = 1
      OBVIOUS
    <3> QED
      BY <1>2, <1>4, <1>5, <1>6, <1>8, <2>1, <2>2, <3>1 DEF Moves
  <2>5. Moves(X, 3, M)
    <3>1. 3 - 1 = 2
      OBVIOUS
    <3> QED
      BY <1>2, <1>6, <2>1, <2>2, <3>1 DEF Moves
  <2>6. 1..Len(X) = {1, 2, 3}
    BY <2>2
  <2> QED
    BY <2>1, <2>2, <2>3, <2>4, <2>5, <2>6 DEF Level
<1> QED
  BY <1>3, <1>7, <1>8

(* A smaller function has a smaller sum.                                   *)
LEMMA SumLarger ==
  ASSUME NEW f, NEW g, NEW S, IsFiniteSet(S),
         \A x \in S : f[x] \in Nat /\ g[x] \in Nat /\ f[x] <= g[x]
  PROVE  /\ SumFunctionOnSet(f, S) \in Nat
         /\ SumFunctionOnSet(g, S) \in Nat
         /\ SumFunctionOnSet(f, S) <= SumFunctionOnSet(g, S)
<1> DEFINE C == {t \in SUBSET S : SumFunctionOnSet(f, t) <= SumFunctionOnSet(g, t)}
<1>1. ASSUME NEW t \in SUBSET S, \A r \in SUBSET t : r # t => r \in C
      PROVE  t \in C
  <2>1. IsFiniteSet(t)
    BY PartFacts
  <2>2. CASE t = {}
    <3>1. SumFunctionOnSet(f, t) = 0 /\ SumFunctionOnSet(g, t) = 0
      BY <2>1, <2>2, SumStep
    <3> QED
      BY <3>1
  <2>3. CASE t # {}
    <3>1. Some(t) \in t /\ t \ {Some(t)} \in C
      BY <1>1, <2>3, SomeFacts
    <3>2. IsFiniteSet(t \ {Some(t)})
      BY <2>1, FS_RemoveElement
    <3>3. /\ SumFunctionOnSet(f, t \ {Some(t)}) \in Nat
          /\ SumFunctionOnSet(g, t \ {Some(t)}) \in Nat
      BY <3>2, SumNat
    <3>4. /\ SumFunctionOnSet(f, t) = f[Some(t)] + SumFunctionOnSet(f, t \ {Some(t)})
          /\ SumFunctionOnSet(g, t) = g[Some(t)] + SumFunctionOnSet(g, t \ {Some(t)})
      BY <2>1, <2>3, SumStep
    <3>5. f[Some(t)] \in Nat /\ g[Some(t)] \in Nat /\ f[Some(t)] <= g[Some(t)]
      BY <3>1
    <3>6. SumFunctionOnSet(f, t \ {Some(t)}) <= SumFunctionOnSet(g, t \ {Some(t)})
      BY <3>1
    <3> QED
      BY <3>3, <3>4, <3>5, <3>6
  <2> QED
    BY <2>2, <2>3
<1>2. S \in C
  <2> HIDE DEF C
  <2> QED
    BY <1>1, FiniteInduction
<1>3. SumFunctionOnSet(f, S) \in Nat /\ SumFunctionOnSet(g, S) \in Nat
  BY SumNat
<1> QED
  BY <1>2, <1>3

(***************************************************************************)
(* What the open records account for.  Together they have at least the     *)
(* size the bot knows of, by the smaller of the two accounts of each; as   *)
(* long as no two were open at once, the one there is has it by both.  In  *)
(* the middle of a stop loss the record may be closed already.             *)
(***************************************************************************)
Stopping == 1 \in 1..Len(feed) /\ feed[1].kind = "StopLoss"

Sures == [k \in Keys |-> IF store[k] = None THEN 0 ELSE Sure(store[k])]

Claimed == SumFunctionOnSet(Sures, OpenKeys)

Exact(a) ==
  \/ OpenKeys = {} /\ (Stopping \/ a = 0)
  \/ \E k \in Keys : OpenKeys = {k} /\ store[k].cur = a /\ LeftOf(store[k]) = a

Accounts(a) ==
  /\ IsFiniteSet(OpenKeys)
  /\ Stopping \/ Claimed >= a
  /\ ~SameSecond /\ ~overlapped => Exact(a)

Account ==
  faults = 0 /\ ~PositionFirst =>
    \E L : Level(feed, L, held) /\ Accounts(L[0])

(* One record changes, and the sum with it.                                *)
LEMMA ClaimedChange ==
  ASSUME TypeInv, IsFiniteSet(OpenKeys), NEW k \in Keys, NEW r \in AllRecords,
         store' = [store EXCEPT ![k] = r]
  PROVE  /\ IsFiniteSet(OpenKeys')
         /\ \E c \in Nat :
              /\ Claimed = c + IF k \in OpenKeys THEN Sure(store[k]) ELSE 0
              /\ Claimed' = c + IF r.closed THEN 0 ELSE Sure(r)
<1> DEFINE D == OpenKeys \ {k}
           c == SumFunctionOnSet(Sures, D)
<1>1. /\ OpenKeys' = IF r.closed THEN OpenKeys \ {k} ELSE OpenKeys \cup {k}
      /\ store'[k] = r
      /\ \A j \in Keys \ {k} : store'[j] = store[j]
  BY OpenChange
<1>2. IsFiniteSet(D) /\ IsFiniteSet(OpenKeys \cup {k}) /\ IsFiniteSet(OpenKeys')
  BY <1>1, FS_RemoveElement, FS_AddElement
<1>3. /\ \A j \in OpenKeys : Sures[j] = Sure(store[j]) /\ Sures[j] \in Nat /\ j \in Keys
      /\ \A j \in D : Sures'[j] = Sures[j]
      /\ Sures'[k] = Sure(r) /\ Sure(r) \in Nat
  <2>1. ASSUME NEW j \in OpenKeys
        PROVE  Sures[j] = Sure(store[j]) /\ Sures[j] \in Nat /\ j \in Keys
    BY OpenFacts, SureFacts DEF Sures
  <2>2. ASSUME NEW j \in D PROVE Sures'[j] = Sures[j]
    <3>1. j \in Keys /\ store'[j] = store[j]
      BY <1>1, <2>1
    <3> QED
      BY <3>1 DEF Sures
  <2>3. Sures'[k] = Sure(r) /\ Sure(r) \in Nat
    <3>1. r # None
      BY RecordFacts
    <3> QED
      BY <1>1, <3>1, SureFacts DEF Sures
  <2> QED
    BY <2>1, <2>2, <2>3
<1>4. c \in Nat
  BY <1>2, <1>3, SumNat
<1>5. Claimed = c + IF k \in OpenKeys THEN Sure(store[k]) ELSE 0
  <2>1. CASE k \in OpenKeys
    <3>1. SumFunctionOnSet(Sures, OpenKeys) = Sures[k] + SumFunctionOnSet(Sures, OpenKeys \ {k})
      BY <1>3, <2>1, SumRemove
    <3>2. Sures[k] \in Nat
      BY <1>3, <2>1
    <3> HIDE DEF Sures
    <3> QED
      BY <1>3, <1>4, <2>1, <3>1, <3>2 DEF Claimed
  <2>2. CASE k \notin OpenKeys
    <3>1. OpenKeys \ {k} = OpenKeys
      BY <2>2
    <3>2. Claimed = c
      BY <3>1 DEF Claimed
    <3> HIDE DEF c
    <3> QED
      BY <1>4, <2>2, <3>2
  <2> QED
    BY <2>1, <2>2
<1>6. Claimed' = c + IF r.closed THEN 0 ELSE Sure(r)
  <2>1. SumFunctionOnSet(Sures', D) = c
    BY <1>2, <1>3, SumAgree
  <2>2. Claimed' = SumFunctionOnSet(Sures', OpenKeys')
    BY DEF Claimed
  <2>3. CASE r.closed
    BY <1>1, <1>4, <2>1, <2>2, <2>3
  <2>4. CASE ~r.closed
    <3> DEFINE E == OpenKeys \cup {k}
    <3>1. /\ E = OpenKeys' /\ k \in E /\ E \ {k} = D /\ IsFiniteSet(E)
          /\ \A j \in E : Sures'[j] \in Nat
      BY <1>1, <1>2, <1>3, <2>4
    <3> HIDE DEF E, D
    <3>2. SumFunctionOnSet(Sures', E) = Sures'[k] + SumFunctionOnSet(Sures', E \ {k})
      BY <3>1, SumRemove
    <3>3. Claimed' = Sure(r) + SumFunctionOnSet(Sures', D)
      BY <1>3, <2>2, <3>1, <3>2
    <3>4. Claimed' = Sure(r) + c
      BY <2>1, <3>3 DEF D
    <3> HIDE DEF c
    <3> QED
      BY <1>3, <1>4, <2>4, <3>4
  <2> QED
    BY <2>3, <2>4
<1> HIDE DEF c
<1> QED
  BY <1>2, <1>4, <1>5, <1>6

(* As long as records do not overlap, the one that changes is the only one. *)
LEMMA OneOpen ==
  ASSUME IsFiniteSet(OpenKeys), NEW k, ~(Cardinality(OpenKeys \cup {k}) > 1)
  PROVE  OpenKeys \subseteq {k}
<1> SUFFICES ASSUME NEW j \in OpenKeys, j # k PROVE FALSE
  OBVIOUS
<1>1. IsFiniteSet({k}) /\ Cardinality({k}) = 1
  BY FS_Singleton
<1>2. IsFiniteSet({k} \cup {j}) /\ Cardinality({k} \cup {j}) = 2
  BY <1>1, FS_AddElement, SMTT(30)
<1>3. IsFiniteSet(OpenKeys \cup {k}) /\ {k} \cup {j} \subseteq OpenKeys \cup {k}
  BY FS_AddElement
<1>4. Cardinality({k} \cup {j}) <= Cardinality(OpenKeys \cup {k})
      /\ Cardinality(OpenKeys \cup {k}) \in Nat
  BY <1>3, FS_Subset, FS_CardinalityType
<1> QED
  BY <1>2, <1>4

(* The size before the next message, and after it.                         *)
Headed(a, b) ==
  LET m == Head(feed)
  IN /\ m.kind = "Open" => b = a + m.qty
     /\ m.kind = "Position" => b = a /\ m.qty = b
     /\ m.kind \in Closing => a = b + m.qty
     /\ m.kind = "StopLoss" => b = 0 \/ Stopping'
     /\ Stopping <=> m.kind = "StopLoss"

(* The first message takes the exchange from one size to the next.         *)
LEMMA LevelHead ==
  ASSUME TypeInv, NEW kind, Handled(kind), NEW L, Level(feed, L, held)
  PROVE  L[0] \in Nat /\ L[1] \in Nat /\ Headed(L[0], L[1])
<1>1. /\ 1 \in 1..Len(feed) /\ Head(feed) = feed[1] /\ feed' = Tail(feed)
      /\ Len(feed) \in Nat
      /\ 2 \in 1..Len(feed) => 1 \in 1..Len(feed') /\ feed'[1] = feed[2]
  <2>1. /\ feed \in Seq(Messages) /\ feed # <<>> /\ feed' = Tail(feed) /\ Head(feed) = feed[1]
    BY DEF TypeInv, Handled
  <2>2. \A i \in 1..Len(feed) : i = 1 \/ (i - 1 \in 1..Len(Tail(feed)) /\ Tail(feed)[i - 1] = feed[i])
    BY <2>1, TailFacts
  <2>3. 2 \in 1..Len(feed) => 2 - 1 \in 1..Len(Tail(feed)) /\ Tail(feed)[2 - 1] = feed[2]
    BY <2>2
  <2> QED
    BY <2>1, <2>3, TailFacts
<1>2. L \in [0..Len(feed) -> Nat] /\ Moves(feed, 1, L)
  BY <1>1 DEF Level
<1>3. L[0] \in Nat /\ L[1] \in Nat
  BY <1>1, <1>2
<1>4. 1 - 1 = 0 /\ 1 + 1 = 2
  OBVIOUS
<1>5. Stopping <=> Head(feed).kind = "StopLoss"
  BY <1>1 DEF Stopping
<1>6. 2 \in 1..Len(feed) /\ feed[2].kind = "StopLoss" => Stopping'
  BY <1>1 DEF Stopping
<1> QED
  BY <1>1, <1>2, <1>3, <1>4, <1>5, <1>6 DEF Moves, Headed

(* What a handler makes of one record must account for the size after its  *)
(* message as the old record did for the size before it.                   *)
LEMMA AccountsChange ==
  ASSUME TypeInv, NEW k \in Keys, NEW r \in AllRecords, store' = [store EXCEPT ![k] = r],
         overlapped' = (overlapped \/ Cardinality(OpenKeys \cup {k}) > 1),
         NEW a \in Nat, NEW b \in Nat, Accounts(a),
         \/ Stopping'
         \/ \A c \in Nat :
              Stopping \/ c + (IF k \in OpenKeys THEN Sure(store[k]) ELSE 0) >= a =>
                c + (IF r.closed THEN 0 ELSE Sure(r)) >= b,
         ~SameSecond =>
           IF k \in OpenKeys
             THEN store[k].cur = a /\ LeftOf(store[k]) = a =>
                    IF r.closed THEN Stopping' \/ b = 0 ELSE r.cur = b /\ LeftOf(r) = b
             ELSE Stopping \/ a = 0 => ~r.closed /\ r.cur = b /\ LeftOf(r) = b
  PROVE  Accounts(b)'
<1>1. IsFiniteSet(OpenKeys) /\ (Stopping \/ Claimed >= a)
  BY DEF Accounts
<1>2. IsFiniteSet(OpenKeys')
  BY <1>1, ClaimedChange
<1>3. Stopping' \/ Claimed' >= b
  <2>1. PICK c \in Nat :
          /\ Claimed = c + IF k \in OpenKeys THEN Sure(store[k]) ELSE 0
          /\ Claimed' = c + IF r.closed THEN 0 ELSE Sure(r)
    BY <1>1, ClaimedChange
  <2> QED
    BY <1>1, <2>1
<1>4. ASSUME ~SameSecond, ~overlapped' PROVE Exact(b)'
  <2>1. ~overlapped /\ ~(Cardinality(OpenKeys \cup {k}) > 1)
    BY <1>4
  <2>2. Exact(a)
    BY <1>4, <2>1 DEF Accounts
  <2>3. OpenKeys \subseteq {k}
    BY <1>1, <2>1, OneOpen
  <2>4. /\ OpenKeys' = IF r.closed THEN OpenKeys \ {k} ELSE OpenKeys \cup {k}
        /\ store'[k] = r
    BY OpenChange
  <2>5. CASE k \in OpenKeys
    <3>1. OpenKeys = {k}
      BY <2>3, <2>5
    <3>2. store[k].cur = a /\ LeftOf(store[k]) = a
      BY <2>2, <3>1 DEF Exact
    <3>3. IF r.closed THEN Stopping' \/ b = 0 ELSE r.cur = b /\ LeftOf(r) = b
      BY <1>4, <2>5, <3>2
    <3>4. r.closed => OpenKeys' = {}
      BY <2>4, <3>1
    <3>5. ~r.closed => OpenKeys' = {k}
      BY <2>4, <3>1
    <3> QED
      BY <2>4, <3>3, <3>4, <3>5 DEF Exact
  <2>6. CASE k \notin OpenKeys
    <3>1. OpenKeys = {}
      BY <2>3, <2>6
    <3>2. Stopping \/ a = 0
      BY <2>2, <3>1 DEF Exact
    <3>3. ~r.closed /\ r.cur = b /\ LeftOf(r) = b
      BY <1>4, <2>6, <3>2
    <3>4. OpenKeys' = {k}
      BY <2>4, <3>1, <3>3
    <3> QED
      BY <2>4, <3>3, <3>4 DEF Exact
  <2> QED
    BY <2>5, <2>6
<1> QED
  BY <1>2, <1>3, <1>4 DEF Accounts

(* More of an entry.                                                       *)
LEMMA AccountsOpen ==
  ASSUME TypeInv, SizeInv, faults = 0, HandleOpen, NEW a \in Nat, NEW b \in Nat,
         Headed(a, b), Accounts(a)
  PROVE  Accounts(b)'
<1> DEFINE k == Head(feed).key
           m == Head(feed)
<1>1. /\ Handled("Open") /\ k \in Keys
      /\ overlapped' = (overlapped \/ Cardinality(OpenKeys \cup {k}) > 1)
  BY OpenHandled
<1>2. PICK r \in AllRecords : Opened(k, r)
  BY OpenHandled
<1>3. m.kind = "Open" /\ m.qty \in Nat \ {0} /\ ~Stopping /\ b = a + m.qty
  BY <1>1, MessageFacts DEF Handled, Headed
<1>4. store' = [store EXCEPT ![k] = r]
  BY <1>2 DEF Opened
<1>5. CASE k \in OpenKeys
  <2>1. store[k] \in AllRecords /\ store[k].cur > 0 /\ LeftOf(store[k]) > 0 /\ ~store[k].closed
    BY <1>5, OpenFacts DEF SizeInv, SizeOK
  <2>2. /\ r.entry = store[k].entry + m.qty /\ r.fills = store[k].fills
        /\ r.cur = store[k].cur + m.qty /\ ~r.closed
    BY <1>2, <1>5, <2>1 DEF Opened
  <2>3. LeftOf(r) = LeftOf(store[k]) + m.qty
    BY <1>3, <2>1, <2>2, EnteredLeft
  <2>4. /\ LeftOf(store[k]) \in Nat /\ store[k].cur \in Nat
        /\ Sure(store[k]) \in Nat /\ Sure(store[k]) <= store[k].cur
        /\ Sure(store[k]) <= LeftOf(store[k])
        /\ Sure(r) = r.cur \/ Sure(r) = LeftOf(r)
    BY <2>1, LeftFacts, RecordFacts, SureFacts
  <2>5. Sure(r) >= Sure(store[k]) + m.qty /\ Sure(r) \in Nat
    BY <1>3, <2>2, <2>3, <2>4, SureFacts
  <2> HIDE DEF k, m
  <2>6. \A c \in Nat : c + Sure(store[k]) >= a => c + Sure(r) >= b
    BY <1>3, <2>4, <2>5
  <2>7. store[k].cur = a /\ LeftOf(store[k]) = a => r.cur = b /\ LeftOf(r) = b
    BY <1>3, <2>2, <2>3
  <2> QED
    BY <1>1, <1>3, <1>4, <1>5, <2>2, <2>6, <2>7, AccountsChange
<1>6. CASE k \notin OpenKeys
  <2>1. r.fills = <<>> /\ r.cur = m.qty /\ r.entry = m.qty /\ ~r.closed
    BY <1>2, <1>6 DEF Opened
  <2>2. LeftOf(r) = m.qty
    BY <2>1, NewLeft
  <2>3. Sure(r) = m.qty
    BY <2>1, <2>2, SureFacts
  <2> HIDE DEF k, m
  <2>4. \A c \in Nat : c + 0 >= a => c + Sure(r) >= b
    BY <1>3, <2>3
  <2>5. a = 0 => r.cur = b /\ LeftOf(r) = b
    BY <1>3, <2>1, <2>2
  <2> QED
    BY <1>1, <1>3, <1>4, <1>6, <2>1, <2>4, <2>5, AccountsChange
<1> QED
  BY <1>5, <1>6

(* A part or all of the position is closed.                                *)
LEMMA AccountsClose ==
  ASSUME TypeInv, Clean, Fresh, faults = 0, HandleClose, NEW a \in Nat, NEW b \in Nat,
         Headed(a, b), Accounts(a)
  PROVE  Accounts(b)'
<1> DEFINE m == Head(feed)
<1>1. Handled("Close")
  BY CloseHandled
<1>2. PICK k \in OpenKeys, r \in AllRecords, full \in BOOLEAN, stop \in BOOLEAN :
        /\ overlapped' = (overlapped \/ Cardinality(OpenKeys \cup {k}) > 1)
        /\ Closed(k, r, full, stop)
  BY CloseHandled
<1> DEFINE o == store[k]
           label == IF full THEN <<"Exit", 0>> ELSE <<"Reduce", m.time>>
<1>3. /\ m.kind = "Close" /\ m.qty \in Nat \ {0} /\ m.time \in Seconds
      /\ ~Stopping /\ a = b + m.qty
  BY <1>1, MessageFacts DEF Handled, Headed, Closing
<1>4. o \in AllRecords /\ k \in Keys
  BY OpenFacts
<1>5. /\ store' = [store EXCEPT ![k] = r]
      /\ full <=> Sure(o) <= m.qty
      /\ r.closed = full /\ r.entry = o.entry
      /\ r.cur = IF full THEN 0 ELSE Sure(o) - m.qty
      /\ r.fills = Booked(o.fills, label, m.qty)
  BY <1>2 DEF Closed
<1>6. /\ label \in Labels
      /\ label \in {<<"Exit", 0>>, <<"SL", 0>>} \cup ({"TP", "Reduce"} \X {m.time})
  BY <1>3 DEF Labels
<1>7. ~SameSecond => label \notin DOMAIN o.fills
  <2> HIDE DEF label
  <2> QED
    BY <1>1, <1>6, NewLabel DEF Closing
<1> HIDE DEF label, m, o
<1>8. /\ LeftOf(r) \in Nat
      /\ LeftOf(r) >= LeftOf(o) - m.qty
      /\ label \notin DOMAIN o.fills /\ LeftOf(o) >= m.qty => LeftOf(r) = LeftOf(o) - m.qty
  BY <1>3, <1>4, <1>5, <1>6, BookedLeft
<1>9. /\ LeftOf(o) \in Nat /\ o.cur \in Nat /\ Sure(o) \in Nat
      /\ Sure(o) <= o.cur /\ Sure(o) <= LeftOf(o) /\ (Sure(o) = o.cur \/ Sure(o) = LeftOf(o))
      /\ Sure(r) \in Nat /\ (Sure(r) = r.cur \/ Sure(r) = LeftOf(r))
  BY <1>4, LeftFacts, RecordFacts, SureFacts
<1>10. ~full => Sure(r) >= Sure(o) - m.qty
  BY <1>3, <1>5, <1>8, <1>9
<1>11. \A c \in Nat : c + Sure(o) >= a => c + (IF r.closed THEN 0 ELSE Sure(r)) >= b
  <2>1. CASE full
    BY <1>3, <1>5, <1>9, <2>1
  <2>2. CASE ~full
    BY <1>3, <1>5, <1>9, <1>10, <2>2
  <2> QED
    BY <2>1, <2>2
<1>12. ASSUME ~SameSecond, o.cur = a, LeftOf(o) = a
       PROVE  IF r.closed THEN b = 0 ELSE r.cur = b /\ LeftOf(r) = b
  <2>1. Sure(o) = a
    BY <1>9, <1>12
  <2>2. CASE full
    BY <1>3, <1>5, <2>1, <2>2
  <2>3. CASE ~full
    <3>1. LeftOf(r) = b
      BY <1>3, <1>7, <1>8, <1>12
    <3> QED
      BY <1>3, <1>5, <2>1, <2>3, <3>1
  <2> QED
    BY <2>2, <2>3
<1> QED
  BY <1>2, <1>3, <1>4, <1>5, <1>11, <1>12, AccountsChange DEF o

(* A take profit of a part or all of the position.                         *)
LEMMA AccountsTakeProfit ==
  ASSUME TypeInv, Clean, Fresh, faults = 0, HandleTakeProfit, NEW a \in Nat, NEW b \in Nat,
         Headed(a, b), Accounts(a)
  PROVE  Accounts(b)'
<1> DEFINE m == Head(feed)
<1>1. Handled("TakeProfit")
  BY TakeProfitHandled
<1>2. PICK k \in OpenKeys, d \in AllRecords, r \in AllRecords :
        /\ overlapped' = (overlapped \/ Cardinality(OpenKeys \cup {k}) > 1)
        /\ TookProfit(k, d, r)
  BY TakeProfitHandled
<1> DEFINE o == store[k]
           label == <<"TP", m.time>>
<1>3. /\ m.kind = "TakeProfit" /\ m.qty \in Nat \ {0} /\ m.time \in Seconds
      /\ ~Stopping /\ a = b + m.qty
  BY <1>1, MessageFacts DEF Handled, Headed, Closing
<1>4. o \in AllRecords /\ k \in Keys
  BY OpenFacts
<1>5. /\ store' = [store EXCEPT ![k] = r]
      /\ r.entry = o.entry /\ d.entry = o.entry
      /\ d.fills = Booked(o.fills, label, m.qty) /\ r.fills = d.fills
      /\ d.cur = Least(o.cur, LeftOf(d)) /\ r.cur = d.cur
      /\ r.closed = (r.cur = 0)
  BY <1>2 DEF TookProfit
<1>6. /\ label \in Labels
      /\ label \in {<<"Exit", 0>>, <<"SL", 0>>} \cup ({"TP", "Reduce"} \X {m.time})
  BY <1>3 DEF Labels
<1>7. ~SameSecond => label \notin DOMAIN o.fills
  <2> HIDE DEF label
  <2> QED
    BY <1>1, <1>6, NewLabel DEF Closing
<1> HIDE DEF label, m, o
<1>8. /\ LeftOf(r) \in Nat
      /\ LeftOf(r) >= LeftOf(o) - m.qty
      /\ label \notin DOMAIN o.fills /\ LeftOf(o) >= m.qty => LeftOf(r) = LeftOf(o) - m.qty
  <2>1. r.fills = Booked(o.fills, label, m.qty)
    BY <1>5
  <2> QED
    BY <1>3, <1>4, <1>5, <1>6, <2>1, BookedLeft
<1>9. /\ LeftOf(o) \in Nat /\ o.cur \in Nat /\ Sure(o) \in Nat
      /\ Sure(o) <= o.cur /\ Sure(o) <= LeftOf(o) /\ (Sure(o) = o.cur \/ Sure(o) = LeftOf(o))
      /\ Sure(r) \in Nat /\ (Sure(r) = r.cur \/ Sure(r) = LeftOf(r))
  BY <1>4, LeftFacts, RecordFacts, SureFacts
<1>10. r.cur = Least(o.cur, LeftOf(r))
  <2>1. LeftOf(r) = LeftOf(d)
    BY <1>5 DEF LeftOf
  <2> QED
    BY <1>5, <2>1
<1>11. Sure(r) >= Sure(o) - m.qty /\ (r.cur = 0 => Sure(o) <= m.qty)
  BY <1>3, <1>8, <1>9, <1>10 DEF Least
<1>12. \A c \in Nat : c + Sure(o) >= a => c + (IF r.closed THEN 0 ELSE Sure(r)) >= b
  <2>1. CASE r.cur = 0
    BY <1>3, <1>5, <1>9, <1>11, <2>1
  <2>2. CASE r.cur # 0
    <3>1. ~r.closed
      BY <1>5, <2>2
    <3>2. \A c \in Nat : c + Sure(o) >= a => c + Sure(r) >= b
      BY <1>3, <1>9, <1>11
    <3> QED
      BY <3>1, <3>2
  <2> QED
    BY <2>1, <2>2
<1>13. ASSUME ~SameSecond, o.cur = a, LeftOf(o) = a
       PROVE  IF r.closed THEN b = 0 ELSE r.cur = b /\ LeftOf(r) = b
  <2>1. LeftOf(r) = b
    BY <1>3, <1>7, <1>8, <1>13
  <2>2. r.cur = b
    BY <1>3, <1>10, <1>13, <2>1 DEF Least
  <2> QED
    BY <1>5, <2>1, <2>2
<1> QED
  BY <1>2, <1>3, <1>4, <1>5, <1>12, <1>13, AccountsChange DEF o

(* The stop loss: this fill or one that follows takes the rest.            *)
LEMMA AccountsStopLoss ==
  ASSUME TypeInv, HandleStopLoss, NEW a \in Nat, NEW b \in Nat, Headed(a, b), Accounts(a)
  PROVE  Accounts(b)'
<1>1. Handled("StopLoss")
  BY StopLossHandled
<1>2. PICK k \in OpenKeys, r \in AllRecords :
        /\ overlapped' = (overlapped \/ Cardinality(OpenKeys \cup {k}) > 1)
        /\ Stopped(k, r)
  BY StopLossHandled
<1>3. b = 0 \/ Stopping'
  BY <1>1 DEF Handled, Headed
<1>4. store' = [store EXCEPT ![k] = r] /\ r.closed
  BY <1>2 DEF Stopped
<1>5. k \in Keys /\ Sure(store[k]) \in Nat
  BY OpenFacts, SureFacts
<1>6. Stopping' \/ \A c \in Nat : c + 0 >= b
  BY <1>3
<1> QED
  BY <1>2, <1>3, <1>4, <1>5, <1>6, AccountsChange

(* The exchange's own report of the size.                                  *)
LEMMA AccountsPosition ==
  ASSUME TypeInv, HandlePosition, NEW a \in Nat, NEW b \in Nat, Headed(a, b), Accounts(a)
  PROVE  Accounts(b)'
<1> DEFINE size == Head(feed).qty
<1>1. Handled("Position")
  BY PositionHandled
<1>2. ~Stopping /\ b = a /\ size = a
  BY <1>1 DEF Handled, Headed
<1> HIDE DEF size
<1>3. CASE UNCHANGED <<store, todo, overlapped>>
  <2>1. UNCHANGED <<OpenKeys, Claimed>>
    BY <1>3 DEF OpenKeys, IsOpen, Claimed, Sures
  <2>2. IsFiniteSet(OpenKeys) /\ Claimed >= a
    BY <1>2 DEF Accounts
  <2>3. ~SameSecond /\ ~overlapped' => Exact(b)'
    <3>1. ~SameSecond /\ ~overlapped' => Exact(a)
      BY <1>3 DEF Accounts
    <3> QED
      BY <1>2, <1>3, <2>1, <3>1 DEF Exact
  <2> QED
    BY <1>2, <2>1, <2>2, <2>3 DEF Accounts
<1>4. CASE \E k \in OpenKeys, r \in AllRecords :
             /\ overlapped' = (overlapped \/ Cardinality(OpenKeys \cup {k}) > 1)
             /\ store[k].cur # Head(feed).qty
             /\ Resized(k, r)
  <2>1. PICK k \in OpenKeys, r \in AllRecords :
          /\ overlapped' = (overlapped \/ Cardinality(OpenKeys \cup {k}) > 1)
          /\ store[k].cur # Head(feed).qty
          /\ Resized(k, r)
    BY <1>4
  <2>2. store[k] \in AllRecords /\ k \in Keys /\ ~store[k].closed
    BY OpenFacts
  <2>3. /\ store' = [store EXCEPT ![k] = r] /\ ~r.closed
        /\ r.entry = store[k].entry /\ r.fills = store[k].fills /\ r.cur = size
        /\ store[k].cur # size
    BY <2>1, <2>2 DEF Resized, size
  <2>4. LeftOf(r) = LeftOf(store[k])
    BY <2>3 DEF LeftOf
  <2>5. /\ Sure(store[k]) \in Nat /\ Sure(store[k]) <= LeftOf(store[k])
        /\ LeftOf(store[k]) \in Nat
        /\ Sure(r) \in Nat /\ (Sure(r) = r.cur \/ Sure(r) = LeftOf(r))
    BY <2>2, SureFacts, LeftFacts
  <2>6. \A c \in Nat : c + Sure(store[k]) >= a => c + Sure(r) >= b
    BY <1>2, <2>3, <2>4, <2>5
  <2>7. store[k].cur # a
    BY <1>2, <2>3
  <2> QED
    BY <1>2, <2>1, <2>2, <2>3, <2>6, <2>7, AccountsChange
<1> QED
  BY <1>3, <1>4, PositionHandled

(* A closing fill is skipped only when nothing is left to close, or in the *)
(* middle of a stop loss.                                                  *)
LEMMA AccountsSkip ==
  ASSUME TypeInv, NEW kind \in Closing, Skip(kind, CloseTargets), NEW a \in Nat, NEW b \in Nat,
         Headed(a, b), Accounts(a)
  PROVE  Accounts(b)'
<1>1. Handled(kind) /\ UNCHANGED <<store, todo, overlapped>> /\ OpenKeys = {}
  BY SkipHandled
<1>2. OpenKeys' = {} /\ IsFiniteSet({})
  BY <1>1, FS_EmptySet DEF OpenKeys, IsOpen
<1>3. Claimed = 0 /\ Claimed' = 0
  BY <1>1, <1>2, SumStep DEF Claimed
<1>4. a = b + Head(feed).qty /\ Head(feed).qty \in Nat \ {0} /\ Head(feed).kind = kind
  BY <1>1, MessageFacts DEF Handled, Headed, Closing
<1>5. kind = "StopLoss"
  <2> SUFFICES ASSUME ~Stopping PROVE FALSE
    BY <1>4 DEF Headed
  <2>1. 0 >= a
    BY <1>3 DEF Accounts
  <2> QED
    BY <1>4, <2>1
<1>6. b = 0 \/ Stopping'
  BY <1>4, <1>5 DEF Headed
<1>7. Exact(b)'
  BY <1>2, <1>6 DEF Exact
<1> QED
  BY <1>2, <1>3, <1>6, <1>7 DEF Accounts

(* Nothing is held at first.                                               *)
LEMMA AccountInit ==
  ASSUME Init
  PROVE  Account
<1> DEFINE L == [i \in 0..0 |-> 0]
<1>1. Len(feed) = 0 /\ held = 0 /\ OpenKeys = {}
  BY DEF Init, OpenKeys, IsOpen
<1>2. L \in [0..0 -> Nat] /\ L[0] = 0
  OBVIOUS
<1> HIDE DEF L
<1>3. Level(feed, L, held)
  BY <1>1, <1>2 DEF Level
<1>4. IsFiniteSet({}) /\ Claimed = 0
  BY <1>1, FS_EmptySet, SumStep DEF Claimed
<1>5. Accounts(L[0])
  BY <1>1, <1>2, <1>4 DEF Accounts, Exact
<1> QED
  BY <1>3, <1>5 DEF Account

(* Every order is accounted for while it is on its way.                    *)
LEMMA AccountStep ==
  ASSUME TypeInv, SizeInv, Clean, Fresh, Account, [Next]_vars
  PROVE  Account'
<1> SUFFICES ASSUME faults' = 0, ~PositionFirst
             PROVE  \E L : Level(feed', L, held') /\ Accounts(L[0])'
  BY DEF Account, Level, Moves
<1>1. /\ faults = 0 /\ up
      /\ Exchange \/ Handler \/ Write \/ UNCHANGED vars
  BY QuietStep
<1>2. PICK L : Level(feed, L, held) /\ Accounts(L[0])
  BY <1>1 DEF Account
<1>3. CASE Exchange
  <2>1. PICK kind \in Closing \cup {"Open"}, k \in Keys \cup {None}, n \in Nat \ {0},
             outside \in BOOLEAN :
          \E X : /\ Ordered(kind, k, n, held')
                 /\ Reported(kind, k, n, held', outside, X)
                 /\ feed' = IF up THEN feed \o X ELSE feed
    BY <1>3, ExchangeFacts
  <2>2. PICK X : /\ Ordered(kind, k, n, held')
                 /\ Reported(kind, k, n, held', outside, X)
                 /\ feed' = IF up THEN feed \o X ELSE feed
    BY <2>1
  <2>3. held' \in Nat /\ UNCHANGED <<store, overlapped>>
    BY <1>3, ExchangeFacts
  <2>4. Ordered(kind, k, n, held') /\ Reported(kind, k, n, held', outside, X)
    BY <2>2
  <2>5. \E M : Level(X, M, held') /\ M[0] = held
    BY <2>3, <2>4, LevelReported
  <2>6. PICK M : Level(X, M, held') /\ M[0] = held
    BY <2>5
  <2>7. X \in Seq(Messages)
    BY <2>4, ReportedMessages
  <2>8. feed \in Seq(Messages) /\ feed' = feed \o X /\ Level(feed, L, M[0])
    BY <1>1, <1>2, <2>2, <2>6 DEF TypeInv
  <2>9. PICK K : Level(feed \o X, K, held') /\ K[0] = L[0]
    BY <2>6, <2>7, <2>8, LevelJoin
  <2>10. Stopping => Stopping'
    <3>1. 1 \in 1..Len(feed) => feed'[1] = feed[1] /\ 1 \in 1..Len(feed')
      BY <2>7, <2>8, AppendFacts
    <3> QED
      BY <3>1 DEF Stopping
  <2>11. UNCHANGED <<OpenKeys, Claimed>>
    BY <2>3 DEF OpenKeys, IsOpen, Claimed, Sures
  <2>12. ASSUME NEW a, Accounts(a) PROVE Accounts(a)'
    <3>1. ~SameSecond /\ ~overlapped' => Exact(a)'
      <4>1. ~SameSecond /\ ~overlapped' => Exact(a)
        BY <2>3, <2>12 DEF Accounts
      <4> QED
        BY <2>3, <2>10, <2>11, <4>1 DEF Exact
    <3> QED
      BY <2>10, <2>11, <2>12, <3>1 DEF Accounts
  <2> QED
    BY <1>2, <2>8, <2>9, <2>12
<1>4. CASE Handler
  <2>1. PICK kind : Handled(kind) /\ UNCHANGED held
    BY <1>1, <1>4, HandlerChange DEF Clean
  <2>2. L[0] \in Nat /\ L[1] \in Nat /\ Headed(L[0], L[1])
    BY <1>2, <2>1, LevelHead
  <2>3. feed \in Seq(Messages) /\ feed # <<>> /\ feed' = Tail(feed)
    BY <2>1 DEF TypeInv, Handled
  <2>4. PICK K : Level(Tail(feed), K, held) /\ K[0] = L[1]
    BY <1>2, <2>3, LevelTail
  <2>5. ASSUME NEW a \in Nat, NEW b \in Nat, Headed(a, b), Accounts(a) PROVE Accounts(b)'
    <3>1. CASE \E skipped \in {"Close", "TakeProfit", "StopLoss"} : Skip(skipped, CloseTargets)
      BY <2>5, <3>1, AccountsSkip DEF Closing
    <3> QED
      BY <1>1, <1>4, <2>5, <3>1, AccountsOpen, AccountsClose, AccountsTakeProfit,
         AccountsStopLoss, AccountsPosition DEF Handler
  <2>6. \A a, b \in Nat : Headed(a, b) /\ Accounts(a) => Accounts(b)'
    BY <2>5
  <2>7. \A b \in Nat : b = L[1] => Accounts(b)'
    BY <1>2, <2>2, <2>6
  <2> QED
    BY <2>1, <2>2, <2>3, <2>4, <2>7
<1>5. CASE Write \/ UNCHANGED vars
  <2>1. UNCHANGED <<feed, held, store, overlapped>>
    BY <1>5 DEF Write, exchangeVars, vars
  <2>2. UNCHANGED <<OpenKeys, Claimed, Stopping>>
    BY <2>1 DEF OpenKeys, IsOpen, Claimed, Sures, Stopping
  <2>3. ASSUME NEW a, Accounts(a) PROVE Accounts(a)'
    BY <2>1, <2>2, <2>3 DEF Accounts, Exact
  <2> QED
    BY <1>2, <2>1, <2>3
<1> QED
  BY <1>1, <1>3, <1>4, <1>5

(* Account always holds.                                                   *)
LEMMA AccountSpec == Spec => []Account
<1>1. Init => Account
  BY AccountInit
<1>2. TypeInv /\ SizeInv /\ Clean /\ Fresh /\ Account /\ [Next]_vars => Account'
  BY AccountStep
<1> QED
  BY <1>1, <1>2, TypeSpec, SizeSpec, CleanSpec, FreshSpec, PTL DEF Spec

(* What an idle bot's records account for.                                 *)
LEMMA IdleAccounts ==
  ASSUME TypeInv, SizeInv, Account, ~PositionFirst, Idle, NothingLost
  PROVE  /\ SizeOf(OpenKeys) >= held
         /\ ~SameSecond /\ ~overlapped =>
              /\ SizeOf(OpenKeys) = held
              /\ \A k \in OpenKeys : store[k].cur = held
<1> DEFINE f == [k \in Keys |-> IF store[k] = None THEN 0 ELSE LeftOf(store[k])]
<1>1. PICK L : Level(feed, L, held) /\ Accounts(L[0])
  BY DEF Account, NothingLost
<1>2. Len(feed) = 0 /\ L[0] = held /\ held \in Nat /\ ~Stopping
  BY <1>1 DEF Idle, Level, Stopping, TypeInv
<1>3. Accounts(held)
  BY <1>1, <1>2
<1>4. IsFiniteSet(OpenKeys) /\ Claimed >= held
  BY <1>2, <1>3 DEF Accounts
<1>5. SizeOf(OpenKeys) = SumFunctionOnSet(f, OpenKeys)
  BY DEF SizeOf
<1>6. ASSUME NEW k \in OpenKeys
      PROVE  /\ Sures[k] \in Nat /\ f[k] \in Nat /\ Sures[k] <= f[k]
             /\ f[k] = LeftOf(store[k])
  <2>1. k \in Keys /\ store[k] # None /\ store[k] \in AllRecords
    BY OpenFacts
  <2>2. Sures[k] = Sure(store[k]) /\ f[k] = LeftOf(store[k])
    BY <2>1 DEF Sures
  <2>3. Sure(store[k]) \in Nat /\ LeftOf(store[k]) \in Nat /\ Sure(store[k]) <= LeftOf(store[k])
    BY <2>1, SureFacts, LeftFacts
  <2> QED
    BY <2>2, <2>3
<1> HIDE DEF f
<1>7. /\ SumFunctionOnSet(Sures, OpenKeys) \in Nat
      /\ SumFunctionOnSet(f, OpenKeys) \in Nat
      /\ SumFunctionOnSet(Sures, OpenKeys) <= SumFunctionOnSet(f, OpenKeys)
  BY <1>4, <1>6, SumLarger
<1>8. SizeOf(OpenKeys) >= held
  BY <1>2, <1>4, <1>5, <1>7 DEF Claimed
<1>9. ASSUME ~SameSecond, ~overlapped
      PROVE  SizeOf(OpenKeys) = held /\ \A k \in OpenKeys : store[k].cur = held
  <2>1. Exact(held)
    BY <1>3, <1>9 DEF Accounts
  <2>2. CASE OpenKeys = {}
    <3>1. held = 0
      BY <1>2, <2>1, <2>2 DEF Exact
    <3>2. SumFunctionOnSet(f, OpenKeys) = 0
      BY <1>4, <2>2, SumStep
    <3> QED
      BY <1>5, <2>2, <3>1, <3>2
  <2>3. CASE \E k \in Keys : OpenKeys = {k} /\ store[k].cur = held /\ LeftOf(store[k]) = held
    <3>1. PICK k \in Keys : OpenKeys = {k} /\ store[k].cur = held /\ LeftOf(store[k]) = held
      BY <2>3
    <3>2. f[k] = held
      BY <1>6, <3>1
    <3>3. SumFunctionOnSet(f, {k}) = f[k]
      BY <1>2, <3>2, SumOne
    <3> QED
      BY <1>5, <3>1, <3>2, <3>3
  <2> QED
    BY <2>1, <2>2, <2>3 DEF Exact
<1> QED
  BY <1>8, <1>9

(* With nothing lost the open records together never have less left than   *)
(* the exchange holds, and the one there is has its size exactly: when the *)
(* size is reported after the fills and every fill has a second of its own.*)
THEOREM TracksExchangeHolds ==
  ASSUME ~SameSecond, ~PositionFirst
  PROVE  Spec => []TracksExchange
<1>1. TypeInv /\ SizeInv /\ Account => TracksExchange
  BY IdleAccounts DEF TracksExchange
<1> QED
  BY <1>1, TypeSpec, SizeSpec, AccountSpec, PTL

(* A position the exchange holds is never forgotten, even when the fills   *)
(* of one order carry the same second: records may keep too much, never    *)
(* too little.                                                             *)
NeverLess == Idle /\ NothingLost => SizeOf(OpenKeys) >= held

(* So it is as long as the size is not reported before the fills that led  *)
(* to it; whatever the seconds of the fills.                               *)
THEOREM NeverLessHolds ==
  ASSUME ~PositionFirst
  PROVE  Spec => []NeverLess
<1>1. TypeInv /\ SizeInv /\ Account => NeverLess
  BY IdleAccounts DEF NeverLess
<1> QED
  BY <1>1, TypeSpec, SizeSpec, AccountSpec, PTL

(* The two findings about these records have one cause each.  A flat side  *)
(* is left open only by fills of one order with the same second, or by a   *)
(* size that overtakes them.                                               *)
THEOREM FlatIsClosedHolds ==
  ASSUME ~SameSecond, ~PositionFirst
  PROVE  Spec => []FlatIsClosed
<1>1. TypeInv /\ SizeInv /\ Account => FlatIsClosed
  <2> SUFFICES ASSUME TypeInv, SizeInv, Account, Idle, NothingLost, ~overlapped, held = 0,
                      NEW k \in OpenKeys
               PROVE  FALSE
    BY DEF FlatIsClosed
  <2>1. store[k].cur = 0
    BY IdleAccounts
  <2>2. store[k].cur > 0
    BY DEF SizeInv, SizeOK, NothingLost
  <2> QED
    BY <2>1, <2>2
<1> QED
  BY <1>1, TypeSpec, SizeSpec, AccountSpec, PTL

(* A position the exchange still holds loses its record only to a size     *)
(* that overtakes the fills.                                               *)
THEOREM HeldIsOpenHolds ==
  ASSUME ~PositionFirst
  PROVE  Spec => []HeldIsOpen
<1>1. TypeInv /\ SizeInv /\ Account => HeldIsOpen
  <2> SUFFICES ASSUME TypeInv, SizeInv, Account, Idle, NothingLost, held > 0, OpenKeys = {}
               PROVE  FALSE
    BY DEF HeldIsOpen
  <2>1. SizeOf(OpenKeys) >= held /\ held \in Nat
    BY IdleAccounts DEF TypeInv
  <2>2. SizeOf(OpenKeys) = 0
    BY FS_EmptySet, SumStep DEF SizeOf
  <2> QED
    BY <2>1, <2>2
<1> QED
  BY <1>1, TypeSpec, SizeSpec, AccountSpec, PTL
=============================================================================
