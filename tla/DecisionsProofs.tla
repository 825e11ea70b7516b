-------------------------- MODULE DecisionsProofs ---------------------------
(***************************************************************************)
(* The answers of the parts that keep no state, for every input they can   *)
(* be given: the footprint of a sequence, the search space suggested from  *)
(* a model and what is left of a suggestion, the capacity shown against    *)
(* the risk a trial is skipped for and against what vLLM measured, the     *)
(* verdicts on a benchmark, what a sweep recommends, how trials are        *)
(* ranked, what a retried call sends and waits for, argument lists and CRs *)
(* after a change, and the latencies shown of a target.                    *)
(*                                                                         *)
(* A question never changes once it is asked, so each theorem is a fact    *)
(* about one answer.  The work is in the arithmetic (least and greatest    *)
(* elements, quotients, multiples, sums over finite sets) and in what the  *)
(* folds and recursive functions of the model are: that there is one, by   *)
(* induction over its domain, and then what it gives.                      *)
(***************************************************************************)
EXTENDS Decisions, FiniteSetTheorems, SequenceTheorems, WellFoundedInduction, TLAPS

-----------------------------------------------------------------------------
(* Least and greatest elements, quotients                                  *)

\* A set of naturals has a least element.
LEMMA LeastExists ==
  ASSUME NEW S \in SUBSET Nat, S # {}
  PROVE  \E x \in S : \A y \in S : x <= y
<1> DEFINE R == OpToRel(<, Nat)
<1>1. IsWellFoundedOn(R, Nat)
  BY NatLessThanWellFounded
<1>2. \E x \in S : \A y \in S : <<y, x>> \notin R
  <2> HIDE DEF R
  <2> QED BY <1>1, WFMin
<1>3. \A x, y \in Nat : <<y, x>> \notin R => x <= y
  BY DEF OpToRel
<1> QED BY <1>2, <1>3

\* Min of FiniteSetsExt is the least element,
LEMMA MinProp ==
  ASSUME NEW S \in SUBSET Nat, S # {}
  PROVE  Min(S) \in S /\ \A y \in S : Min(S) <= y
BY LeastExists DEF Min

\* and Max, of a bounded set, the greatest: n less it is the least difference.
LEMMA MaxProp ==
  ASSUME NEW S \in SUBSET Nat, S # {}, NEW n \in Nat, \A x \in S : x <= n
  PROVE  Max(S) \in S /\ \A y \in S : y <= Max(S)
<1> DEFINE T == {n - x : x \in S}
<1>1. T \in SUBSET Nat
  <2> SUFFICES ASSUME NEW x \in S PROVE n - x \in Nat
    OBVIOUS
  <2> QED OBVIOUS
<1>a. T # {}
  <2> PICK x \in S : TRUE
    OBVIOUS
  <2>1. n - x \in T
    OBVIOUS
  <2> QED BY <2>1
<1>2. PICK m \in T : \A y \in T : m <= y
  BY <1>1, <1>a, LeastExists
<1>3. PICK x \in S : m = n - x
  OBVIOUS
<1>4. \A y \in S : x >= y
  <2> TAKE y \in S
  <2>1. n - y \in T OBVIOUS
  <2> QED BY <2>1, <1>2, <1>3
<1> QED BY <1>4 DEF Max

\* A quotient is the last multiple that is not beyond the dividend.
LEMMA DivProp ==
  ASSUME NEW n \in Int, NEW k \in Nat, k > 0
  PROVE  /\ n \div k \in Int
         /\ (n \div k) * k <= n
         /\ n < (n \div k) * k + k
         /\ n % k = n - (n \div k) * k
OBVIOUS

-----------------------------------------------------------------------------
(* Induction, and sums over finite sets                                    *)

\* What holds of 0 and passes from a number to the next holds of all: there
\* is no least number of which it does not hold.
LEMMA Induction ==
  ASSUME NEW S, 0 \in S, \A n \in Nat : n \in S => n + 1 \in S
  PROVE  \A n \in Nat : n \in S
<1> SUFFICES ASSUME NEW n \in Nat, n \notin S PROVE FALSE
  OBVIOUS
<1>1. PICK m \in Nat \ S : \A k \in Nat \ S : m <= k
  BY LeastExists
<1>2. m - 1 \in Nat /\ m - 1 \in S
  BY <1>1
<1> QED BY <1>1, <1>2

Chosen(s) == CHOOSE x \in s : TRUE

\* The equation of a sum over the subsets of D, for those of at most n elements.
SumsTo(F, f, D, n) ==
  \A s \in SUBSET D : Cardinality(s) <= n =>
    F[s] = IF s = {} THEN 0 ELSE f[Chosen(s)] + F[s \ {Chosen(s)}]

\* Taking an element from a set leaves one element less,
LEMMA Subsets ==
  ASSUME NEW D, IsFiniteSet(D), NEW s \in SUBSET D
  PROVE  /\ IsFiniteSet(s) /\ Cardinality(s) \in Nat /\ Cardinality(s) <= Cardinality(D)
         /\ Cardinality(s) = 0 <=> s = {}
         /\ s # {} => /\ Chosen(s) \in s /\ s \ {Chosen(s)} \in SUBSET D
                      /\ Cardinality(s \ {Chosen(s)}) = Cardinality(s) - 1
BY FS_Subset, FS_CardinalityType, FS_EmptySet, FS_RemoveElement DEF Chosen

\* whichever it is.
LEMMA LessOne ==
  ASSUME NEW D, IsFiniteSet(D), NEW s \in SUBSET D, NEW x \in s, NEW n, Cardinality(s) = n
  PROVE  n \in Nat \ {0} /\ s \ {x} \in SUBSET D /\ Cardinality(s \ {x}) = n - 1
<1>1. IsFiniteSet(s) /\ n \in Nat /\ s # {}
  BY Subsets
<1>2. n # 0
  BY <1>1, FS_EmptySet
<1> QED BY <1>1, <1>2, FS_RemoveElement

\* Sums of n elements give those of one more,
LEMMA SumsStep ==
  ASSUME NEW D, IsFiniteSet(D), NEW f, \A x \in D : f[x] \in Int,
         NEW n \in Nat, NEW F \in [SUBSET D -> Int], SumsTo(F, f, D, n)
  PROVE  \E G \in [SUBSET D -> Int] : SumsTo(G, f, D, n + 1)
<1>1. PICK G : G = [s \in SUBSET D |-> IF Cardinality(s) = n + 1
                                       THEN f[Chosen(s)] + F[s \ {Chosen(s)}] ELSE F[s]]
  OBVIOUS
<1>2. ASSUME NEW s \in SUBSET D
      PROVE  /\ G[s] \in Int
             /\ Cardinality(s) <= n + 1 =>
                  G[s] = IF s = {} THEN 0 ELSE f[Chosen(s)] + G[s \ {Chosen(s)}]
  <2>1. PICK c \in Nat : /\ c = Cardinality(s)
                         /\ c = 0 <=> s = {}
                         /\ s # {} => /\ Chosen(s) \in s /\ s \ {Chosen(s)} \in SUBSET D
                                      /\ Cardinality(s \ {Chosen(s)}) = c - 1
    BY Subsets
  <2>2. c <= n => F[s] = IF s = {} THEN 0 ELSE f[Chosen(s)] + F[s \ {Chosen(s)}]
    BY <2>1 DEF SumsTo
  <2>3. G[s] = IF c = n + 1 THEN f[Chosen(s)] + F[s \ {Chosen(s)}] ELSE F[s]
    BY <1>1, <2>1
  <2>4. (s # {} /\ c <= n + 1) => G[s \ {Chosen(s)}] = F[s \ {Chosen(s)}]
    BY <1>1, <2>1
  <2>5. G[s] \in Int
    BY <2>1, <2>3
  <2>6. c <= n + 1 => G[s] = IF s = {} THEN 0 ELSE f[Chosen(s)] + G[s \ {Chosen(s)}]
    BY <2>1, <2>2, <2>3, <2>4
  <2> QED BY <2>1, <2>5, <2>6
<1>3. G \in [SUBSET D -> Int]
  BY <1>1, <1>2
<1> QED BY <1>2, <1>3 DEF SumsTo

\* so there are sums of all subsets,
LEMMA SumsExist ==
  ASSUME NEW D, IsFiniteSet(D), NEW f, \A x \in D : f[x] \in Int
  PROVE  \E F \in [SUBSET D -> Int] : SumsTo(F, f, D, Cardinality(D))
<1> DEFINE Exist(n) == \E F \in [SUBSET D -> Int] : SumsTo(F, f, D, n)
           N == {n \in Nat : Exist(n)}
<1>1. 0 \in N
  <2>1. PICK F : F = [s \in SUBSET D |-> 0]
    OBVIOUS
  <2>2. SumsTo(F, f, D, 0)
    <3> SUFFICES ASSUME NEW s \in SUBSET D, Cardinality(s) <= 0
                 PROVE  F[s] = IF s = {} THEN 0 ELSE f[Chosen(s)] + F[s \ {Chosen(s)}]
      BY DEF SumsTo
    <3>1. Cardinality(s) \in Nat /\ (Cardinality(s) = 0 <=> s = {})
      BY Subsets
    <3> QED BY <3>1, <2>1
  <2> QED BY <2>1, <2>2
<1>2. \A n \in Nat : n \in N => n + 1 \in N
  <2> SUFFICES ASSUME NEW n \in Nat, n \in N PROVE n + 1 \in N
    OBVIOUS
  <2>1. PICK F \in [SUBSET D -> Int] : SumsTo(F, f, D, n)
    OBVIOUS
  <2>2. Exist(n + 1)
    BY <2>1, SumsStep
  <2> HIDE DEF Exist
  <2> QED BY <2>2
<1>3. Cardinality(D) \in N
  <2> HIDE DEF N
  <2> QED BY <1>1, <1>2, Induction, Subsets
<1> QED BY <1>3

\* no two of which differ,
LEMMA SumsUnique ==
  ASSUME NEW D, IsFiniteSet(D), NEW f, NEW F, NEW G, NEW S \in SUBSET D,
         SumsTo(F, f, D, Cardinality(D)), SumsTo(G, f, S, Cardinality(S))
  PROVE  G[S] = F[S]
<1> DEFINE P(n) == \A s \in SUBSET S : Cardinality(s) = n => G[s] = F[s]
           N == {n \in Nat : P(n)}
<1>0. IsFiniteSet(S) /\ \A s \in SUBSET S : s \in SUBSET D
  BY Subsets
<1>a. \A s \in SUBSET S :
        /\ F[s] = IF s = {} THEN 0 ELSE f[Chosen(s)] + F[s \ {Chosen(s)}]
        /\ G[s] = IF s = {} THEN 0 ELSE f[Chosen(s)] + G[s \ {Chosen(s)}]
  BY <1>0, Subsets DEF SumsTo
<1>1. 0 \in N
  BY <1>0, <1>a, Subsets
<1>2. \A n \in Nat : n \in N => n + 1 \in N
  <2> SUFFICES ASSUME NEW n \in Nat, P(n), NEW s \in SUBSET S, Cardinality(s) = n + 1
               PROVE  G[s] = F[s]
    OBVIOUS
  <2>1. s # {} /\ s \ {Chosen(s)} \in SUBSET S /\ Cardinality(s \ {Chosen(s)}) = n
    BY <1>0, Subsets
  <2> QED BY <2>1, <1>a
<1>3. Cardinality(S) \in N
  <2> HIDE DEF N
  <2> QED BY <1>0, <1>1, <1>2, Induction, Subsets
<1> QED BY <1>3

IsSum(F, f, D) ==
  /\ F \in [SUBSET D -> Int]
  /\ SumsTo(F, f, D, Cardinality(D))
  /\ \A S \in SUBSET D : SumFunctionOnSet(f, S) = F[S]

\* and SumFunctionOnSet gives them.
LEMMA SumValue ==
  ASSUME NEW D, IsFiniteSet(D), NEW f, \A x \in D : f[x] \in Int
  PROVE  \E F : IsSum(F, f, D)
<1>1. PICK F \in [SUBSET D -> Int] : SumsTo(F, f, D, Cardinality(D))
  BY SumsExist
<1>2. ASSUME NEW S \in SUBSET D PROVE SumFunctionOnSet(f, S) = F[S]
  <2> DEFINE Is(G) == G = [s \in SUBSET S |->
                             IF s = {} THEN 0
                             ELSE f[CHOOSE x \in s : TRUE] + G[s \ {CHOOSE x \in s : TRUE}]]
  <2>1. PICK G \in [SUBSET S -> Int] : SumsTo(G, f, S, Cardinality(S))
    BY SumsExist, Subsets
  <2>2. Is(G)
    BY <2>1, Subsets DEF SumsTo, Chosen
  <2>3. Is(CHOOSE H : Is(H))
    BY <2>2
  <2>4. PICK H : H = CHOOSE K : Is(K)
    OBVIOUS
  <2>5. SumsTo(H, f, S, Cardinality(S))
    BY <2>3, <2>4 DEF SumsTo, Chosen
  <2>6. H[S] = F[S]
    BY <2>5, <1>1, SumsUnique
  <2>7. SumFunctionOnSet(f, S) = H[S]
    BY <2>4 DEF SumFunctionOnSet, FoldFunctionOnSet, MapThenFoldSet
  <2> QED BY <2>6, <2>7
<1> QED BY <1>1, <1>2 DEF IsSum

\* A sum is 0 for no element, and an element, whichever, beside the others.
LEMMA SumOut ==
  ASSUME NEW D, IsFiniteSet(D), NEW f, \A x \in D : f[x] \in Int
  PROVE  /\ SumFunctionOnSet(f, D) \in Int
         /\ D = {} => SumFunctionOnSet(f, D) = 0
         /\ \A x \in D : /\ SumFunctionOnSet(f, D \ {x}) \in Int
                         /\ SumFunctionOnSet(f, D) = f[x] + SumFunctionOnSet(f, D \ {x})
<1>0. PICK F : IsSum(F, f, D)
  BY SumValue
<1>1. /\ F \in [SUBSET D -> Int]
      /\ SumsTo(F, f, D, Cardinality(D))
      /\ \A S \in SUBSET D : SumFunctionOnSet(f, S) = F[S]
  BY <1>0 DEF IsSum
<1> DEFINE Out(n) == \A s \in SUBSET D : Cardinality(s) = n => \A x \in s : F[s] = f[x] + F[s \ {x}]
           N == {n \in Nat : Out(n)}
<1>2. Out(0)
  BY Subsets
<1>3. ASSUME NEW n \in Nat, Out(n) PROVE Out(n + 1)
  <2> SUFFICES ASSUME NEW s \in SUBSET D, Cardinality(s) = n + 1, NEW x \in s
               PROVE  F[s] = f[x] + F[s \ {x}]
    OBVIOUS
  <2>1. PICK a \in s : F[s] = f[a] + F[s \ {a}]
    BY <1>1, Subsets DEF SumsTo
  <2>2. CASE a = x
    BY <2>1, <2>2
  <2>3. CASE a # x
    <3>1. /\ s \ {a} \in SUBSET D /\ Cardinality(s \ {a}) = n
          /\ s \ {x} \in SUBSET D /\ Cardinality(s \ {x}) = n
      BY LessOne
    <3>2. F[s \ {a}] = f[x] + F[(s \ {a}) \ {x}]
      BY <3>1, <1>3, <2>3
    <3>3. F[s \ {x}] = f[a] + F[(s \ {x}) \ {a}]
      BY <3>1, <1>3, <2>3
    <3>4. (s \ {a}) \ {x} = (s \ {x}) \ {a} /\ (s \ {x}) \ {a} \in SUBSET D
      OBVIOUS
    <3>5. f[a] \in Int /\ f[x] \in Int /\ F[(s \ {x}) \ {a}] \in Int
      BY <3>4, <1>1
    <3>6. PICK rest \in Int : rest = F[(s \ {x}) \ {a}]
      BY <3>5
    <3>7. F[s \ {a}] = f[x] + rest /\ F[s \ {x}] = f[a] + rest
      BY <3>2, <3>3, <3>4, <3>6
    <3> QED BY <2>1, <3>5, <3>7
  <2> QED BY <2>2, <2>3
<1>4. Cardinality(D) \in N
  <2>1. 0 \in N /\ \A n \in Nat : n \in N => n + 1 \in N
    <3> HIDE DEF Out
    <3> QED BY <1>2, <1>3
  <2> HIDE DEF N
  <2> QED BY <2>1, Induction, Subsets
<1>5. \A x \in D : F[D] = f[x] + F[D \ {x}]
  BY <1>4
<1>6. D = {} => F[D] = 0
  BY <1>1, Subsets DEF SumsTo
<1> QED BY <1>1, <1>5, <1>6

\* What holds of no element and is kept by each holds of a finite set.
LEMMA SetInduction ==
  ASSUME NEW D, IsFiniteSet(D), NEW P, {} \in P,
         \A s \in SUBSET D : \A x \in D \ s : s \in P => s \cup {x} \in P
  PROVE  D \in P
<1> DEFINE In(n) == \A s \in SUBSET D : Cardinality(s) = n => s \in P
           N == {n \in Nat : In(n)}
<1>1. In(0)
  BY Subsets
<1>2. ASSUME NEW n \in Nat, In(n) PROVE In(n + 1)
  <2> SUFFICES ASSUME NEW s \in SUBSET D, Cardinality(s) = n + 1
               PROVE  s \in P
    OBVIOUS
  <2>a. Cardinality({}) = 0
    BY FS_EmptySet
  <2>1. s # {}
    BY <2>a
  <2>2. PICK x \in s : TRUE
    BY <2>1
  <2>3. PICK t : t = s \ {x}
    OBVIOUS
  <2>4. t \in SUBSET D /\ Cardinality(t) = n
    BY <2>2, <2>3, LessOne
  <2>5. s = t \cup {x} /\ x \in D \ t
    BY <2>2, <2>3
  <2> QED BY <2>4, <2>5, <1>2
<1>3. Cardinality(D) \in N
  <2>1. 0 \in N /\ \A n \in Nat : n \in N => n + 1 \in N
    <3> HIDE DEF In
    <3> QED BY <1>1, <1>2
  <2> HIDE DEF N
  <2> QED BY <2>1, Induction, Subsets
<1> QED BY <1>3

\* A finite set of numbers can be summed up.
Summable(f, D) == IsFiniteSet(D) /\ \A x \in D : f[x] \in Int

\* Such a sum is a number, and so is that of a part.
LEMMA SumBasics ==
  ASSUME NEW f, NEW D, Summable(f, D)
  PROVE  /\ SumFunctionOnSet(f, D) \in Int
         /\ IsFiniteSet(D) /\ Cardinality(D) \in Nat
         /\ \A s \in SUBSET D : Summable(f, s)
<1>1. IsFiniteSet(D) /\ \A x \in D : f[x] \in Int
  BY DEF Summable
<1>2. SumFunctionOnSet(f, D) \in Int
  BY <1>1, SumOut
<1>3. ASSUME NEW s \in SUBSET D PROVE Summable(f, s)
  BY <1>1, FS_Subset DEF Summable
<1> QED BY <1>1, <1>2, <1>3, FS_CardinalityType

\* Nothing sums to nothing.
LEMMA SumNone == \A f : SumFunctionOnSet(f, {}) = 0
<1> SUFFICES ASSUME NEW f PROVE SumFunctionOnSet(f, {}) = 0
  OBVIOUS
<1>1. \A x \in {} : f[x] \in Int
  OBVIOUS
<1> QED BY <1>1, SumOut, FS_EmptySet

\* A sum grows by the element added.
LEMMA SumIn ==
  ASSUME NEW f, NEW D, Summable(f, D), NEW s \in SUBSET D, NEW x \in D, x \notin s,
         NEW t, t = s \cup {x}
  PROVE  /\ SumFunctionOnSet(f, s) \in Int /\ f[x] \in Int
         /\ SumFunctionOnSet(f, t) = f[x] + SumFunctionOnSet(f, s)
         /\ Cardinality(s) \in Nat
         /\ Cardinality(t) = Cardinality(s) + 1
<1>1. Summable(f, s) /\ IsFiniteSet(s)
  BY SumBasics
<1>2. IsFiniteSet(s \cup {x}) /\ Cardinality(s \cup {x}) = Cardinality(s) + 1
  BY <1>1, FS_AddElement
<1>3. SumFunctionOnSet(f, s) \in Int /\ Cardinality(s) \in Nat
  BY <1>1, SumBasics
<1>4. (s \cup {x}) \ {x} = s /\ x \in s \cup {x} /\ f[x] \in Int
      /\ \A y \in s \cup {x} : f[y] \in Int
  BY DEF Summable
<1>5. SumFunctionOnSet(f, s \cup {x}) = f[x] + SumFunctionOnSet(f, (s \cup {x}) \ {x})
  BY <1>2, <1>4, SumOut
<1> QED BY <1>2, <1>3, <1>4, <1>5

\* Equal terms sum to a multiple.
LEMMA SumSame ==
  ASSUME NEW f, NEW D, IsFiniteSet(D), NEW c \in Int, \A x \in D : f[x] = c
  PROVE  SumFunctionOnSet(f, D) = Cardinality(D) * c
<1> DEFINE P == {s \in SUBSET D : SumFunctionOnSet(f, s) = Cardinality(s) * c}
<1>1. {} \in P
  BY SumNone, FS_EmptySet
<1>2. ASSUME NEW s \in SUBSET D, NEW x \in D, x \notin s, s \in P
      PROVE  s \cup {x} \in P
  <2>a. Summable(f, D)
    BY DEF Summable
  <2>1. PICK n \in Nat : n = Cardinality(s)
    BY <1>2, <2>a, SumIn
  <2>b. /\ SumFunctionOnSet(f, s \cup {x}) = f[x] + SumFunctionOnSet(f, s)
        /\ Cardinality(s \cup {x}) = Cardinality(s) + 1
    BY <1>2, <2>a, SumIn
  <2>2. SumFunctionOnSet(f, s \cup {x}) = c + n * c /\ Cardinality(s \cup {x}) = n + 1
    BY <1>2, <2>1, <2>b
  <2>3. c + n * c = (n + 1) * c
    BY <2>1
  <2> QED BY <2>2, <2>3
<1>3. D \in P
  <2> HIDE DEF P
  <2> QED BY <1>1, <1>2, SetInduction
<1> QED BY <1>3

\* Two parts sum to the sum of both.
LEMMA SumUnion ==
  ASSUME NEW f, NEW S, NEW T, S \cap T = {}, Summable(f, S \cup T)
  PROVE  SumFunctionOnSet(f, S \cup T) = SumFunctionOnSet(f, S) + SumFunctionOnSet(f, T)
<1> DEFINE P == {s \in SUBSET S : SumFunctionOnSet(f, s \cup T)
                                    = SumFunctionOnSet(f, s) + SumFunctionOnSet(f, T)}
<1>a. SumFunctionOnSet(f, T) \in Int /\ IsFiniteSet(S)
  <2>1. Summable(f, T) /\ Summable(f, S)
    BY SumBasics
  <2> QED BY <2>1, SumBasics
<1>1. {} \in P
  <2>1. {} \cup T = T
    OBVIOUS
  <2> QED BY <1>a, <2>1, SumNone
<1>2. ASSUME NEW s \in SUBSET S, NEW x \in S, x \notin s, s \in P
      PROVE  s \cup {x} \in P
  <2>1. PICK D, t, W, U : D = S \cup T /\ t = s \cup {x} /\ W = s \cup T /\ U = t \cup T
    OBVIOUS
  <2>2. /\ Summable(f, D) /\ s \in SUBSET D /\ W \in SUBSET D /\ x \in D
        /\ x \notin s /\ x \notin W /\ U = W \cup {x}
    BY <2>1, <1>2
  <2>3. SumFunctionOnSet(f, t) = f[x] + SumFunctionOnSet(f, s)
    BY <2>1, <2>2, SumIn
  <2>4. SumFunctionOnSet(f, U) = f[x] + SumFunctionOnSet(f, W)
    BY <2>2, SumIn
  <2>5. SumFunctionOnSet(f, W) = SumFunctionOnSet(f, s) + SumFunctionOnSet(f, T)
    BY <1>2, <2>1
  <2>6. SumFunctionOnSet(f, s) \in Int /\ f[x] \in Int
    BY <2>2, SumIn
  <2>7. SumFunctionOnSet(f, U) = SumFunctionOnSet(f, t) + SumFunctionOnSet(f, T)
    BY <1>a, <2>3, <2>4, <2>5, <2>6
  <2>8. t \in P
    BY <2>1, <2>7
  <2> QED BY <2>1, <2>8
<1>3. S \in P
  <2> HIDE DEF P
  <2> QED BY <1>a, <1>1, <1>2, SetInduction
<1> QED BY <1>3

-----------------------------------------------------------------------------
(* Questions                                                               *)

\* The questions alone; a run asks them beside the learned limits, with which
\* they share no variable.
DecisionsSpec == DecisionsInit /\ [][DecisionsNext]_question

\* A question has an input of its topic.
Known ==
  \/ question = Idle
  \/ question \in [topic : {"capacity"}, about : Targets]
  \/ question \in [topic : {"space"}, about : Spaces]
  \/ question \in [topic : {"verdict"}, about : Judgements]
  \/ question \in [topic : {"sweep"}, about : SweepRuns]
  \/ question \in [topic : {"score"}, about : TrialPairs]
  \/ question \in [topic : {"retry"}, about : RetriedCalls]
  \/ question \in [topic : {"args"}, about : [items : ArgItems, new : ArgChanges]]
  \/ question \in [topic : {"deployment"},
                   about : [items : ArgItems, new : ArgChanges, cr : Deployments,
                            resources : ResourceChanges]]
  \/ question \in [topic : {"latency"}, about : Scrapes]

\* Only inputs of the sets given are asked about.
LEMMA AlwaysKnown == DecisionsSpec => []Known
<1>1. DecisionsInit => Known
  BY DEF DecisionsInit, Known
<1>2. Known /\ [DecisionsNext]_question => Known'
  BY DEF Known, DecisionsNext, Ask, Idle, AskArgs, AskDeployment, AskCapacity, AskSpace,
         AskVerdict, AskSweep, AskScore, AskRetry, AskLatency
<1> QED BY <1>1, <1>2, PTL DEF DecisionsSpec

\* compute_trial_score and TunerStatus.best.sla_met rank any two trials whose
\* load tests had an answer as ScoreOrders says, for every SLA a request may
\* ask for: it is at most ten minutes, less than what no answer counts as.
THEOREM ScoresInOrder == DecisionsSpec => []ScoreOrders
<1>1. Known => ScoreOrders
  <2> SUFFICES ASSUME Known, About("score")
               PROVE  ScoreOrders
    BY DEF ScoreOrders
  <2>1. question.about \in TrialPairs
    BY DEF Known, About, Idle
  <2>2. PICK q : q = question.about
    OBVIOUS
  <2>3. /\ q.one \in [refused : BOOLEAN, p99 : Nat, tps : Nat]
        /\ q.other \in [refused : BOOLEAN, p99 : Nat, tps : Nat]
        /\ q.sla \in Nat \ {0}
        /\ NoAnswer \in Nat /\ q.sla < NoAnswer
    BY <2>1, <2>2, TrialPairsAssumption, SMT DEF NoAnswer
  <2>4. \A t \in [refused : BOOLEAN, p99 : Nat, tps : Nat] : t.tps * q.sla \in Nat
    BY <2>3
  <2>5. \A t \in {q.one, q.other} :
          /\ t.refused => Score(t, q.sla) = -NoAnswer
          /\ (~t.refused /\ t.p99 > q.sla) => Score(t, q.sla) = -t.p99
          /\ (~t.refused /\ t.p99 <= q.sla) => Score(t, q.sla) \in Nat
    BY <2>3, <2>4 DEF Score
  <2> QED BY <2>2, <2>3, <2>5 DEF ScoreOrders, SlaMet
<1> QED BY <1>1, AlwaysKnown, PTL

\* Whatever the thresholds of a profile and the figures of a benchmark, no
\* benchmark without requests passes, and the live alerts agree with the
\* verdict on the saved benchmark.
THEOREM VerdictsAreSound == DecisionsSpec => []VerdictsSound
<1>1. Known => VerdictsSound
  <2> SUFFICES ASSUME Known, About("verdict")
               PROVE  VerdictsSound
    BY DEF VerdictsSound, EmptyNeverPasses, AlertsAgree
  <2>1. question.about \in Judgements
    BY DEF Known, About, Idle
  <2>2. PICK q : q = question.about
    OBVIOUS
  <2>3. /\ q.result.success \in Nat /\ q.result.failed \in Nat
        /\ DOMAIN q.thresholds # {}
        /\ \A metric \in DOMAIN q.thresholds :
             /\ q.thresholds[metric] \in Nat
             /\ metric \notin {"availability", "error_rate"} =>
                  q.result.latency[metric] \in Nat \cup {NotMeasured}
    BY <2>1, <2>2, JudgementsAssumption
  <2>4. EmptyNeverPasses
    <3> SUFFICES ASSUME OverallPass(q.thresholds, q.result)
                 PROVE  /\ Total(q.result) > 0
                        /\ \A metric \in DOMAIN q.thresholds \cap {"availability"} :
                             q.thresholds[metric] > 0 => q.result.success > 0
      BY <2>2 DEF EmptyNeverPasses
    <3>1. Total(q.result) # 0
      BY <2>3 DEF OverallPass, Status
    <3>2. ASSUME "availability" \in DOMAIN q.thresholds, q.thresholds["availability"] > 0
          PROVE  q.result.success > 0
      <4>1. q.result.success * 100 >= q.thresholds["availability"] * Total(q.result)
        BY <3>1, <3>2 DEF OverallPass, Status
      <4> QED BY <4>1, <3>1, <3>2, <2>3 DEF Total
    <3> QED BY <3>1, <3>2, <2>3 DEF Total
  <2>5. AlertsAgree
    <3> SUFFICES ASSUME Total(q.result) > 0,
                        NEW metric \in DOMAIN q.thresholds \ {"availability", "error_rate"}
                 PROVE  (/\ q.result.latency[metric] # NotMeasured
                         /\ q.result.latency[metric] > q.thresholds[metric])
                        <=> Status(metric, q.thresholds[metric], q.result) = "fail"
      BY <2>2 DEF AlertsAgree, Violations
    <3> QED BY <2>3 DEF Status, NotMeasured, Total, ZeroSkips, MayLack
  <2> QED BY <2>4, <2>5 DEF VerdictsSound
<1> QED BY <1>1, AlwaysKnown, PTL

\* A step that fails altogether exceeds any error rate below 100%.
LEMMA FailedAlways ==
  ASSUME NEW total \in Nat, total > 0, NEW rate \in 0..99
  PROVE  total * 100 > rate * total /\ rate * total \in Int
<1>1. total * 100 - rate * total = (100 - rate) * total
  OBVIOUS
<1>2. (100 - rate) * total > 0
  OBVIOUS
<1>3. rate * total \in Int
  OBVIOUS
<1> QED BY <1>1, <1>2, <1>3

\* Whatever is measured in the steps of a sweep, the rate of best efficiency was
\* answered, the optimal one as well unless its step reports no request, and
\* the optimal one lies before the saturated steps that ended the sweep.
THEOREM RecommendedRatesWork == DecisionsSpec => []RecommendedWorks
<1>1. Known => RecommendedWorks
  <2> SUFFICES ASSUME Known, About("sweep"), question.about.config.error_rate < 100
               PROVE  RecommendedWorks
    BY DEF RecommendedWorks
  <2>1. question.about \in SweepRuns
    BY DEF Known, About, Idle
  <2>2. PICK steps, config : steps = question.about.steps /\ config = question.about.config
    OBVIOUS
  <2> DEFINE StepType == [total : Nat, failed : Nat, p99 : Nat, tps : Nat, mean : Nat]
  <2>3. /\ steps \in Seq(StepType)
        /\ config \in [stable : Nat \ {0}, error_rate : 0..100, factor : Nat \ {0}]
        /\ config.error_rate \in 0..99
    <3>1. /\ steps \in Seq(StepType)
          /\ config \in [stable : Nat \ {0}, error_rate : 0..100, factor : Nat \ {0}]
      BY <2>1, <2>2, SweepRunsAssumption
    <3>2. config.error_rate \in 0..100 /\ config.error_rate < 100
      BY <2>2, <3>1
    <3> QED BY <3>1, <3>2
  <2> HIDE DEF StepType
  <2>4. \A i \in DOMAIN steps : steps[i] \in StepType /\ i \in 1..Len(steps) /\ Len(steps) \in Nat
    BY <2>3
  <2>5. PICK ends : ends = {i \in DOMAIN steps : GivesUp(steps, i) \/ Settles(steps, i, config)}
    OBVIOUS
  <2>6. ends # {} => Min(ends) \in ends
    <3>1. ends \in SUBSET Nat
      BY <2>4, <2>5
    <3> QED BY <3>1, MinProp
  <2>7. PICK sweep : sweep = Sweep(steps, config)
    OBVIOUS
  <2>8. /\ sweep.recorded \in 0..Len(steps)
        /\ sweep.saturation # 0 =>
             /\ sweep.saturation = sweep.recorded
             /\ sweep.saturation \in DOMAIN steps
             /\ Settles(steps, sweep.saturation, config)
    <3>1. CASE ends = {}
      BY <3>1, <2>3, <2>5, <2>7 DEF Sweep
    <3>2. CASE ends # {}
      BY <3>2, <2>4, <2>5, <2>6, <2>7 DEF Sweep
    <3> QED BY <3>1, <3>2
  <2>9. PICK optimal : optimal = Optimal(steps, config)
    OBVIOUS
  <2>10. optimal # 0 =>
           /\ optimal \in 1..sweep.recorded /\ sweep.saturation # 0
           /\ ~Saturated(steps, optimal, config)
    <3>1. PICK stable : stable = {i \in 1..sweep.recorded : ~Saturated(steps, i, config)}
      OBVIOUS
    <3>2. stable # {} => Max(stable) \in stable
      <4>1. stable \in SUBSET Nat /\ \A x \in stable : x <= Len(steps)
        BY <2>8, <3>1
      <4>2. Len(steps) \in Nat
        BY <2>3
      <4> QED BY <4>1, <4>2, MaxProp
    <3> QED BY <3>1, <3>2, <2>7, <2>9 DEF Optimal
  <2>11. PICK knee : knee = Knee(steps, config)
    OBVIOUS
  <2>12. knee # 0 => /\ knee \in 1..sweep.recorded
                     /\ Efficient(steps[knee], config.error_rate)
    <3>1. PICK able : able = {i \in 1..sweep.recorded : Efficient(steps[i], config.error_rate)}
      OBVIOUS
    <3>2. PICK best : best = {i \in able : \A j \in able : steps[i].tps * steps[j].mean
                                                         >= steps[j].tps * steps[i].mean}
      OBVIOUS
    <3>3. best # {} => Min(best) \in best
      <4>1. best \in SUBSET Nat
        BY <2>8, <3>1, <3>2
      <4> QED BY <4>1, MinProp
    <3> QED BY <3>1, <3>2, <3>3, <2>7, <2>11 DEF Knee
  <2>13. /\ knee # 0 => Answered(steps[knee])
         /\ (optimal # 0 /\ steps[optimal].total > 0) => Answered(steps[optimal])
    <3> SUFFICES ASSUME NEW i \in {optimal, knee}, i # 0, steps[i].total > 0 \/ i = knee
                 PROVE  Answered(steps[i])
      OBVIOUS
    <3>1. i \in DOMAIN steps
      BY <2>3, <2>4, <2>8, <2>10, <2>12
    <3>2. /\ steps[i].total \in Nat /\ steps[i].total > 0 /\ steps[i].failed \in Nat
          /\ AtLeastOne(steps[i].total) = steps[i].total
      BY <3>1, <2>4, <2>12 DEF StepType, AtLeastOne, Efficient
    <3>3. PICK limit \in Int : /\ limit = config.error_rate * steps[i].total
                               /\ steps[i].total * 100 > limit
      BY <3>2, <2>3, FailedAlways
    <3>4. steps[i].failed * 100 <= limit
      <4>1. CASE i = optimal
        <5>1. ~(steps[i].failed * 100 > config.error_rate * AtLeastOne(steps[i].total))
          BY <4>1, <2>10 DEF Saturated
        <5> QED BY <5>1, <3>2, <3>3
      <4>2. CASE i = knee
        BY <4>2, <3>3, <2>12 DEF Efficient
      <4> QED BY <4>1, <4>2
    <3> QED BY <3>2, <3>3, <3>4 DEF Answered
  <2>14. ASSUME optimal # 0
         PROVE  /\ optimal < sweep.saturation
                /\ config.stable <= sweep.saturation - optimal
                /\ steps[1].p99 > 0 => steps[optimal].p99 <= steps[1].p99 * config.factor
    <3>1. ~(optimal \in sweep.saturation - config.stable + 1..sweep.saturation)
      BY <2>8, <2>10, <2>14 DEF Settles
    <3>2. optimal \in DOMAIN steps /\ 1 \in DOMAIN steps
      BY <2>3, <2>4, <2>8, <2>10, <2>14
    <3>a. steps[1].p99 \in Nat /\ steps[optimal].p99 \in Nat /\ config.factor \in Nat
      BY <3>2, <2>3, <2>4 DEF StepType
    <3>3. steps[1].p99 * config.factor \in Nat /\ steps[optimal].p99 \in Nat
      BY <3>a
    <3> QED BY <3>1, <3>2, <3>3, <2>3, <2>4, <2>8, <2>10, <2>14 DEF Saturated
  <2> QED BY <2>2, <2>7, <2>9, <2>11, <2>13, <2>14 DEF RecommendedWorks
<1> QED BY <1>1, AlwaysKnown, PTL

-----------------------------------------------------------------------------
(* Multiples                                                               *)

Multiple(n, k) == \E q \in Int : n = q * k

\* Between two multiples lies at least one step,
LEMMA BetweenMultiples ==
  ASSUME NEW p \in Int, NEW q \in Int, NEW k \in Nat, k > 0, p * k < q * k
  PROVE  p * k + k <= q * k
<1>1. p < q
  <2> SUFFICES ASSUME p >= q PROVE FALSE
    OBVIOUS
  <2>1. p * k - q * k = (p - q) * k
    OBVIOUS
  <2>2. (p - q) * k >= 0
    OBVIOUS
  <2> QED BY <2>1, <2>2
<1>2. q * k - (p * k + k) = (q - p - 1) * k
  OBVIOUS
<1>3. (q - p - 1) * k >= 0
  BY <1>1
<1>4. p * k \in Int /\ q * k \in Int
  OBVIOUS
<1> QED BY <1>2, <1>3, <1>4

\* RoundDown and RoundUp give the multiples next to a number,
LEMMA Rounded ==
  ASSUME NEW n \in Int, NEW k \in Nat, k > 0
  PROVE  /\ RoundDown(n, k) \in Int /\ Multiple(RoundDown(n, k), k)
         /\ RoundDown(n, k) <= n /\ n < RoundDown(n, k) + k
         /\ RoundUp(n, k) \in Int /\ Multiple(RoundUp(n, k), k)
         /\ n <= RoundUp(n, k) /\ RoundUp(n, k) < n + k
<1>1. PICK p \in Int : p = n \div k
  BY DivProp
<1>2. PICK q \in Int : q = (-n) \div k
  BY DivProp
<1>3. p * k \in Int /\ p * k <= n /\ n < p * k + k
  BY <1>1, DivProp
<1>4. q * k \in Int /\ q * k <= -n /\ -n < q * k + k
  BY <1>2, DivProp
<1>5. (-q) * k = -(q * k)
  OBVIOUS
<1> QED BY <1>1, <1>2, <1>3, <1>4, <1>5 DEF RoundDown, RoundUp, Multiple

\* rounding down does not pass a multiple below,
LEMMA RoundedAbove ==
  ASSUME NEW n \in Int, NEW m \in Int, NEW k \in Nat, k > 0, Multiple(m, k), m <= n
  PROVE  m <= RoundDown(n, k)
<1>a. RoundDown(n, k) \in Int /\ n < RoundDown(n, k) + k /\ Multiple(RoundDown(n, k), k)
  BY Rounded
<1>1. PICK p \in Int, q \in Int : RoundDown(n, k) = p * k /\ m = q * k
  BY <1>a DEF Multiple
<1>2. ~(p * k < q * k)
  <2> SUFFICES ASSUME p * k < q * k PROVE FALSE
    OBVIOUS
  <2>1. p * k + k <= q * k
    BY BetweenMultiples
  <2> QED BY <2>1, <1>1, <1>a
<1> QED BY <1>1, <1>2, <1>a

\* and two multiples differ by one.
LEMMA MultiplesApart ==
  ASSUME NEW m \in Int, NEW n \in Int, NEW k \in Nat, k > 0, Multiple(m, k), Multiple(n, k)
  PROVE  (m - n) % k = 0
<1>1. PICK p \in Int, q \in Int : m = p * k /\ n = q * k
  BY DEF Multiple
<1>2. PICK d \in Int, r \in Int : d = (m - n) \div k /\ r = (m - n) % k
  BY DivProp
<1>3. /\ d * k \in Int /\ d * k <= m - n /\ m - n < d * k + k
      /\ r = (m - n) - d * k
  BY <1>2, DivProp
<1>4. m - n = (p - q) * k
  BY <1>1
<1>5. ~(d * k < (p - q) * k)
  <2> SUFFICES ASSUME d * k < (p - q) * k PROVE FALSE
    OBVIOUS
  <2>1. d * k + k <= (p - q) * k
    BY BetweenMultiples
  <2> QED BY <2>1, <1>3, <1>4
<1> QED BY <1>2, <1>3, <1>4, <1>5

\* A number without remainder is a multiple.
LEMMA MultipleOf ==
  ASSUME NEW n \in Int, NEW k \in Nat, k > 0, n % k = 0
  PROVE  Multiple(n, k)
<1>1. n = (n \div k) * k /\ n \div k \in Int
  BY DivProp
<1> QED BY <1>1 DEF Multiple

-----------------------------------------------------------------------------
(* The search space                                                        *)

\* The batches asked of the study lie between two multiples of 256 in their
\* order, the lower one not below the number of sequences.
LEMMA BatchRange ==
  ASSUME NEW config \in SpaceType, NEW n \in Int
  PROVE  /\ BatchLow(config, n) \in Int /\ Multiple(BatchLow(config, n), BatchStep)
         /\ n <= BatchLow(config, n)
         /\ BatchHigh(config, n) \in Int /\ BatchLow(config, n) <= BatchHigh(config, n)
         /\ BatchHigh(config, n) = RoundDown(LargerOf(config.batch.hi, BatchLow(config, n)),
                                             BatchStep)
<1>1. PICK larger \in Int : larger = LargerOf(config.batch.lo, n) /\ n <= larger
  BY DEF SpaceType, AnyRange, LargerOf
<1>2. PICK low \in Int : /\ low = BatchLow(config, n) /\ low >= larger
                         /\ Multiple(low, BatchStep)
  BY <1>1, Rounded, StepsAssumption DEF BatchLow
<1>3. PICK top \in Int : top = LargerOf(config.batch.hi, low) /\ low <= top
  BY <1>2 DEF SpaceType, AnyRange, LargerOf
<1>4. low <= RoundDown(top, BatchStep) /\ RoundDown(top, BatchStep) \in Int
  BY <1>2, <1>3, Rounded, RoundedAbove, StepsAssumption
<1>5. BatchHigh(config, n) = RoundDown(top, BatchStep)
  BY <1>2, <1>3, <1>4 DEF BatchHigh, LargerOf
<1> QED BY <1>1, <1>2, <1>3, <1>4, <1>5

\* The raised lower end of the utilization is below the upper one.
LEMMA UtilLowProp ==
  ASSUME NEW config \in SpaceType, Valid(config)
  PROVE  UtilLow(config) \in Int /\ UtilLow(config) <= config.util.hi
<1>1. config.util.lo \in Int /\ config.util.hi \in Int /\ config.util.lo < config.util.hi
  BY DEF SpaceType, AnyRange, Valid
<1>2. CASE config.weight = 0 \/ config.gib = 0 \/ config.dedicated
  BY <1>1, <1>2 DEF UtilLow
<1>3. CASE ~(config.weight = 0 \/ config.gib = 0 \/ config.dedicated)
  <2>1. PICK floor \in Int :
          floor = -((-(config.weight * 11 + config.overhead * 10)) \div (config.gib * 10))
    <3>1. -(config.weight * 11 + config.overhead * 10) \in Int
      BY DEF SpaceType
    <3>2. config.gib * 10 \in Nat /\ config.gib * 10 > 0
      BY <1>3 DEF SpaceType
    <3> QED BY <3>1, <3>2, DivProp
  <2>2. UtilLow(config) = LargerOf(config.util.lo, SmallerOf(floor, config.util.hi - 5))
    BY <1>3, <2>1 DEF UtilLow
  <2> QED BY <1>1, <2>1, <2>2 DEF LargerOf, SmallerOf
<1> QED BY <1>2, <1>3

\* suggest_params asks for no empty range.
LEMMA SpaceNotEmpty == Known => SpaceNeverEmpty
<1> SUFFICES ASSUME Known, About("space"), Valid(question.about.config)
             PROVE  SpaceNeverEmpty
  BY DEF SpaceNeverEmpty
<1>1. PICK config : config = question.about.config
  OBVIOUS
<1>2. config \in SpaceType
  BY <1>1, SpacesAssumption DEF Known, About, Idle, SpaceType
<1>3. UtilLow(config) <= config.util.hi
  BY <1>1, <1>2, UtilLowProp
<1>4. ASSUME NEW n \in SeqValues(config)
      PROVE  /\ BatchLow(config, n) <= BatchHigh(config, n)
             /\ \A batch \in BatchValues(config, n) : batch >= n
  <2>1. n \in Int
    BY <1>2 DEF SeqValues, SpaceType, AnyRange
  <2>2. /\ BatchLow(config, n) \in Int /\ BatchHigh(config, n) \in Int
        /\ n <= BatchLow(config, n) /\ BatchLow(config, n) <= BatchHigh(config, n)
    BY <1>2, <2>1, BatchRange
  <2> QED BY <2>1, <2>2 DEF BatchValues
<1> QED BY <1>1, <1>3, <1>4 DEF SpaceNeverEmpty

\* _sanitize_suggestion leaves a point of the grid suggest_params searches.
LEMMA SuggestionOnGrid == Known => SanitizedSuggestible
<1> SUFFICES ASSUME Known, About("space"), Valid(question.about.config),
                    question.about.config.seqs.lo % SeqStep = 0
             PROVE  SanitizedSuggestible
  BY DEF SanitizedSuggestible
<1>1. PICK config, suggestion :
        config = question.about.config /\ suggestion = question.about.suggestion
  OBVIOUS
<1>2. config \in SpaceType /\ suggestion \in [seqs : Int, util : Int, batch : Int]
  BY <1>1, SpacesAssumption DEF Known, About, Idle, SpaceType
<1>3. /\ config.seqs.lo \in Int /\ config.seqs.hi \in Int /\ config.seqs.lo < config.seqs.hi
      /\ config.util.lo \in Int /\ config.util.hi \in Int /\ config.util.lo < config.util.hi
      /\ config.batch.hi \in Int
  BY <1>1, <1>2 DEF SpaceType, AnyRange, Valid
<1>4. PICK seqs : seqs = SanitizedSeqs(config, suggestion.seqs)
  OBVIOUS
<1>5. seqs \in SeqValues(config)
  <2>1. PICK within \in Int : /\ within = Within(suggestion.seqs, config.seqs)
                              /\ within \in config.seqs.lo..config.seqs.hi
    BY <1>2, <1>3 DEF Within, LargerOf, SmallerOf
  <2>2. Multiple(config.seqs.lo, SeqStep)
    BY <1>1, <1>3, MultipleOf, StepsAssumption
  <2>a. config.seqs.lo <= RoundDown(within, SeqStep)
    BY <2>1, <2>2, <1>3, RoundedAbove, StepsAssumption
  <2>3. PICK rounded \in Int :
          /\ rounded = RoundDown(within, SeqStep) /\ Multiple(rounded, SeqStep)
          /\ config.seqs.lo <= rounded /\ rounded <= within
    <3>1. within \in Int /\ SeqStep \in Nat /\ SeqStep > 0
      BY <2>1, StepsAssumption
    <3> QED BY <3>1, <2>a, Rounded
  <2>4. /\ (rounded - config.seqs.lo) % SeqStep = 0
        /\ (config.seqs.lo - config.seqs.lo) % SeqStep = 0
    BY <2>2, <2>3, <1>3, MultiplesApart, StepsAssumption
  <2>5. seqs = IF rounded = 0 THEN config.seqs.lo ELSE rounded
    BY <1>4, <2>1, <2>3 DEF SanitizedSeqs
  <2> QED BY <2>1, <2>3, <2>4, <2>5, <1>3 DEF SeqValues
<1>6. Within(suggestion.util, config.util) \in config.util.lo..config.util.hi
  BY <1>2, <1>3 DEF Within, LargerOf, SmallerOf
<1>8. suggestion.util >= UtilLow(config) => Within(suggestion.util, config.util) >= UtilLow(config)
  <2>1. UtilLow(config) \in Int /\ UtilLow(config) <= config.util.hi
    BY <1>1, <1>2, UtilLowProp
  <2> QED BY <1>2, <1>3, <2>1 DEF Within, LargerOf, SmallerOf
<1>7. SanitizedBatch(config, seqs, suggestion.batch) \in BatchValues(config, seqs)
  <2>1. seqs \in Int
    BY <1>3, <1>5 DEF SeqValues
  <2>2. PICK low \in Int, top \in Int :
          /\ low = BatchLow(config, seqs) /\ Multiple(low, BatchStep)
          /\ top = BatchHigh(config, seqs) /\ low <= top
          /\ top = RoundDown(LargerOf(config.batch.hi, low), BatchStep)
    BY <2>1, <1>2, BatchRange
  <2>3. PICK chosen \in Int :
          /\ chosen = LargerOf(low, SmallerOf(top, suggestion.batch))
          /\ low <= chosen /\ chosen <= top
    BY <1>2, <2>2 DEF LargerOf, SmallerOf
  <2>a. low <= RoundDown(chosen, BatchStep)
    BY <2>2, <2>3, RoundedAbove, StepsAssumption
  <2>4. PICK rounded \in Int :
          /\ rounded = RoundDown(chosen, BatchStep) /\ Multiple(rounded, BatchStep)
          /\ low <= rounded /\ rounded <= chosen
    <3>1. chosen \in Int /\ BatchStep \in Nat /\ BatchStep > 0
      BY <2>3, StepsAssumption
    <3> QED BY <3>1, <2>a, Rounded
  <2>5. (rounded - low) % BatchStep = 0 /\ (low - low) % BatchStep = 0
    BY <2>2, <2>4, MultiplesApart, StepsAssumption
  <2>6. SanitizedBatch(config, seqs, suggestion.batch) = IF rounded = 0 THEN low ELSE rounded
    BY <2>2, <2>3, <2>4 DEF SanitizedBatch
  <2> QED BY <2>2, <2>3, <2>4, <2>5, <2>6 DEF BatchValues
<1> QED BY <1>1, <1>4, <1>5, <1>6, <1>7, <1>8 DEF SanitizedSuggestible, Sanitize

-----------------------------------------------------------------------------
(* Capacity                                                                *)

\* Quotients, products and sums of naturals and integers stay such.
LEMMA DivNat ==
  ASSUME NEW n \in Nat, NEW k \in Nat, k > 0
  PROVE  n \div k \in Nat
OBVIOUS

LEMMA Times ==
  ASSUME NEW m \in Nat, NEW n \in Nat
  PROVE  m * n \in Nat /\ (m # 0 /\ n # 0 => m * n # 0)
OBVIOUS

\* The layers that own their KV are a sequence, whatever layer_types holds.
LEMMA OwningLength ==
  ASSUME NEW cfg \in CfgType
  PROVE  Len(Owning(cfg)) \in Nat /\ DOMAIN Owning(cfg) = 1..Len(Owning(cfg))
<1>1. PICK n \in Nat : n = cfg.num_hidden_layers
  BY DEF CfgType
<1>2. PICK types : types = LayerTypes(cfg)
  OBVIOUS
<1>3. PICK m \in Int : m = n - Smaller(cfg.num_kv_shared_layers, n)
  BY <1>1 DEF CfgType, Smaller
<1>4. PICK kinds : kinds = {types[i] : i \in 1..m}
  OBVIOUS
<1>5. \A i \in 1..m : types[i] \in kinds
  BY <1>4
<1>6. SubSeq(types, 1, m) \in Seq(kinds)
  BY <1>3, <1>5, SubSeqProperties
<1>7. Owning(cfg) = SubSeq(types, 1, m)
  BY <1>1, <1>2, <1>3 DEF Owning
<1> QED BY <1>6, <1>7

\* Two sets without a common element have as many as both together.
LEMMA DisjointUnion ==
  ASSUME NEW S, IsFiniteSet(S), NEW T, IsFiniteSet(T), S \cap T = {}
  PROVE  Cardinality(S \cup T) = Cardinality(S) + Cardinality(T)
<1>1. Cardinality(S \cap T) = 0
  BY FS_EmptySet
<1>2. Cardinality(S \cup T) = Cardinality(S) + Cardinality(T) - Cardinality(S \cap T)
  BY FS_Union
<1>3. Cardinality(S) \in Nat /\ Cardinality(T) \in Nat
  BY FS_CardinalityType
<1> QED BY <1>1, <1>2, <1>3

\* Layers of two types are no more than the layers.
LEMMA Partition ==
  ASSUME NEW n \in Nat, NEW S \in SUBSET (1..n), NEW T \in SUBSET (1..n), S \cap T = {}
  PROVE  /\ Cardinality(S) \in Nat /\ Cardinality(T) \in Nat
         /\ n - Cardinality(S) - Cardinality(T) \in Nat
<1>1. IsFiniteSet(1..n) /\ Cardinality(1..n) = n
  BY FS_Interval
<1>2. IsFiniteSet(S) /\ IsFiniteSet(T)
  BY <1>1, FS_Subset
<1>3. Cardinality(S) \in Nat /\ Cardinality(T) \in Nat
  BY <1>2, FS_CardinalityType
<1>4. Cardinality(S \cup T) = Cardinality(S) + Cardinality(T)
  BY <1>2, DisjointUnion
<1>5. Cardinality(S \cup T) <= n
  <2>1. S \cup T \in SUBSET (1..n)
    OBVIOUS
  <2> QED BY <2>1, <1>1, FS_Subset
<1> QED BY <1>3, <1>4, <1>5

\* What analyze_config finds,
AnalysisType ==
  [full_layers : Nat, linear_layers : Nat, kv_per_token : Nat \cup {Unknown},
   sliding_per_token : Nat, linear_per_seq : Nat, sliding_window : Nat]

\* what a layer keeps of a token, which is something when the KV is known,
LEMMA LayerFootprints ==
  ASSUME NEW cfg \in CfgType
  PROVE  /\ HeadDim(cfg) \in Nat /\ KvHeads(cfg) \in Nat
         /\ FullLayer(cfg) \in Nat /\ SlidingLayer(cfg) \in Nat
         /\ KvKnown(cfg) => FullLayer(cfg) # 0
<1>1. HeadDim(cfg) \in Nat
  <2>1. PICK hidden \in Nat, heads \in Nat :
          hidden = cfg.hidden_size /\ heads = cfg.num_attention_heads
    BY DEF CfgType
  <2>2. heads # 0 => hidden \div heads \in Nat
    BY DivNat
  <2> QED BY <2>1, <2>2 DEF CfgType, HeadDim, OrElse
<1>2. KvHeads(cfg) \in Nat
  BY DEF CfgType, KvHeads, OrElse
<1>3. KvFactor(cfg) \in Nat \ {0} /\ cfg.kv_dtype_bytes \in Nat \ {0}
  BY DEF CfgType, KvFactor
<1>4. SlidingLayer(cfg) \in Nat
  <2>1. KvFactor(cfg) * KvHeads(cfg) \in Nat
    BY <1>2, <1>3, Times
  <2>2. KvFactor(cfg) * KvHeads(cfg) * HeadDim(cfg) \in Nat
    BY <2>1, <1>1, Times
  <2>3. KvFactor(cfg) * KvHeads(cfg) * HeadDim(cfg) * cfg.kv_dtype_bytes \in Nat
    BY <2>2, <1>3, Times
  <2> QED BY <2>3 DEF SlidingLayer
<1>5. CASE cfg.kv_lora_rank # 0
  <2>1. cfg.kv_lora_rank + cfg.qk_rope_head_dim \in Nat \ {0}
    BY <1>5 DEF CfgType
  <2>2. (cfg.kv_lora_rank + cfg.qk_rope_head_dim) * cfg.kv_dtype_bytes \in Nat \ {0}
    BY <2>1, <1>3, Times
  <2> QED BY <2>2, <1>1, <1>2, <1>4, <1>5 DEF FullLayer
<1>6. CASE cfg.kv_lora_rank = 0
  <2>1. PICK heads \in Nat, dim \in Nat :
          /\ heads = OrElse(cfg.num_global_key_value_heads, KvHeads(cfg))
          /\ dim = OrElse(cfg.global_head_dim, HeadDim(cfg))
          /\ KvKnown(cfg) => heads # 0 /\ dim # 0
    BY <1>1, <1>2, <1>6 DEF CfgType, OrElse, KvKnown
  <2>2. KvFactor(cfg) * heads \in Nat /\ (heads # 0 => KvFactor(cfg) * heads # 0)
    BY <2>1, <1>3, Times
  <2>3. /\ KvFactor(cfg) * heads * dim \in Nat
        /\ (heads # 0 /\ dim # 0) => KvFactor(cfg) * heads * dim # 0
    BY <2>1, <2>2, Times
  <2>4. /\ KvFactor(cfg) * heads * dim * cfg.kv_dtype_bytes \in Nat
        /\ (heads # 0 /\ dim # 0) => KvFactor(cfg) * heads * dim * cfg.kv_dtype_bytes # 0
    BY <2>3, <1>3, Times
  <2> QED BY <2>1, <2>4, <1>1, <1>2, <1>4, <1>6 DEF FullLayer
<1> QED BY <1>5, <1>6 DEF CfgType

\* and what all layers keep: the layers of each type are counted once, and a
\* model with full-attention layers keeps KV per token.
LEMMA AnalysisTyped ==
  ASSUME NEW cfg \in CfgType
  PROVE  /\ AnalyzeConfig(cfg) \in AnalysisType
         /\ AnalyzeConfig(cfg).full_layers > 0 => AnalyzeConfig(cfg).kv_per_token # 0
<1>1. PICK own : own = Owning(cfg) /\ Len(own) \in Nat /\ DOMAIN own = 1..Len(own)
  BY OwningLength
<1>2. PICK full, sliding :
        /\ full = Cardinality({i \in DOMAIN own : own[i] = "full_attention"})
        /\ sliding = Cardinality({i \in DOMAIN own : own[i] = "sliding_attention"})
        /\ full \in Nat /\ sliding \in Nat /\ Len(own) - full - sliding \in Nat
  <2>1. PICK S, T : /\ S = {i \in DOMAIN own : own[i] = "full_attention"}
                    /\ T = {i \in DOMAIN own : own[i] = "sliding_attention"}
    OBVIOUS
  <2>2. S \in SUBSET (1..Len(own)) /\ T \in SUBSET (1..Len(own)) /\ S \cap T = {}
    BY <2>1, <1>1
  <2>3. /\ Cardinality(S) \in Nat /\ Cardinality(T) \in Nat
        /\ Len(own) - Cardinality(S) - Cardinality(T) \in Nat
    BY <2>2, <1>1, Partition
  <2> QED BY <2>1, <2>3
<1>3. PICK linear \in Nat : linear = Len(own) - full - sliding
  BY <1>2
<1>4. /\ full * FullLayer(cfg) \in Nat
      /\ (KvKnown(cfg) /\ full > 0) => full * FullLayer(cfg) # 0
      /\ sliding * SlidingLayer(cfg) \in Nat
  BY <1>2, LayerFootprints, Times
<1>5. linear * cfg.linear_state \in Nat /\ cfg.sliding_window \in Nat
  BY <1>3, Times DEF CfgType
<1>6. AnalyzeConfig(cfg) =
        [full_layers |-> full, linear_layers |-> linear,
         kv_per_token |-> IF KvKnown(cfg) THEN full * FullLayer(cfg) ELSE Unknown,
         sliding_per_token |-> IF KvKnown(cfg) THEN sliding * SlidingLayer(cfg) ELSE 0,
         linear_per_seq |-> IF KvKnown(cfg) THEN linear * cfg.linear_state ELSE 0,
         sliding_window |-> cfg.sliding_window]
  BY <1>1, <1>2, <1>3 DEF AnalyzeConfig
<1> QED BY <1>2, <1>3, <1>4, <1>5, <1>6 DEF AnalysisType, Unknown

\* A sequence has a footprint, or an unknown one.
LEMMA FootprintTyped ==
  ASSUME NEW a \in AnalysisType, NEW len \in Nat, NEW batched \in Nat
  PROVE  /\ WindowTokens(a.sliding_window, len, batched) \in Nat
         /\ KvPerSeq(a, len, batched) \in Nat \cup {Unknown}
<1>1. WindowTokens(a.sliding_window, len, batched) \in Nat
  BY DEF AnalysisType, WindowTokens, Smaller
<1>2. a.sliding_per_token * WindowTokens(a.sliding_window, len, batched) \in Nat
  BY <1>1, Times DEF AnalysisType
<1>3. a.kv_per_token # Unknown => a.kv_per_token * len \in Nat
  BY Times DEF AnalysisType
<1> QED BY <1>1, <1>2, <1>3 DEF AnalysisType, KvPerSeq

\* The layers that own their KV are the first ones.
LEMMA OwningLayers ==
  ASSUME NEW cfg \in CfgType, NEW m,
         m = cfg.num_hidden_layers - Smaller(cfg.num_kv_shared_layers, cfg.num_hidden_layers)
  PROVE  /\ m \in Nat /\ Len(Owning(cfg)) = m /\ DOMAIN Owning(cfg) = 1..m
         /\ \A i \in 1..m : Owning(cfg)[i] = LayerTypes(cfg)[i]
         /\ 1..(cfg.num_hidden_layers - cfg.num_kv_shared_layers) = 1..m
<1>1. PICK n \in Nat, shared \in Nat :
        n = cfg.num_hidden_layers /\ shared = cfg.num_kv_shared_layers
  BY DEF CfgType
<1>2. m \in Nat
  BY <1>1 DEF Smaller
<1>3. PICK types : types = LayerTypes(cfg)
  OBVIOUS
<1>4. PICK kinds : kinds = {types[i] : i \in 1..m}
  OBVIOUS
<1>5. \A i \in 1..m : types[i] \in kinds
  BY <1>4
<1>6. /\ SubSeq(types, 1, m) \in Seq(kinds)
      /\ Len(SubSeq(types, 1, m)) = m
      /\ \A i \in 1..m : SubSeq(types, 1, m)[i] = types[i]
  BY <1>2, <1>5, SubSeqProperties
<1>7. Owning(cfg) = SubSeq(types, 1, m)
  BY <1>1, <1>3 DEF Owning
<1>8. 1..(n - shared) = 1..m
  BY <1>1 DEF Smaller
<1> QED BY <1>1, <1>2, <1>3, <1>6, <1>7, <1>8

LEMMA Reassociate ==
  ASSUME NEW a \in Nat, NEW b \in Nat, NEW c \in Nat
  PROVE  (a * b) * c = a * (b * c)
OBVIOUS

\* What a layer of a type keeps, given that of a full and a sliding one.
Kept(type, a, b, c) == CASE type = "full_attention" -> a
                         [] type = "sliding_attention" -> b
                         [] OTHER -> c

KeptByLayer(f, cfg, a, b, c) ==
  \A i \in DOMAIN Owning(cfg) : f[i] = Kept(Owning(cfg)[i], a, b, c)
Layers(cfg, type) == Cardinality({i \in DOMAIN Owning(cfg) : Owning(cfg)[i] = type})
LinearLayers(cfg) ==
  Len(Owning(cfg)) - Layers(cfg, "full_attention") - Layers(cfg, "sliding_attention")

LayersSum(f, cfg, m, a, b, c) ==
  /\ Layers(cfg, "full_attention") \in Nat
  /\ Layers(cfg, "sliding_attention") \in Nat
  /\ LinearLayers(cfg) \in Nat
  /\ SumFunctionOnSet(f, 1..m) = Layers(cfg, "full_attention") * a
                                 + Layers(cfg, "sliding_attention") * b
                                 + LinearLayers(cfg) * c

\* What analyze_config counts of the layers, each with what it keeps, is what
\* the layers keep one by one.
LEMMA LayersAddUp ==
  ASSUME NEW cfg \in CfgType, NEW m \in Nat, Len(Owning(cfg)) = m, DOMAIN Owning(cfg) = 1..m,
         NEW a \in Nat, NEW b \in Nat, NEW c \in Nat,
         NEW f, KeptByLayer(f, cfg, a, b, c)
  PROVE  LayersSum(f, cfg, m, a, b, c)
<1>1. PICK own : own = Owning(cfg)
  OBVIOUS
<1>2. PICK D, S, T, R :
        /\ D = 1..m
        /\ S = {i \in D : own[i] = "full_attention"}
        /\ T = {i \in D : own[i] = "sliding_attention"}
        /\ R = {i \in D : own[i] \notin {"full_attention", "sliding_attention"}}
  OBVIOUS
<1>3. /\ S \in SUBSET D /\ T \in SUBSET D /\ R \in SUBSET D /\ S \cap T = {}
      /\ D = (S \cup T) \cup R /\ (S \cup T) \cap R = {}
  BY <1>2
<1>4. IsFiniteSet(D) /\ Cardinality(D) = m
  BY <1>2, FS_Interval
<1>5. /\ \A i \in S : f[i] = a
      /\ \A i \in T : f[i] = b
      /\ \A i \in R : f[i] = c
      /\ \A i \in D : f[i] \in Int
  BY <1>1, <1>2 DEF KeptByLayer, Kept
<1>6. Summable(f, D) /\ Summable(f, S \cup T)
  <2>1. Summable(f, D) /\ S \cup T \in SUBSET D
    BY <1>3, <1>4, <1>5 DEF Summable
  <2> QED BY <2>1, SumBasics
<1>7. /\ IsFiniteSet(S) /\ Cardinality(S) \in Nat
      /\ IsFiniteSet(T) /\ Cardinality(T) \in Nat
      /\ IsFiniteSet(R) /\ Cardinality(R) \in Nat
  BY <1>3, <1>4, FS_Subset, FS_CardinalityType
<1>8. /\ SumFunctionOnSet(f, S) = Cardinality(S) * a
      /\ SumFunctionOnSet(f, T) = Cardinality(T) * b
      /\ SumFunctionOnSet(f, R) = Cardinality(R) * c
  BY <1>5, <1>7, SumSame
<1>9. /\ SumFunctionOnSet(f, S \cup T) = SumFunctionOnSet(f, S) + SumFunctionOnSet(f, T)
      /\ Cardinality(S \cup T) = Cardinality(S) + Cardinality(T)
  <2>1. SumFunctionOnSet(f, S \cup T) = SumFunctionOnSet(f, S) + SumFunctionOnSet(f, T)
    BY <1>3, <1>6, SumUnion
  <2>2. Cardinality(S \cup T) = Cardinality(S) + Cardinality(T)
    BY <1>3, <1>7, DisjointUnion
  <2> QED BY <2>1, <2>2
<1>10. /\ SumFunctionOnSet(f, D) = SumFunctionOnSet(f, S \cup T) + SumFunctionOnSet(f, R)
       /\ Cardinality(D) = Cardinality(S \cup T) + Cardinality(R)
  <2>1. PICK U : U = S \cup T
    OBVIOUS
  <2>2. Summable(f, U \cup R) /\ U \cap R = {} /\ D = U \cup R
    BY <1>3, <1>6, <2>1
  <2>3. SumFunctionOnSet(f, U \cup R) = SumFunctionOnSet(f, U) + SumFunctionOnSet(f, R)
    BY <2>2, SumUnion
  <2>4. IsFiniteSet(U) /\ Cardinality(U) \in Nat
    BY <1>6, <2>1, SumBasics
  <2>5. Cardinality(U \cup R) = Cardinality(U) + Cardinality(R)
    BY <1>7, <2>2, <2>4, DisjointUnion
  <2> QED BY <2>1, <2>2, <2>3, <2>5
<1>11. Cardinality(R) = m - Cardinality(S) - Cardinality(T)
  BY <1>4, <1>7, <1>9, <1>10
<1>12. SumFunctionOnSet(f, D) = Cardinality(S) * a + Cardinality(T) * b + Cardinality(R) * c
  BY <1>8, <1>9, <1>10
<1>13. Cardinality(S) = Layers(cfg, "full_attention")
       /\ Cardinality(T) = Layers(cfg, "sliding_attention")
  BY <1>1, <1>2 DEF Layers
<1>14. Cardinality(R) = LinearLayers(cfg)
  BY <1>11, <1>13 DEF LinearLayers
<1> QED BY <1>2, <1>7, <1>12, <1>13, <1>14 DEF LayersSum

\* The footprint analyze_config and kv_bytes_per_seq compute of a sequence is
\* what its layers keep, for every model whose KV is known.
THEOREM FootprintAddsUp == DecisionsSpec => []KvAddsUp
<1>1. Known => KvAddsUp
  <2> SUFFICES ASSUME Known, About("capacity"), KvKnown(question.about.cfg)
               PROVE  KvAddsUp
    BY DEF KvAddsUp
  <2>1. PICK cfg \in CfgType : cfg = question.about.cfg
    BY TargetsAssumption DEF Known, About, Idle, TargetType
  <2> DEFINE window(len) == IF cfg.sliding_window = 0 THEN len
                            ELSE cfg.sliding_window + DefaultBatch - 1
             keeps(type, len) ==
               CASE type = "full_attention" -> FullLayer(cfg) * len
                 [] type = "sliding_attention" -> SlidingLayer(cfg) * Smaller(len, window(len))
                 [] OTHER -> cfg.linear_state
             owning == 1..(cfg.num_hidden_layers - cfg.num_kv_shared_layers)
  <2> SUFFICES ASSUME NEW len \in ContextLens
               PROVE  KvPerSeq(AnalyzeConfig(cfg), len, DefaultBatch)
                        = SumFunction([i \in owning |-> keeps(LayerTypes(cfg)[i], len)])
    BY <2>1 DEF KvAddsUp
  <2>2. PICK m \in Nat : /\ Len(Owning(cfg)) = m /\ DOMAIN Owning(cfg) = 1..m
                         /\ \A i \in 1..m : Owning(cfg)[i] = LayerTypes(cfg)[i]
                         /\ owning = 1..m
    BY OwningLayers
  <2>3. PICK w \in Nat : /\ w = Smaller(len, window(len))
                         /\ w = WindowTokens(cfg.sliding_window, len, DefaultBatch)
    <3>1. PICK size \in Nat, n \in Nat, batch \in Nat \ {0} :
            size = cfg.sliding_window /\ n = len /\ batch = DefaultBatch
      BY CapacityAssumption DEF CfgType
    <3>2. size + batch - 1 = size - 1 + batch /\ size + batch - 1 \in Nat
      BY <3>1
    <3> QED BY <3>1, <3>2 DEF Smaller, WindowTokens
  <2>4. len \in Nat /\ FullLayer(cfg) \in Nat /\ SlidingLayer(cfg) \in Nat
        /\ cfg.linear_state \in Nat
    BY CapacityAssumption, LayerFootprints DEF CfgType
  <2>5. PICK x \in Nat, y \in Nat, z \in Nat :
          x = FullLayer(cfg) * len /\ y = SlidingLayer(cfg) * w /\ z = cfg.linear_state
    BY <2>3, <2>4, Times
  <2>6. PICK f : f = [i \in owning |-> keeps(LayerTypes(cfg)[i], len)]
    OBVIOUS
  <2>7. KeptByLayer(f, cfg, x, y, z)
    BY <2>2, <2>3, <2>5, <2>6 DEF KeptByLayer, Kept
  <2>a. /\ Layers(cfg, "full_attention") \in Nat /\ Layers(cfg, "sliding_attention") \in Nat
        /\ LinearLayers(cfg) \in Nat
        /\ SumFunctionOnSet(f, 1..m) = Layers(cfg, "full_attention") * x
                                       + Layers(cfg, "sliding_attention") * y
                                       + LinearLayers(cfg) * z
    <3>1. LayersSum(f, cfg, m, x, y, z)
      <4>1. cfg \in CfgType /\ m \in Nat /\ x \in Nat /\ y \in Nat /\ z \in Nat
        BY <2>2, <2>5
      <4> QED BY <2>2, <2>7, <4>1, LayersAddUp
    <3> QED BY <3>1 DEF LayersSum
  <2>8. PICK full \in Nat, sliding \in Nat, linear \in Nat :
          /\ full = Layers(cfg, "full_attention") /\ sliding = Layers(cfg, "sliding_attention")
          /\ linear = LinearLayers(cfg)
          /\ SumFunctionOnSet(f, 1..m) = full * x + sliding * y + linear * z
    BY <2>a
  <2>9. PICK a : /\ a = AnalyzeConfig(cfg)
                 /\ a.kv_per_token = full * FullLayer(cfg)
                 /\ a.sliding_per_token = sliding * SlidingLayer(cfg)
                 /\ a.linear_per_seq = linear * cfg.linear_state
                 /\ a.sliding_window = cfg.sliding_window
    <3>1. AnalyzeConfig(cfg) =
            [full_layers |-> full, linear_layers |-> linear,
             kv_per_token |-> IF KvKnown(cfg) THEN full * FullLayer(cfg) ELSE Unknown,
             sliding_per_token |-> IF KvKnown(cfg) THEN sliding * SlidingLayer(cfg) ELSE 0,
             linear_per_seq |-> IF KvKnown(cfg) THEN linear * cfg.linear_state ELSE 0,
             sliding_window |-> cfg.sliding_window]
      BY <2>8 DEF AnalyzeConfig, Layers, LinearLayers
    <3> QED BY <3>1, <2>1
  <2>10. full * FullLayer(cfg) # Unknown
    <3>1. full * FullLayer(cfg) \in Nat
      BY <2>4, Times
    <3> QED BY <3>1 DEF Unknown
  <2>11. KvPerSeq(a, len, DefaultBatch) = (full * FullLayer(cfg)) * len
                                          + (sliding * SlidingLayer(cfg)) * w
                                          + linear * cfg.linear_state
    BY <2>3, <2>9, <2>10 DEF KvPerSeq
  <2>12. /\ (full * FullLayer(cfg)) * len = full * (FullLayer(cfg) * len)
         /\ (sliding * SlidingLayer(cfg)) * w = sliding * (SlidingLayer(cfg) * w)
    BY <2>4, Reassociate
  <2>13. SumFunction(f) = SumFunctionOnSet(f, 1..m)
    BY <2>2, <2>6 DEF SumFunction
  <2> QED BY <2>5, <2>6, <2>8, <2>9, <2>11, <2>12, <2>13
<1> QED BY <1>1, AlwaysKnown, PTL

BudgetType == [gib : Nat, dedicated : BOOLEAN, overhead : Int]

LEMMA IntTimes ==
  ASSUME NEW m \in Int, NEW n \in Int
  PROVE  m * n \in Int
OBVIOUS

\* The memory left for KV is a number, perhaps a negative one.
LEMMA KvBudgetTyped ==
  ASSUME NEW budget \in BudgetType, NEW util \in Nat, NEW weight \in Nat
  PROVE  KvBudget(budget, util, weight) \in Int
<1>1. budget.gib * util \in Int /\ budget.gib * GIB \in Int
  BY IntTimes, CapacityAssumption DEF BudgetType
<1>2. (budget.gib * util - weight - budget.overhead) * GIB \in Int
  BY <1>1, IntTimes, CapacityAssumption DEF BudgetType
<1> QED BY <1>1, <1>2 DEF KvBudget

\* The capacity is given for lengths whose footprint is positive, and is the
\* number of footprints in the memory.
LEMMA CapacityTyped ==
  ASSUME NEW a \in AnalysisType, NEW budget \in BudgetType, NEW util \in Nat,
         NEW weight \in Nat, NEW maxContext \in Nat, NEW batched \in Nat,
         NEW capacity, capacity = CapacityTable(a, budget, util, weight, maxContext, batched)
  PROVE  /\ DOMAIN capacity \subseteq Nat \ {0}
         /\ \A len \in DOMAIN capacity :
              /\ KvPerSeq(a, len, batched) \in Nat \ {0}
              /\ capacity[len] = Larger(0, KvBudget(budget, util, weight)
                                           \div (100 * KvPerSeq(a, len, batched)))
              /\ capacity[len] \in Nat
<1>1. DOMAIN capacity \subseteq Nat \ {0}
  BY CapacityAssumption DEF CapacityTable
<1>2. ASSUME NEW len \in DOMAIN capacity
      PROVE  /\ KvPerSeq(a, len, batched) \in Nat \ {0}
             /\ capacity[len] = Larger(0, KvBudget(budget, util, weight)
                                          \div (100 * KvPerSeq(a, len, batched)))
             /\ capacity[len] \in Nat
  <2>1. KvPerSeq(a, len, batched) \in Nat \ {0}
    BY <1>1, FootprintTyped DEF CapacityTable
  <2>2. capacity[len] = Larger(0, KvBudget(budget, util, weight)
                                  \div (100 * KvPerSeq(a, len, batched)))
    BY DEF CapacityTable
  <2>3. KvBudget(budget, util, weight) \div (100 * KvPerSeq(a, len, batched)) \in Int
    <3>1. 100 * KvPerSeq(a, len, batched) \in Nat /\ 100 * KvPerSeq(a, len, batched) > 0
      BY <2>1
    <3> QED BY <3>1, KvBudgetTyped, DivProp
  <2> QED BY <2>1, <2>2, <2>3 DEF Larger
<1> QED BY <1>1, <1>2

\* The memory budget of a target.
LEMMA BudgetTyped ==
  ASSUME NEW target \in TargetType
  PROVE  MemoryBudget(target) \in BudgetType
<1>1. target.gpus * target.accelerator \in Nat
  BY Times DEF TargetType
<1>2. GpuOverhead(target.gpus) \in Int
  <2>1. PICK n \in Nat : n = CASE target.gpus <= 1 -> 600 [] target.gpus = 2 -> 1000
                              [] target.gpus \in 3..4 -> 1600 [] OTHER -> 2400
    BY DEF TargetType
  <2>2. target.gpus * n \in Int
    BY IntTimes DEF TargetType
  <2> QED BY <2>1, <2>2 DEF GpuOverhead
<1> QED BY <1>1, <1>2 DEF MemoryBudget, BudgetType, TargetType

\* The overhead solved from what vLLM measured.
LEMMA OverheadTyped ==
  ASSUME NEW a \in AnalysisType, NEW budget \in BudgetType, NEW util \in Nat,
         NEW weight \in Nat, NEW pool \in Nat, NEW available \in Nat, NEW gpus \in Nat
  PROVE  CalibratedOverhead(a, budget, util, weight, pool, available, gpus) \in Int
<1> SUFFICES ASSUME ~(\/ budget.dedicated \/ budget.gib = 0 \/ weight = 0
                      \/ /\ available = 0
                         /\ \/ pool = 0 \/ a.kv_per_token \in {0, Unknown}
                            \/ a.sliding_per_token # 0 \/ a.linear_per_seq # 0)
             PROVE  CalibratedOverhead(a, budget, util, weight, pool, available, gpus) \in Int
  BY DEF CalibratedOverhead, Unknown
<1>1. PICK kv \in Int : kv = IF available # 0 THEN available * Larger(gpus, 1) * GIB
                             ELSE pool * a.kv_per_token * 100
  <2>1. a.kv_per_token \in Int
    BY DEF AnalysisType, Unknown
  <2>2. pool * a.kv_per_token \in Int
    BY <2>1, IntTimes
  <2>3. available * Larger(gpus, 1) \in Int
    BY IntTimes DEF Larger
  <2>4. available * Larger(gpus, 1) * GIB \in Int
    BY <2>3, IntTimes, CapacityAssumption
  <2> QED BY <2>2, <2>4
<1>2. PICK left \in Int : left = (budget.gib * util - weight) * GIB - kv
  <2>1. budget.gib * util \in Int
    BY IntTimes DEF BudgetType
  <2>2. (budget.gib * util - weight) * GIB \in Int
    BY <2>1, IntTimes, CapacityAssumption
  <2> QED BY <2>2
<1>3. (2 * left + GIB) \div (2 * GIB) \in Int
  BY DivProp, CapacityAssumption
<1>4. CalibratedOverhead(a, budget, util, weight, pool, available, gpus)
        = IF left < 0 THEN Unknown ELSE (2 * left + GIB) \div (2 * GIB)
  BY <1>1, <1>2 DEF CalibratedOverhead
<1> QED BY <1>3, <1>4 DEF Unknown

\* suggest_search_space: between 32 and 1024, the lower end at most 256, and
\* above 64 only as far as sequences of some length fit.
LEMMA SuggestedSpace ==
  ASSUME NEW capacity, NEW served \in Nat, DOMAIN capacity \subseteq Nat \ {0},
         \A len \in DOMAIN capacity : capacity[len] \in Nat,
         NEW space \in SuggestSearchSpace(capacity, served)
  PROVE  /\ space.min \in 32..256 /\ space.max \in Int /\ space.min < space.max
         /\ space.max > 64 => \E len \in DOMAIN capacity : space.max <= capacity[len]
<1>1. PICK fitting : fitting = {l \in DOMAIN capacity : /\ capacity[l] >= 1
                                                        /\ served = 0 \/ l <= served}
  OBVIOUS
<1>2. fitting # {}
  BY <1>1 DEF SuggestSearchSpace
<1>3. Min(fitting) \in fitting
  <2>1. fitting \in SUBSET Nat
    BY <1>1
  <2> QED BY <2>1, <1>2, MinProp
<1>4. PICK typical : /\ typical = IF Typical \in fitting THEN capacity[Typical]
                                  ELSE capacity[Min(fitting)]
                     /\ typical \in Nat
                     /\ \E len \in DOMAIN capacity : typical = capacity[len]
  BY <1>1, <1>3
<1>5. PICK max : max = Larger(64, Smaller(1024, (typical \div 32) * 32))
  OBVIOUS
<1>10. max \in 64..1024 /\ (max > 64 => max <= typical)
  <2>1. PICK rounded \in Nat : rounded = (typical \div 32) * 32 /\ rounded <= typical
    BY <1>4
  <2>2. max = Larger(64, Smaller(1024, rounded))
    BY <1>5, <2>1
  <2>3. typical \in Nat
    BY <1>4
  <2> QED BY <2>1, <2>2, <2>3 DEF Larger, Smaller
<1>6. space = [min |-> Larger(32, (max \div 128) * 32), max |-> max]
  <2>1. SuggestSearchSpace(capacity, served)
          = {[min |-> Larger(32, (max \div 128) * 32), max |-> max]}
    <3>1. SuggestSearchSpace(capacity, served)
            = LET t == IF Typical \in fitting THEN capacity[Typical] ELSE capacity[Min(fitting)]
                  m == Larger(64, Smaller(1024, (t \div 32) * 32))
              IN IF fitting = {} THEN {}
                 ELSE {[min |-> Larger(32, (m \div 128) * 32), max |-> m]}
      BY <1>1 DEF SuggestSearchSpace
    <3>2. typical = IF Typical \in fitting THEN capacity[Typical] ELSE capacity[Min(fitting)]
      BY <1>4
    <3>3. max = Larger(64, Smaller(1024, (typical \div 32) * 32))
      BY <1>5
    <3> QED BY <3>1, <3>2, <3>3, <1>2
  <2> QED BY <2>1
<1>7. Larger(32, (max \div 128) * 32) \in 32..256 /\ Larger(32, (max \div 128) * 32) < max
  <2>1. PICK d \in Nat : d = max \div 128 /\ d * 128 <= max
    BY <1>10
  <2>2. d * 32 \in 0..256 /\ d * 32 < max
    BY <1>10, <2>1
  <2> QED BY <1>10, <2>1, <2>2 DEF Larger
<1>8. space.max = max /\ space.min = Larger(32, (max \div 128) * 32)
  BY <1>6
<1>9. max > 64 => \E len \in DOMAIN capacity : max <= capacity[len]
  <2>1. PICK len \in DOMAIN capacity : typical = capacity[len]
    BY <1>4
  <2> QED BY <2>1, <1>10
<1> QED BY <1>7, <1>8, <1>9, <1>10

UtilOf(target) == OrElse(target.util, OrElse(target.running_util, DefaultUtil))

\* The same, said of a space and the capacity it comes from.
SoundSpace(space, capacity) ==
  /\ space.min \in 32..256 /\ space.max \in Int /\ space.min < space.max
  /\ space.max > 64 => \E len \in DOMAIN capacity : space.max <= capacity[len]

\* The result of _analyze_target: every quotient is by a positive footprint,
\* the calibrated overhead is that of the one observation there is, and the
\* space is a sound one, brought below the block count.
LEMMA Analysed ==
  ASSUME NEW target \in TargetType, \A o, p \in target.observed : o = p
  PROVE  LET result == AnalyzeTarget(target)
             weight == target.weight
         IN /\ result.analysis = AnalyzeConfig(target.cfg)
            /\ result.budget \in BudgetType /\ result.batched \in Nat /\ UtilOf(target) \in Nat
            /\ \A len \in DOMAIN result.capacity :
                 /\ result.budget.gib # 0
                 /\ len \in Nat \ {0} /\ result.capacity[len] \in Nat
                 /\ KvPerSeq(result.analysis, len, result.batched) \in Nat \ {0}
                 /\ result.capacity[len]
                      = Larger(0, KvBudget(result.budget, UtilOf(target), weight)
                                    \div (100 * KvPerSeq(result.analysis, len, result.batched)))
            /\ \A o \in target.observed :
                 result.calibrated =>
                   \E overhead \in Int \ {Unknown} :
                     /\ overhead = CalibratedOverhead(result.analysis, MemoryBudget(target),
                                     OrElse(target.running_util, DefaultUtil), weight,
                                     o.pool, o.available, target.gpus)
                     /\ result.budget = [MemoryBudget(target) EXCEPT !.overhead = overhead]
            /\ \A space \in result.space :
                 /\ target.observed = {} => SoundSpace(space, result.capacity)
                 /\ \A o \in target.observed :
                      \E capacity, wide :
                        /\ SoundSpace(wide, capacity)
                        /\ space \in Clamp({wide}, MambaSeqCap(result.analysis, o))
<1> DEFINE a == AnalyzeConfig(target.cfg)
           budget == MemoryBudget(target)
           running == OrElse(target.running_util, DefaultUtil)
           util == OrElse(target.util, running)
           batched == OrElse(target.batched, IF target.gpus > 0 THEN DefaultBatch ELSE 0)
           served == target.served
           maxContext == OrElse(target.context_limit, served)
           calibrated ==
             IF target.observed = {} \/ ~Accelerator(target) THEN Unknown
             ELSE LET o == CHOOSE o \in target.observed : TRUE
                  IN CalibratedOverhead(a, budget, running, target.weight, o.pool,
                                        o.available, target.gpus)
           used == IF calibrated = Unknown THEN budget ELSE [budget EXCEPT !.overhead = calibrated]
           capacity == IF budget.gib = 0 THEN [l \in {} |-> 0]
                       ELSE CapacityTable(a, used, util, target.weight, maxContext, batched)
           estimated == SuggestSearchSpace(capacity, served)
           measured == UNION {SuggestSearchSpace(ObservedCapacity(o.pool, served), served) :
                              o \in target.observed}
           cap == IF target.observed = {} THEN 0
                  ELSE MambaSeqCap(a, CHOOSE o \in target.observed : TRUE)
           result == AnalyzeTarget(target)
<1>1. a \in AnalysisType
  BY AnalysisTyped DEF TargetType
<1>2. budget \in BudgetType
  BY BudgetTyped
<1>3. running \in Nat
  BY CapacityAssumption DEF OrElse, TargetType
<1>4. util \in Nat
  <2> HIDE DEF running
  <2> QED BY <1>3 DEF OrElse, TargetType
<1>5. batched \in Nat
  BY CapacityAssumption DEF OrElse, TargetType
<1>6. served \in Nat /\ maxContext \in Nat
  BY DEF OrElse, TargetType
<1>14. result = [analysis |-> a, budget |-> used, calibrated |-> calibrated # Unknown,
                 batched |-> batched, capacity |-> capacity,
                 space |-> Clamp(IF measured # {} THEN measured ELSE estimated, cap)]
  BY DEF AnalyzeTarget
<1> HIDE DEF a, budget, running, util, batched, served, maxContext
<1>7. calibrated \in Int
  <2>1. CASE target.observed = {} \/ ~Accelerator(target)
    BY <2>1 DEF Unknown
  <2>2. CASE ~(target.observed = {} \/ ~Accelerator(target))
    <3>1. PICK o \in target.observed : o = CHOOSE x \in target.observed : TRUE
      BY <2>2
    <3>2. o.pool \in Nat /\ o.available \in Nat /\ target.weight \in Nat /\ target.gpus \in Nat
      BY DEF TargetType
    <3>3. CalibratedOverhead(a, budget, running, target.weight, o.pool, o.available, target.gpus)
            \in Int
      BY <1>1, <1>2, <1>3, <3>2, OverheadTyped
    <3> QED BY <2>2, <3>1, <3>3
  <2> QED BY <2>1, <2>2
<1>b. ASSUME NEW o \in target.observed, calibrated # Unknown
      PROVE  calibrated = CalibratedOverhead(a, budget, running, target.weight, o.pool,
                                             o.available, target.gpus)
  <2>1. PICK p \in target.observed : p = CHOOSE x \in target.observed : TRUE
    OBVIOUS
  <2>2. o = p
    OBVIOUS
  <2> QED BY <2>1, <2>2, <1>b
<1> HIDE DEF calibrated
<1>c. calibrated # Unknown => used = [budget EXCEPT !.overhead = calibrated]
  OBVIOUS
<1>8. used \in BudgetType /\ used.gib = budget.gib
  BY <1>2, <1>7 DEF BudgetType
<1> HIDE DEF used, capacity, result
<1>9. /\ DOMAIN capacity \subseteq Nat \ {0}
      /\ \A len \in DOMAIN capacity :
           /\ used.gib # 0
           /\ len \in Nat \ {0} /\ capacity[len] \in Nat
           /\ KvPerSeq(a, len, batched) \in Nat \ {0}
           /\ capacity[len] = Larger(0, KvBudget(used, util, target.weight)
                                        \div (100 * KvPerSeq(a, len, batched)))
  <2>1. CASE budget.gib = 0
    BY <2>1 DEF capacity
  <2>2. CASE budget.gib # 0
    <3>1. capacity = CapacityTable(a, used, util, target.weight, maxContext, batched)
      BY <2>2 DEF capacity
    <3>2. PICK weight \in Nat : weight = target.weight
      BY DEF TargetType
    <3>3. capacity = CapacityTable(a, used, util, weight, maxContext, batched)
      BY <3>1, <3>2
    <3>4. /\ DOMAIN capacity \subseteq Nat \ {0}
          /\ \A len \in DOMAIN capacity :
               /\ KvPerSeq(a, len, batched) \in Nat \ {0}
               /\ capacity[len] = Larger(0, KvBudget(used, util, weight)
                                            \div (100 * KvPerSeq(a, len, batched)))
               /\ capacity[len] \in Nat
      BY <1>1, <1>4, <1>5, <1>6, <1>8, <3>3, CapacityTyped
    <3>5. used.gib # 0
      BY <1>8, <2>2
    <3> QED BY <3>2, <3>4, <3>5, Zenon
  <2> QED BY <2>1, <2>2
<1>10. \A space \in estimated : SoundSpace(space, capacity)
  BY <1>6, <1>9, SuggestedSpace DEF SoundSpace
<1>11. ASSUME NEW o \in target.observed
       PROVE  \A space \in SuggestSearchSpace(ObservedCapacity(o.pool, served), served) :
                SoundSpace(space, ObservedCapacity(o.pool, served))
  <2>1. PICK observed : observed = ObservedCapacity(o.pool, served)
    OBVIOUS
  <2>2. /\ DOMAIN observed \subseteq Nat \ {0}
        /\ \A len \in DOMAIN observed : observed[len] = o.pool \div len
    BY <2>1, CapacityAssumption DEF ObservedCapacity
  <2>3. \A len \in DOMAIN observed : observed[len] \in Nat
    BY <2>2, DivNat DEF TargetType
  <2> QED BY <2>1, <2>2, <2>3, <1>6, SuggestedSpace DEF SoundSpace
<1>12. \A o \in target.observed : cap = MambaSeqCap(a, o)
  <2> SUFFICES ASSUME NEW o \in target.observed PROVE cap = MambaSeqCap(a, o)
    OBVIOUS
  <2>1. PICK p \in target.observed : p = CHOOSE x \in target.observed : TRUE
    OBVIOUS
  <2>2. o = p
    OBVIOUS
  <2> QED BY <2>1, <2>2
<1>13. target.observed = {} => measured = {} /\ cap = 0
  OBVIOUS
<1>15. ASSUME NEW space \in result.space
       PROVE  /\ target.observed = {} => SoundSpace(space, capacity)
              /\ \A o \in target.observed :
                   \E table, wide : /\ SoundSpace(wide, table)
                                   /\ space \in Clamp({wide}, MambaSeqCap(a, o))
  <2>1. PICK wide \in IF measured # {} THEN measured ELSE estimated :
          space \in Clamp({wide}, cap)
    BY <1>14 DEF Clamp
  <2>2. \E table : SoundSpace(wide, table)
    BY <2>1, <1>10, <1>11
  <2>3. ASSUME target.observed = {} PROVE SoundSpace(space, capacity)
    BY <2>1, <2>3, <1>10, <1>13 DEF Clamp
  <2> QED BY <2>1, <2>2, <2>3, <1>12
<1>16. util = UtilOf(target)
  BY DEF util, running, UtilOf
<1>17. /\ result.analysis = a /\ result.budget = used /\ result.batched = batched
       /\ result.capacity = capacity /\ result.calibrated = (calibrated # Unknown)
  BY <1>14
<1>18. ASSUME NEW o \in target.observed, result.calibrated
       PROVE  \E overhead \in Int \ {Unknown} :
                /\ overhead = CalibratedOverhead(result.analysis, MemoryBudget(target),
                                OrElse(target.running_util, DefaultUtil), target.weight,
                                o.pool, o.available, target.gpus)
                /\ result.budget = [MemoryBudget(target) EXCEPT !.overhead = overhead]
  <2>1. calibrated \in Int \ {Unknown}
    BY <1>7, <1>17, <1>18
  <2>2. calibrated = CalibratedOverhead(a, budget, running, target.weight, o.pool,
                                        o.available, target.gpus)
    BY <2>1, <1>b
  <2>3. result.budget = [budget EXCEPT !.overhead = calibrated]
    BY <2>1, <1>c, <1>17
  <2>4. result.analysis = a /\ budget = MemoryBudget(target)
        /\ running = OrElse(target.running_util, DefaultUtil)
    BY <1>17 DEF budget, running
  <2>5. calibrated = CalibratedOverhead(result.analysis, MemoryBudget(target),
                       OrElse(target.running_util, DefaultUtil), target.weight,
                       o.pool, o.available, target.gpus)
    BY <2>2, <2>4
  <2>6. result.budget = [MemoryBudget(target) EXCEPT !.overhead = calibrated]
    BY <2>3, <2>4
  <2>7. PICK overhead \in Int \ {Unknown} : overhead = calibrated
    BY <2>1
  <2> WITNESS overhead \in Int \ {Unknown}
  <2> QED BY <2>5, <2>6, <2>7
<1>19. result = AnalyzeTarget(target) /\ a = AnalyzeConfig(target.cfg)
  BY DEF a, result
<1>20. /\ result.analysis = AnalyzeConfig(target.cfg)
       /\ result.budget \in BudgetType /\ result.batched \in Nat /\ UtilOf(target) \in Nat
  BY <1>4, <1>5, <1>8, <1>16, <1>17, <1>19
<1>21. \A len \in DOMAIN result.capacity :
         /\ result.budget.gib # 0
         /\ len \in Nat \ {0} /\ result.capacity[len] \in Nat
         /\ KvPerSeq(result.analysis, len, result.batched) \in Nat \ {0}
         /\ result.capacity[len]
              = Larger(0, KvBudget(result.budget, UtilOf(target), target.weight)
                            \div (100 * KvPerSeq(result.analysis, len, result.batched)))
  BY <1>9, <1>16, <1>17, Zenon
<1>22. \A space \in result.space :
         /\ target.observed = {} => SoundSpace(space, result.capacity)
         /\ \A o \in target.observed :
              \E table, wide : /\ SoundSpace(wide, table)
                              /\ space \in Clamp({wide}, MambaSeqCap(result.analysis, o))
  BY <1>15, <1>17, Zenon
<1>23. \A o \in target.observed :
         result.calibrated =>
           \E overhead \in Int \ {Unknown} :
             /\ overhead = CalibratedOverhead(result.analysis, MemoryBudget(target),
                             OrElse(target.running_util, DefaultUtil), target.weight,
                             o.pool, o.available, target.gpus)
             /\ result.budget = [MemoryBudget(target) EXCEPT !.overhead = overhead]
  BY <1>18
<1> QED BY <1>20, <1>21, <1>22, <1>23, Zenon DEF result

\* The overhead of a calibrated target is the one its pool was observed with.
LEMMA CalibratedBy ==
  ASSUME NEW target \in TargetType, \A o, p \in target.observed : o = p,
         NEW o \in target.observed, AnalyzeTarget(target).calibrated
  PROVE  \E overhead \in Int \ {Unknown} :
           /\ overhead = CalibratedOverhead(AnalyzeTarget(target).analysis, MemoryBudget(target),
                           OrElse(target.running_util, DefaultUtil), target.weight,
                           o.pool, o.available, target.gpus)
           /\ AnalyzeTarget(target).budget = [MemoryBudget(target) EXCEPT !.overhead = overhead]
BY Analysed, Zenon

\* A question about capacity is about a target.
LEMMA KnownTarget ==
  ASSUME Known, About("capacity")
  PROVE  /\ question.about \in TargetType
         /\ \A o, p \in question.about.observed : o = p
<1>1. question.about \in Targets
  BY DEF Known, About, Idle
<1> QED BY <1>1, TargetsAssumption

\* The space suggested can be searched.
LEMMA SuggestedUsable == Known => SpaceUsable
<1> SUFFICES ASSUME Known, About("capacity")
             PROVE  SpaceUsable
  BY DEF SpaceUsable
<1>1. PICK target \in TargetType : /\ target = question.about
                                   /\ \A o, p \in target.observed : o = p
  BY KnownTarget
<1>2. PICK result : result = AnalyzeTarget(target)
  OBVIOUS
<1>3. \A space \in result.space :
        /\ target.observed = {} => SoundSpace(space, result.capacity)
        /\ \A o \in target.observed :
             \E capacity, wide :
               /\ SoundSpace(wide, capacity)
               /\ space \in Clamp({wide}, MambaSeqCap(result.analysis, o))
  <2>1. \A space \in AnalyzeTarget(target).space :
          /\ target.observed = {} => SoundSpace(space, AnalyzeTarget(target).capacity)
          /\ \A o \in target.observed :
               \E capacity, wide :
                 /\ SoundSpace(wide, capacity)
                 /\ space \in Clamp({wide}, MambaSeqCap(AnalyzeTarget(target).analysis, o))
    BY <1>1, Analysed, Zenon
  <2> QED BY <2>1, <1>2, Zenon
<1>4. \A o \in target.observed : MambaSeqCap(result.analysis, o) \in Nat
  BY <1>1 DEF MambaSeqCap, TargetType
<1>5. ASSUME NEW space \in result.space, NEW o \in target.observed,
             NEW cap, cap = MambaSeqCap(result.analysis, o)
      PROVE  /\ space.min <= space.max
             /\ cap # 0 => space.max <= cap
             /\ (cap = 0 \/ cap > 256) => space.min < space.max
  <2>1. PICK capacity, wide : SoundSpace(wide, capacity) /\ space \in Clamp({wide}, cap)
    BY <1>3, <1>5
  <2>2. space = IF cap = 0 \/ wide.max <= cap THEN wide
                ELSE [min |-> Smaller(wide.min, cap), max |-> cap]
    BY <2>1 DEF Clamp
  <2> QED BY <2>1, <2>2, <1>4, <1>5 DEF SoundSpace, Smaller
<1>6. ASSUME NEW space \in result.space, target.observed = {}
      PROVE  /\ 0 < space.min /\ space.min < space.max /\ space.min <= space.max
             /\ space.max > 64 => \E len \in DOMAIN result.capacity :
                                    space.max <= result.capacity[len]
  BY <1>3, <1>6 DEF SoundSpace
<1> QED BY <1>1, <1>2, <1>5, <1>6 DEF SpaceUsable

\* For every model, accelerator, observation, range and suggestion, the study
\* of a tuning has something to choose from, and the suggestions queued for it
\* are points of its grid.
THEOREM StudyAlwaysHasChoice == DecisionsSpec => []StudyHasChoice
<1>1. Known => StudyHasChoice
  BY SpaceNotEmpty, SuggestionOnGrid, SuggestedUsable DEF StudyHasChoice
<1> QED BY <1>1, AlwaysKnown, PTL

\* What a capacity of two or more, and of none, say of the memory.
LEMMA Fits ==
  ASSUME NEW pool \in Int, NEW need \in Nat \ {0}, NEW fit, fit = Larger(0, pool \div (100 * need))
  PROVE  /\ fit >= 2 => pool >= 200 * need
         /\ fit = 0 => pool < 100 * need
<1>1. PICK k \in Nat : k = 100 * need /\ k > 0
  OBVIOUS
<1>2. PICK q \in Int : q = pool \div k /\ q * k <= pool /\ pool < q * k + k
  BY <1>1, DivProp
<1>3. fit = Larger(0, q)
  BY <1>1, <1>2
<1>4. ASSUME q >= 2 PROVE q * k >= 2 * k
  <2>1. q * k - 2 * k = (q - 2) * k
    BY <1>1
  <2>2. (q - 2) * k >= 0
    BY <1>1, <1>4
  <2>3. q * k \in Int
    BY <1>1
  <2> QED BY <2>1, <2>2, <2>3, <1>1
<1>5. ASSUME q <= 0 PROVE q * k <= 0
  BY <1>1, <1>5
<1>6. q * k \in Int
  BY <1>1
<1> QED BY <1>1, <1>2, <1>3, <1>4, <1>5, <1>6 DEF Larger

\* What capacity_table and kv_cache_oom_risk, which compute the footprint apart,
\* say of one another: for every model without linear layers no trial is
\* skipped where two sequences fit, and for those of them with a layer of full
\* attention every trial is where none fits.
THEOREM RiskAgreesWithCapacity == DecisionsSpec => []RiskAgrees
<1>1. Known => RiskAgrees
  <2> SUFFICES ASSUME Known, About("capacity")
               PROVE  RiskAgrees
    BY DEF RiskAgrees
  <2>1. PICK target \in TargetType : /\ target = question.about
                                     /\ \A o, p \in target.observed : o = p
    BY KnownTarget
  <2>2. PICK result : result = AnalyzeTarget(target)
    OBVIOUS
  <2>3. PICK a \in AnalysisType :
          /\ a = result.analysis /\ a = AnalyzeConfig(target.cfg)
          /\ a.full_layers > 0 => a.kv_per_token # 0
    BY <2>1, <2>2, Analysed, AnalysisTyped DEF TargetType
  <2> SUFFICES ASSUME a.linear_per_seq = 0, NEW len \in DOMAIN result.capacity,
                      NEW trial, trial = [max_model_len |-> len, max_num_seqs |-> 64,
                                          batched |-> result.batched, util |-> UtilOf(target)]
               PROVE  /\ result.capacity[len] >= 2 => ~OomRisk(target, result, trial)
                      /\ (result.capacity[len] = 0 /\ a.full_layers > 0) =>
                           OomRisk(target, result, trial)
    BY <2>1, <2>2, <2>3 DEF RiskAgrees, TrialFor, UtilOf
  <2>a. CASE a.kv_per_token = 0
    BY <2>3, <2>a DEF OomRisk
  <2> SUFFICES ASSUME a.kv_per_token # 0
               PROVE  /\ result.capacity[len] >= 2 => ~OomRisk(target, result, trial)
                      /\ result.capacity[len] = 0 => OomRisk(target, result, trial)
    BY <2>a
  <2>4. /\ result.budget \in BudgetType /\ result.batched \in Nat /\ UtilOf(target) \in Nat
        /\ result.budget.gib # 0 /\ len \in Nat \ {0}
    BY <2>1, <2>2, Analysed
  <2>5. PICK need \in Nat \ {0} : need = KvPerSeq(a, len, result.batched)
    BY <2>1, <2>2, <2>3, Analysed
  <2>6. PICK pool \in Int : pool = KvBudget(result.budget, UtilOf(target), target.weight)
    BY <2>1, <2>4, KvBudgetTyped DEF TargetType
  <2>7. result.capacity[len] = Larger(0, pool \div (100 * need))
    BY <2>1, <2>2, <2>3, <2>5, <2>6, Analysed
  <2>8. /\ result.capacity[len] >= 2 => pool >= 200 * need
        /\ result.capacity[len] = 0 => pool < 100 * need
    BY <2>5, <2>6, <2>7, Fits
  <2>9. /\ a.kv_per_token \notin {0, Unknown}
        /\ need = a.kv_per_token * len
                  + a.sliding_per_token * WindowTokens(a.sliding_window, len, result.batched)
    <3>1. a.kv_per_token # Unknown
      BY <2>5 DEF KvPerSeq, Unknown
    <3>2. /\ a.kv_per_token * len \in Nat
          /\ a.sliding_per_token * WindowTokens(a.sliding_window, len, result.batched) \in Nat
      BY <3>1, <2>4, FootprintTyped, Times DEF AnalysisType
    <3> QED BY <3>1, <3>2, <2>3, <2>5 DEF KvPerSeq
  <2>10. BootState(a, target.openvino) * 64 = 0
    BY DEF BootState
  <2>11. OomRisk(target, result, trial) <=> need * 1000 > pool * 9
    <3>1. Larger(need, 0) = need
      BY <2>5 DEF Larger
    <3> QED BY <3>1, <2>3, <2>4, <2>6, <2>9, <2>10 DEF OomRisk
  <2> QED BY <2>5, <2>6, <2>8, <2>11
<1> QED BY <1>1, AlwaysKnown, PTL

\* A change of the dividend changes the quotient by hardly more than its own.
LEMMA QuotientsClose ==
  ASSUME NEW x \in Int, NEW e \in Int, NEW half \in Nat, NEW d \in Nat \ {0},
         -half <= e, e <= half
  PROVE  /\ (x + e) \div d - x \div d <= 1 + half \div d
         /\ x \div d - (x + e) \div d <= 1 + half \div d
<1>1. PICK p \in Int : p = (x + e) \div d /\ p * d <= x + e /\ x + e < p * d + d
  BY DivProp
<1>2. PICK q \in Int : q = x \div d /\ q * d <= x /\ x < q * d + d
  BY DivProp
<1>3. PICK h \in Int : h = half \div d /\ h * d <= half /\ half < h * d + d
  BY DivProp
<1>4. p * d \in Int /\ q * d \in Int /\ h * d \in Int
  BY IntTimes
<1>5. (p - q - h - 2) * d = p * d - q * d - h * d - 2 * d
  OBVIOUS
<1>6. (q - p - h - 2) * d = q * d - p * d - h * d - 2 * d
  OBVIOUS
<1>7. \A n \in Int : n * d < 0 => n < 0
  OBVIOUS
<1>8. (p - q - h - 2) * d < 0 /\ (q - p - h - 2) * d < 0
  BY <1>1, <1>2, <1>3, <1>4, <1>5, <1>6
<1>9. p - q - h - 2 < 0 /\ q - p - h - 2 < 0
  BY <1>7, <1>8
<1> QED BY <1>1, <1>2, <1>3, <1>9

\* A common factor cancels.
LEMMA SameQuotient ==
  ASSUME NEW x \in Nat, NEW y \in Nat \ {0}, NEW c \in Nat \ {0}
  PROVE  (x * c) \div (y * c) = x \div y
<1>1. PICK p \in Int : p = x \div y /\ p * y <= x /\ x < p * y + y
  BY DivProp
<1>2. x * c \in Int /\ y * c \in Nat /\ y * c > 0
  BY Times
<1>3. PICK q \in Int : q = (x * c) \div (y * c) /\ q * (y * c) <= x * c
                       /\ x * c < q * (y * c) + y * c
  BY <1>2, DivProp
<1>4. q * (y * c) = (q * y) * c
  OBVIOUS
<1>5. (q * y - x) * c <= 0 /\ (x - q * y - y) * c < 0
  <2>1. q * y \in Int
    BY IntTimes
  <2>2. (q * y - x) * c = (q * y) * c - x * c
    BY <2>1
  <2>3. (x - q * y - y) * c = x * c - (q * y) * c - y * c
    BY <2>1
  <2>4. (q * y) * c \in Int
    BY <2>1, IntTimes
  <2> QED BY <2>2, <2>3, <2>4, <1>2, <1>3, <1>4
<1>6. \A n \in Int : (n * c <= 0 => n <= 0) /\ (n * c < 0 => n < 0)
  OBVIOUS
<1>7. q * y \in Int /\ p * y \in Int
  BY IntTimes
<1>8. q * y <= x /\ x < q * y + y
  BY <1>5, <1>6, <1>7
<1>9. (q - p - 1) * y < 0 /\ (p - q - 1) * y < 0
  <2>1. (q - p - 1) * y = q * y - p * y - y /\ (p - q - 1) * y = p * y - q * y - y
    OBVIOUS
  <2> QED BY <2>1, <1>1, <1>7, <1>8
<1>10. \A n \in Int : n * y < 0 => n < 0
  OBVIOUS
<1>11. q - p - 1 < 0 /\ p - q - 1 < 0
  BY <1>9, <1>10
<1> QED BY <1>1, <1>3, <1>11

\* Half a number, divided.
LEMMA HalfQuotient ==
  ASSUME NEW g \in Nat, NEW d \in Nat \ {0}
  PROVE  (g \div 2) \div d <= g \div (2 * d)
<1>1. PICK half \in Nat : half = g \div 2 /\ 2 * half <= g
  OBVIOUS
<1>2. PICK p \in Int : p = half \div d /\ p * d <= half
  BY DivProp
<1>3. PICK q \in Int : q = g \div (2 * d) /\ g < q * (2 * d) + 2 * d
  BY DivProp
<1>4. q * (2 * d) = 2 * (q * d) /\ q * d \in Int /\ p * d \in Int
  BY IntTimes
<1>5. (p - q - 1) * d < 0
  <2>1. (p - q - 1) * d = p * d - q * d - d
    OBVIOUS
  <2>2. g < 2 * (q * d) + 2 * d
    BY <1>3, <1>4
  <2>3. PICK x \in Int, y \in Int : x = p * d /\ y = q * d
    BY <1>4
  <2>4. x <= half /\ 2 * half < 2 * y + 2 * d
    BY <2>2, <2>3, <1>1, <1>2
  <2>5. x - y - d < 0
    BY <2>3, <2>4, <1>1
  <2> QED BY <2>1, <2>3, <2>5
<1>6. \A n \in Int : n * d < 0 => n < 0
  OBVIOUS
<1>7. p - q - 1 < 0
  BY <1>5, <1>6
<1> QED BY <1>1, <1>2, <1>3, <1>7

\* For every target that is observed and whose overhead is solved from its
\* pool, the capacity at the running utilization is the one measured, up to
\* what rounding the overhead to hundredths of a GiB makes of it.
THEOREM CalibrationHolds == DecisionsSpec => []CalibrationReproduces
<1>1. Known => CalibrationReproduces
  <2> SUFFICES ASSUME Known, About("capacity")
               PROVE  CalibrationReproduces
    BY DEF CalibrationReproduces
  <2>1. PICK target \in TargetType : /\ target = question.about
                                     /\ \A o, p \in target.observed : o = p
    BY KnownTarget
  <2>2. PICK result : result = AnalyzeTarget(target)
    OBVIOUS
  <2>3. PICK a \in AnalysisType : a = result.analysis
    BY <2>1, <2>2, Analysed, AnalysisTyped DEF TargetType
  <2> SUFFICES ASSUME result.calibrated, target.util = target.running_util,
                      NEW o \in target.observed, NEW len \in DOMAIN result.capacity,
                      o.available = 0,
                      NEW shown, shown = result.capacity[len],
                      NEW measured, measured = o.pool \div len
               PROVE  /\ shown > measured => shown - measured
                            <= 1 + GIB \div (200 * KvPerSeq(a, len, result.batched))
                      /\ ~(shown > measured) => measured - shown
                            <= 1 + GIB \div (200 * KvPerSeq(a, len, result.batched))
    BY <2>1, <2>2, <2>3 DEF CalibrationReproduces
  <2>4. PICK budget \in BudgetType : budget = MemoryBudget(target)
    BY BudgetTyped
  <2>5. PICK util \in Nat : /\ util = UtilOf(target)
                            /\ util = OrElse(target.running_util, DefaultUtil)
    BY CapacityAssumption DEF UtilOf, OrElse, TargetType
  <2>6. PICK overhead \in Int \ {Unknown} :
          /\ overhead = CalibratedOverhead(a, budget, util, target.weight, o.pool, 0, target.gpus)
          /\ result.budget = [budget EXCEPT !.overhead = overhead]
    <3>1. /\ target \in TargetType /\ o \in target.observed
          /\ \A x, y \in target.observed : x = y
          /\ AnalyzeTarget(target).calibrated
      BY <2>1, <2>2
    <3>2. \E n \in Int \ {Unknown} :
            /\ n = CalibratedOverhead(AnalyzeTarget(target).analysis, MemoryBudget(target),
                     OrElse(target.running_util, DefaultUtil), target.weight,
                     o.pool, o.available, target.gpus)
            /\ AnalyzeTarget(target).budget = [MemoryBudget(target) EXCEPT !.overhead = n]
      BY <3>1, CalibratedBy
    <3> QED BY <3>2, <2>2, <2>3, <2>4, <2>5
  <2>7. /\ ~budget.dedicated /\ a.kv_per_token \in Nat \ {0}
        /\ a.sliding_per_token = 0 /\ a.linear_per_seq = 0
    BY <2>6 DEF CalibratedOverhead, AnalysisType
  <2>8. PICK pool \in Nat, weight \in Nat : pool = o.pool /\ weight = target.weight
    BY DEF TargetType
  <2>9. PICK kv \in Nat : kv = pool * a.kv_per_token * 100
    <3>1. pool * a.kv_per_token \in Nat
      BY <2>7, Times
    <3> QED BY <3>1
  <2>10. PICK total \in Int : total = (budget.gib * util - weight) * GIB
    <3>1. budget.gib * util \in Int
      BY IntTimes DEF BudgetType
    <3> QED BY <3>1, IntTimes, CapacityAssumption
  <2>11. /\ overhead = (2 * (total - kv) + GIB) \div (2 * GIB)
         /\ overhead * GIB \in Int
         /\ 2 * (overhead * GIB) <= 2 * (total - kv) + GIB
         /\ 2 * (total - kv) + GIB < 2 * (overhead * GIB) + 2 * GIB
    <3>1. overhead = (2 * (total - kv) + GIB) \div (2 * GIB)
      BY <2>6, <2>7, <2>8, <2>9, <2>10 DEF CalibratedOverhead
    <3>2. /\ overhead * (2 * GIB) <= 2 * (total - kv) + GIB
          /\ 2 * (total - kv) + GIB < overhead * (2 * GIB) + 2 * GIB
      BY <3>1, DivProp, CapacityAssumption
    <3>3. overhead * (2 * GIB) = 2 * (overhead * GIB) /\ overhead * GIB \in Int
      BY IntTimes, CapacityAssumption
    <3> QED BY <3>1, <3>2, <3>3
  <2>12. PICK e \in Int : e = total - kv - overhead * GIB
    BY <2>11
  <2>13. PICK half \in Nat : half = GIB \div 2 /\ -half <= e /\ e <= half
    BY <2>11, <2>12, CapacityAssumption
  <2>14. KvBudget(result.budget, util, weight) = kv + e
    <3>1. budget.gib * util \in Int
      BY IntTimes DEF BudgetType
    <3>2. (budget.gib * util - weight - overhead) * GIB = total - overhead * GIB
      BY <3>1, <2>10, CapacityAssumption
    <3>3. KvBudget(result.budget, util, weight)
            = (budget.gib * util - weight - overhead) * GIB
      BY <2>6, <2>7 DEF KvBudget, BudgetType
    <3> QED BY <3>2, <3>3, <2>11, <2>12
  <2>15. len \in Nat \ {0} /\ result.batched \in Nat
    BY <2>1, <2>2, Analysed
  <2>16. PICK need \in Nat \ {0} : /\ need = KvPerSeq(a, len, result.batched)
                                   /\ need = a.kv_per_token * len
    <3>1. a.kv_per_token * len \in Nat \ {0}
      BY <2>7, <2>15, Times
    <3>2. WindowTokens(a.sliding_window, len, result.batched) \in Nat
      BY <2>15, FootprintTyped
    <3> QED BY <3>1, <3>2, <2>7 DEF KvPerSeq, Unknown
  <2>17. shown = Larger(0, (kv + e) \div (100 * need))
    <3>1. result.capacity[len]
            = Larger(0, KvBudget(result.budget, UtilOf(target), target.weight)
                          \div (100 * KvPerSeq(result.analysis, len, result.batched)))
      BY <2>1, <2>2, Analysed
    <3> QED BY <3>1, <2>3, <2>5, <2>8, <2>14, <2>16
  <2>18. measured = kv \div (100 * need)
    <3>1. PICK c \in Nat \ {0} : c = a.kv_per_token * 100
      BY <2>7
    <3>2. kv = pool * c /\ 100 * need = len * c
      <4>1. PICK k \in Nat : k = a.kv_per_token
        BY <2>7
      <4>2. pool * k * 100 = pool * (k * 100) /\ 100 * (k * len) = len * (k * 100)
        BY <4>1, <2>15
      <4> QED BY <4>1, <4>2, <3>1, <2>9, <2>16
    <3>3. (pool * c) \div (len * c) = pool \div len
      BY <3>1, <2>15, SameQuotient
    <3> QED BY <3>2, <3>3, <2>8
  <2>19. measured \in Nat
    BY <2>8, <2>15, DivNat
  <2>20. PICK d \in Nat \ {0} : d = 100 * need /\ 2 * d = 200 * need
    OBVIOUS
  <2>21. PICK q \in Int : q = (kv + e) \div d
    BY DivProp
  <2>22. q - measured <= 1 + half \div d /\ measured - q <= 1 + half \div d
    <3>1. /\ (kv + e) \div d - kv \div d <= 1 + half \div d
          /\ kv \div d - (kv + e) \div d <= 1 + half \div d
      <4>1. /\ kv \in Int /\ e \in Int /\ half \in Nat /\ d \in Nat \ {0}
            /\ -half <= e /\ e <= half
        BY <2>9, <2>12, <2>13, <2>20
      <4> QED BY <4>1, QuotientsClose, Zenon
    <3> QED BY <3>1, <2>18, <2>20, <2>21
  <2>23. half \div d <= GIB \div (2 * d) /\ half \div d \in Nat /\ GIB \div (2 * d) \in Nat
    <3>1. GIB \in Nat /\ (GIB \div 2) \div d <= GIB \div (2 * d)
      BY HalfQuotient, CapacityAssumption
    <3>2. half \div d \in Nat
      BY DivNat
    <3>3. 2 * d \in Nat /\ 2 * d > 0
      OBVIOUS
    <3>4. GIB \div (2 * d) \in Nat
      BY <3>1, <3>3, DivNat
    <3> QED BY <3>1, <3>2, <3>4, <2>13
  <2>24. shown = Larger(0, q)
    BY <2>17, <2>20, <2>21
  <2> QED BY <2>16, <2>19, <2>20, <2>22, <2>23, <2>24 DEF Larger
<1> QED BY <1>1, AlwaysKnown, PTL

-----------------------------------------------------------------------------
(* Retries                                                                 *)

\* The powers of two are what their equation says: it holds of a function on
\* 0..n for every n,
PowersTo(f, n) == /\ f \in [0..n -> Nat]
                  /\ \A k \in 0..n : f[k] = IF k = 0 THEN 1 ELSE 2 * f[k - 1]

\* There are such powers, as many as are asked for.
LEMMA PowersExist == \A n \in Nat : \E f : PowersTo(f, n)
<1> DEFINE Exist(n) == \E f : PowersTo(f, n)
           N == {n \in Nat : Exist(n)}
<1>1. Exist(0)
  <2>1. PowersTo([k \in 0..0 |-> 1], 0)
    BY DEF PowersTo
  <2> QED BY <2>1
<1>2. ASSUME NEW n \in Nat, Exist(n) PROVE Exist(n + 1)
  <2>1. PICK f : PowersTo(f, n)
    BY <1>2
  <2>2. PICK g : g = [k \in 0..(n + 1) |-> IF k = n + 1 THEN 2 * f[n] ELSE f[k]]
    OBVIOUS
  <2>3. PowersTo(g, n + 1)
    BY <2>1, <2>2 DEF PowersTo
  <2> QED BY <2>3
<1>3. 0 \in N /\ \A n \in Nat : n \in N => n + 1 \in N
  <2> HIDE DEF Exist
  <2> QED BY <1>1, <1>2
<1>4. \A n \in Nat : n \in N
  <2> HIDE DEF N
  <2> QED BY <1>3, Induction
<1> QED BY <1>4

\* of one function only,
LEMMA PowersUnique ==
  ASSUME NEW m \in Nat, NEW n \in Nat, m <= n, NEW f, PowersTo(f, m), NEW g, PowersTo(g, n)
  PROVE  \A k \in 0..m : f[k] = g[k]
<1> DEFINE N == {k \in Nat : k <= m => f[k] = g[k]}
<1>1. 0 \in N
  BY DEF PowersTo
<1>2. \A k \in Nat : k \in N => k + 1 \in N
  <2> SUFFICES ASSUME NEW k \in Nat, k + 1 <= m, f[k] = g[k]
               PROVE  f[k + 1] = g[k + 1]
    OBVIOUS
  <2>1. k + 1 \in 0..m /\ k + 1 \in 0..n /\ k + 1 # 0 /\ (k + 1) - 1 = k
    OBVIOUS
  <2> QED BY <2>1 DEF PowersTo
<1>3. \A k \in Nat : k \in N
  <2> HIDE DEF N
  <2> QED BY <1>1, <1>2, Induction
<1> QED BY <1>3

\* and so of one on all numbers.
LEMMA PowersOfTwo ==
  /\ PowerOfTwo[0] = 1
  /\ \A n \in Nat : PowerOfTwo[n] \in Nat /\ PowerOfTwo[n + 1] = 2 * PowerOfTwo[n]
<1> DEFINE Is(F) == F = [n \in Nat |-> IF n = 0 THEN 1 ELSE 2 * F[n - 1]]
<1>1. PICK G : G = [n \in Nat |-> CHOOSE f : PowersTo(f, n)]
  OBVIOUS
<1>2. \A n \in Nat : PowersTo(G[n], n)
  BY <1>1, PowersExist
<1>3. PICK F : F = [n \in Nat |-> G[n][n]]
  OBVIOUS
<1>4. \A n \in Nat : F[n] \in Nat /\ F[n] = IF n = 0 THEN 1 ELSE 2 * F[n - 1]
  <2> TAKE n \in Nat
  <2>1. F[n] = G[n][n] /\ F[n] \in Nat /\ (n = 0 => F[n] = 1)
    BY <1>2, <1>3 DEF PowersTo
  <2>2. CASE n # 0
    <3>1. n - 1 \in Nat /\ F[n - 1] = G[n - 1][n - 1]
      BY <1>3, <2>2
    <3>2. G[n][n] = 2 * G[n][n - 1]
      BY <1>2, <2>2 DEF PowersTo
    <3>3. G[n - 1][n - 1] = G[n][n - 1]
      BY <1>2, <3>1, PowersUnique
    <3> QED BY <2>1, <2>2, <3>1, <3>2, <3>3
  <2> QED BY <2>1, <2>2
<1>5. Is(F)
  BY <1>3, <1>4
<1>6. Is(CHOOSE H : Is(H))
  BY <1>5
<1>7. PowerOfTwo = CHOOSE H : Is(H)
  BY DEF PowerOfTwo
<1>8. PICK H : H = PowerOfTwo /\ Is(H)
  BY <1>6, <1>7
<1> DEFINE N == {n \in Nat : H[n] \in Nat}
<1>9. \A n \in Nat : n \in N
  <2>1. 0 \in N /\ \A n \in Nat : n \in N => n + 1 \in N
    BY <1>8
  <2> HIDE DEF N
  <2> QED BY <2>1, Induction
<1> QED BY <1>8, <1>9

\* The states of with_retry's loop after each turn,
Turns(f, q, n) ==
  f = [turn \in 0..n |-> IF turn = 0 THEN NotTried
                         ELSE Attempt(f[turn - 1], q.outcomes[turn], q.retries, q.delay)]

\* There are such turns, whatever the attempts meet,
LEMMA TurnsExist ==
  ASSUME NEW q
  PROVE  \A n \in Nat : \E f : Turns(f, q, n)
<1> DEFINE Exist(n) == \E f : Turns(f, q, n)
           N == {n \in Nat : Exist(n)}
<1>1. Exist(0)
  <2>1. Turns([turn \in 0..0 |-> NotTried], q, 0)
    BY DEF Turns
  <2> QED BY <2>1
<1>2. ASSUME NEW n \in Nat, Exist(n) PROVE Exist(n + 1)
  <2>1. PICK f : Turns(f, q, n)
    BY <1>2
  <2>2. PICK g : g = [turn \in 0..(n + 1) |->
                        IF turn = n + 1
                        THEN Attempt(f[n], q.outcomes[n + 1], q.retries, q.delay)
                        ELSE f[turn]]
    OBVIOUS
  <2>3. ASSUME NEW turn \in 0..(n + 1)
        PROVE  g[turn] = IF turn = 0 THEN NotTried
                         ELSE Attempt(g[turn - 1], q.outcomes[turn], q.retries, q.delay)
    <3>1. CASE turn = n + 1
      BY <2>2, <3>1
    <3>2. CASE turn # n + 1
      BY <2>1, <2>2, <3>2 DEF Turns
    <3> QED BY <3>1, <3>2
  <2>4. Turns(g, q, n + 1)
    BY <2>2, <2>3 DEF Turns
  <2> QED BY <2>4
<1>3. 0 \in N /\ \A n \in Nat : n \in N => n + 1 \in N
  <2> HIDE DEF Exist
  <2> QED BY <1>1, <1>2
<1>4. \A n \in Nat : n \in N
  <2> HIDE DEF N
  <2> QED BY <1>3, Induction
<1> QED BY <1>4

\* of which the last is the answer.
LEMMA LastTurn ==
  ASSUME NEW q, q.retries \in Nat
  PROVE  \E f : /\ Turns(f, q, q.retries + 1)
                /\ WithRetry(q.outcomes, q.retries, q.delay) = f[q.retries + 1]
<1>1. PICK n \in Nat : n = q.retries + 1
  OBVIOUS
<1> DEFINE Is(f) ==
      f = [turn \in 0..(q.retries + 1) |->
             IF turn = 0 THEN NotTried
             ELSE Attempt(f[turn - 1], q.outcomes[turn], q.retries, q.delay)]
<1>2. \E f : Is(f)
  BY <1>1, TurnsExist DEF Turns
<1>3. Is(CHOOSE f : Is(f))
  BY <1>2
<1>4. WithRetry(q.outcomes, q.retries, q.delay) = (CHOOSE f : Is(f))[q.retries + 1]
  BY DEF WithRetry
<1> QED BY <1>3, <1>4 DEF Turns

\* What has been sent and waited for after a turn: the first answer ends it.
Answers(q, n) == {i \in 1..n : q.outcomes[i] \in {"ok", "refused"}}
Waited(q, n) == q.delay * (PowerOfTwo[IF n <= q.retries THEN n ELSE q.retries] - 1)
AfterTurn(q, n) ==
  IF Answers(q, n) = {}
  THEN [sent |-> n, outcome |-> IF n = 0 THEN "none" ELSE q.outcomes[n], waited |-> Waited(q, n)]
  ELSE LET first == Min(Answers(q, n))
       IN [sent |-> first, outcome |-> q.outcomes[first],
           waited |-> q.delay * (PowerOfTwo[first - 1] - 1)]

\* by induction over the turns.
LEMMA TurnByTurn ==
  ASSUME NEW q, q.retries \in Nat, q.delay \in Nat, NEW f, Turns(f, q, q.retries + 1)
  PROVE  \A n \in 0..(q.retries + 1) : f[n] = AfterTurn(q, n)
<1> DEFINE N == {n \in Nat : n <= q.retries + 1 => f[n] = AfterTurn(q, n)}
<1>1. 0 \in N
  <2>1. Answers(q, 0) = {}
    BY DEF Answers
  <2>2. Waited(q, 0) = 0
    BY PowersOfTwo DEF Waited
  <2>3. f[0] = NotTried
    BY DEF Turns
  <2> QED BY <2>1, <2>2, <2>3 DEF AfterTurn, NotTried
<1>2. ASSUME NEW n \in Nat, n <= q.retries, f[n] = AfterTurn(q, n)
      PROVE  f[n + 1] = AfterTurn(q, n + 1)
  <2>1. f[n + 1] = Attempt(AfterTurn(q, n), q.outcomes[n + 1], q.retries, q.delay)
    BY <1>2 DEF Turns
  <2>2. CASE Answers(q, n) # {}
    <3>1. Min(Answers(q, n)) \in Answers(q, n) /\ \A i \in Answers(q, n) : Min(Answers(q, n)) <= i
      <4>1. Answers(q, n) \in SUBSET Nat
        BY DEF Answers
      <4> QED BY <4>1, <2>2, MinProp
    <3>2. Answers(q, n + 1) # {} /\ Answers(q, n + 1) \in SUBSET Nat
      BY <2>2 DEF Answers
    <3>3. Min(Answers(q, n + 1)) \in Answers(q, n + 1)
          /\ \A i \in Answers(q, n + 1) : Min(Answers(q, n + 1)) <= i
      BY <3>2, MinProp
    <3>4. Min(Answers(q, n + 1)) = Min(Answers(q, n))
      BY <3>1, <3>3 DEF Answers
    <3>5. Decided(AfterTurn(q, n))
      BY <2>2, <3>1 DEF AfterTurn, Answers, Decided
    <3>6. AfterTurn(q, n + 1) = AfterTurn(q, n)
      BY <2>2, <3>2, <3>4 DEF AfterTurn
    <3> QED BY <2>1, <3>5, <3>6 DEF Attempt
  <2>3. CASE Answers(q, n) = {}
    <3>1. ~Decided(AfterTurn(q, n)) /\ AfterTurn(q, n).sent = n
          /\ AfterTurn(q, n).waited = q.delay * (PowerOfTwo[n] - 1)
      BY <1>2, <2>3 DEF AfterTurn, Answers, Decided, Waited
    <3>2. PICK p \in Nat : p = PowerOfTwo[n] /\ PowerOfTwo[n + 1] = 2 * p
      BY PowersOfTwo
    <3>3. PICK answer : answer = q.outcomes[n + 1]
      OBVIOUS
    <3>4. f[n + 1] = [sent |-> n + 1, outcome |-> answer,
                      waited |-> q.delay * (p - 1)
                                 + IF answer \in {"ok", "refused"} \/ n >= q.retries THEN 0
                                   ELSE q.delay * p]
      BY <2>1, <3>1, <3>2, <3>3 DEF Attempt
    <3>5. CASE answer \in {"ok", "refused"}
      <4>1. Answers(q, n + 1) = {n + 1}
        BY <2>3, <3>3, <3>5 DEF Answers
      <4>2. Min(Answers(q, n + 1)) = n + 1
        <5>1. {n + 1} \in SUBSET Nat /\ {n + 1} # {}
          OBVIOUS
        <5>2. Min({n + 1}) \in {n + 1}
          BY <5>1, MinProp
        <5> QED BY <4>1, <5>2
      <4>3. AfterTurn(q, n + 1) = [sent |-> n + 1, outcome |-> answer,
                                   waited |-> q.delay * (PowerOfTwo[(n + 1) - 1] - 1)]
        BY <3>3, <4>1, <4>2 DEF AfterTurn
      <4>4. (n + 1) - 1 = n /\ q.delay * (p - 1) \in Int
        BY <3>2
      <4> QED BY <3>2, <3>4, <3>5, <4>3, <4>4
    <3>6. CASE answer \notin {"ok", "refused"}
      <4>1. Answers(q, n + 1) = {}
        BY <2>3, <3>3, <3>6 DEF Answers
      <4>2. AfterTurn(q, n + 1) = [sent |-> n + 1, outcome |-> answer, waited |-> Waited(q, n + 1)]
        BY <3>3, <4>1 DEF AfterTurn
      <4>3. PICK d \in Nat : d = q.delay
        OBVIOUS
      <4>4. CASE n >= q.retries
        <5>1. Waited(q, n + 1) = d * (p - 1)
          BY <1>2, <3>2, <4>3, <4>4 DEF Waited
        <5>2. f[n + 1] = [sent |-> n + 1, outcome |-> answer, waited |-> d * (p - 1)]
          BY <3>4, <4>3, <4>4
        <5> QED BY <4>2, <5>1, <5>2
      <4>5. CASE n < q.retries
        <5>1. Waited(q, n + 1) = d * (2 * p - 1)
          BY <3>2, <4>3, <4>5 DEF Waited
        <5>2. f[n + 1] = [sent |-> n + 1, outcome |-> answer, waited |-> d * (p - 1) + d * p]
          BY <3>4, <3>6, <4>3, <4>5
        <5>3. d * (2 * p - 1) = d * (p - 1) + d * p
          OBVIOUS
        <5> QED BY <4>2, <5>1, <5>2, <5>3
      <4> QED BY <4>4, <4>5
    <3> QED BY <3>5, <3>6
  <2> QED BY <2>2, <2>3
<1>3. \A n \in Nat : n \in N => n + 1 \in N
  BY <1>2
<1>4. \A n \in Nat : n \in N
  <2> HIDE DEF N
  <2> QED BY <1>1, <1>3, Induction
<1> QED BY <1>4

\* However many retries with_retry is asked for and whatever the attempts meet,
\* it sends until the first answer or the last attempt, and waits for nothing
\* after that.
THEOREM RetriesAreBounded == DecisionsSpec => []RetriesBounded
<1>1. Known => RetriesBounded
  <2> SUFFICES ASSUME Known, About("retry")
               PROVE  RetriesBounded
    BY DEF RetriesBounded
  <2>1. question.about \in RetriedCalls
    BY DEF Known, About, Idle
  <2>2. PICK q : q = question.about /\ q.retries \in Nat /\ q.delay \in Nat
    BY <2>1, RetriedCallsAssumption
  <2>3. PICK f : /\ Turns(f, q, q.retries + 1)
                 /\ WithRetry(q.outcomes, q.retries, q.delay) = f[q.retries + 1]
    BY <2>2, LastTurn
  <2>4. f[q.retries + 1] = AfterTurn(q, q.retries + 1)
    BY <2>2, <2>3, TurnByTurn
  <2>5. Answers(q, q.retries + 1)
          = {i \in 1..(q.retries + 1) : q.outcomes[i] \in {"ok", "refused"}}
    BY DEF Answers
  <2>6. CASE Answers(q, q.retries + 1) = {}
    <3>1. PICK retries \in Nat : retries = q.retries
      BY <2>2
    <3>2. PICK n \in Nat : n = retries + 1 /\ n - 1 = retries
      OBVIOUS
    <3>3. n # 0 /\ ~(n <= retries)
      BY <3>2
    <3>4. Waited(q, n) = q.delay * (PowerOfTwo[n - 1] - 1)
      BY <3>1, <3>2, <3>3 DEF Waited
    <3>5. AfterTurn(q, n) = [sent |-> n, outcome |-> q.outcomes[n], waited |-> Waited(q, n)]
      BY <2>6, <3>1, <3>2, <3>3 DEF AfterTurn
    <3> QED BY <2>2, <2>3, <2>4, <2>5, <2>6, <3>1, <3>2, <3>4, <3>5 DEF RetriesBounded
  <2>7. CASE Answers(q, q.retries + 1) # {}
    BY <2>2, <2>3, <2>4, <2>5, <2>7 DEF AfterTurn, RetriesBounded
  <2> QED BY <2>6, <2>7
<1> QED BY <1>1, AlwaysKnown, PTL

-----------------------------------------------------------------------------
(* Sequences joined from parts                                             *)

\* Concatenation under a name, which keeps the provers from comparing
\* sequences element by element where its equations are enough.
Nil == <<>>
Join(s, t) == s \o t

\* Joined sequences over a set are a sequence over it,
LEMMA JoinProp ==
  ASSUME NEW X, NEW s \in Seq(X), NEW t \in Seq(X)
  PROVE  Join(s, t) \in Seq(X)
BY DEF Join

\* an empty one adds nothing,
LEMMA JoinNil ==
  ASSUME NEW X, NEW s \in Seq(X)
  PROVE  Join(s, Nil) = s /\ Join(Nil, s) = s
BY DEF Join, Nil

\* and it does not matter which two are joined first.
LEMMA JoinAgain ==
  ASSUME NEW X, NEW s \in Seq(X), NEW t \in Seq(X), NEW u \in Seq(X)
  PROVE  Join(Join(s, t), u) = Join(s, Join(t, u))
BY DEF Join

\* The parts of a sequence that FlattenSeq joins, joined one by one.
Parts(F, g, n, X) ==
  /\ F \in [0..n -> Seq(X)] /\ F[0] = Nil
  /\ \A i \in 1..n : F[i] = Join(F[i - 1], g[i])

\* They can be joined, however many there are,
LEMMA PartsExist ==
  ASSUME NEW X, NEW n \in Nat, NEW g \in [1..n -> Seq(X)]
  PROVE  \E F : Parts(F, g, n, X)
<1> DEFINE Exist(k) == k <= n => \E F : Parts(F, g, k, X)
           N == {k \in Nat : Exist(k)}
<1>1. Exist(0)
  <2>1. PICK F : F = [i \in 0..0 |-> Nil]
    OBVIOUS
  <2>2. Nil \in Seq(X)
    BY DEF Nil
  <2>3. Parts(F, g, 0, X)
    BY <2>1, <2>2 DEF Parts
  <2> QED BY <2>3
<1>2. ASSUME NEW k \in Nat, Exist(k) PROVE Exist(k + 1)
  <2> SUFFICES ASSUME k + 1 <= n PROVE \E F : Parts(F, g, k + 1, X)
    OBVIOUS
  <2>1. PICK F : Parts(F, g, k, X)
    BY <1>2
  <2>2. k + 1 \in 1..n /\ k \in 0..k
    OBVIOUS
  <2>3. PICK all : all = Join(F[k], g[k + 1])
    OBVIOUS
  <2>a. all \in Seq(X)
    BY <2>1, <2>2, <2>3, JoinProp DEF Parts
  <2>4. PICK G : G = [i \in 0..(k + 1) |-> IF i = k + 1 THEN all ELSE F[i]]
    OBVIOUS
  <2>5. \A i \in 1..(k + 1) : G[i] = Join(G[i - 1], g[i])
    <3> TAKE i \in 1..(k + 1)
    <3>1. CASE i = k + 1
      BY <2>3, <2>4, <3>1
    <3>2. CASE i # k + 1
      BY <2>1, <2>4, <3>2 DEF Parts
    <3> QED BY <3>1, <3>2
  <2>6. G \in [0..(k + 1) -> Seq(X)] /\ G[0] = Nil
    BY <2>1, <2>4, <2>a DEF Parts
  <2> QED BY <2>5, <2>6 DEF Parts
<1>3. 0 \in N /\ \A k \in Nat : k \in N => k + 1 \in N
  <2> HIDE DEF Exist
  <2> QED BY <1>1, <1>2
<1>4. \A k \in Nat : k \in N
  <2> HIDE DEF N
  <2> QED BY <1>3, Induction
<1> QED BY <1>4

\* and FlattenSeq gives all of them.
LEMMA Flattened ==
  ASSUME NEW X, NEW n \in Nat, NEW g \in [1..n -> Seq(X)], NEW F, Parts(F, g, n, X)
  PROVE  FlattenSeq(g) = F[n]
<1>0. Len(g) = n
  OBVIOUS
<1>1. CASE n = 0
  BY <1>0, <1>1 DEF Parts, FlattenSeq, Nil
<1>2. CASE n # 0
  <2> DEFINE Is(f) == f = [i \in 1..Len(g) |-> IF i = 1 THEN g[i] ELSE f[i - 1] \o g[i]]
  <2>1. PICK f : f = [i \in 1..n |-> F[i]]
    OBVIOUS
  <2>2. F[1] = g[1]
    <3>1. F[0] = Nil /\ F[1] = Join(F[0], g[1])
      BY <1>2 DEF Parts
    <3>2. g[1] \in Seq(X)
      BY <1>2
    <3>3. Join(Nil, g[1]) = g[1]
      BY <3>2, JoinNil
    <3> QED BY <3>1, <3>3
  <2>3. Is(f)
    <3>1. \A i \in 1..n : f[i] = IF i = 1 THEN g[i] ELSE Join(f[i - 1], g[i])
      BY <2>1, <2>2 DEF Parts
    <3>2. PICK e : e = [i \in 1..n |-> IF i = 1 THEN g[i] ELSE Join(f[i - 1], g[i])]
      OBVIOUS
    <3>3. f = e
      BY <2>1, <3>1, <3>2
    <3> QED BY <1>0, <3>2, <3>3, Zenon DEF Join
  <2>4. Is(CHOOSE h : Is(h))
    BY <2>3
  <2>5. FlattenSeq(g) = (CHOOSE h : Is(h))[n]
    BY <1>0, <1>2 DEF FlattenSeq
  <2>6. PICK h : h = CHOOSE e : Is(e)
    OBVIOUS
  <2>7. \A i \in 1..n : h[i] = IF i = 1 THEN g[i] ELSE Join(h[i - 1], g[i])
    BY <1>0, <2>4, <2>6 DEF Join
  <2> DEFINE N == {k \in Nat : k + 1 <= n => h[k + 1] = F[k + 1]}
  <2>8. 0 \in N
    BY <1>2, <2>2, <2>7
  <2>9. \A k \in Nat : k \in N => k + 1 \in N
    <3> SUFFICES ASSUME NEW k \in Nat, k \in N, (k + 1) + 1 <= n
                 PROVE  h[(k + 1) + 1] = F[(k + 1) + 1]
      OBVIOUS
    <3>1. h[k + 1] = F[k + 1]
      OBVIOUS
    <3>2. PICK i \in 1..n : i = (k + 1) + 1 /\ i # 1 /\ i - 1 = k + 1
      OBVIOUS
    <3>3. h[i] = Join(h[i - 1], g[i]) /\ F[i] = Join(F[i - 1], g[i])
      BY <2>7, <3>2 DEF Parts
    <3> QED BY <3>1, <3>2, <3>3
  <2>10. \A k \in Nat : k \in N
    <3> HIDE DEF N
    <3> QED BY <2>8, <2>9, Induction
  <2>11. h[n] = F[n]
    <3>1. PICK k \in Nat : n = k + 1
      <4>1. n - 1 \in Nat /\ n = (n - 1) + 1
        BY <1>2
      <4> QED BY <4>1
    <3>2. k \in N
      BY <2>10
    <3> QED BY <3>1, <3>2
  <2> QED BY <2>5, <2>6, <2>11
<1> QED BY <1>1, <1>2

\* FlattenSeq as its users need it.
Flattens(F, g, n, X) == Parts(F, g, n, X) /\ FlattenSeq(g) = F[n]

\* All parts can be joined one by one, to what FlattenSeq gives.
LEMMA FlattenByParts ==
  ASSUME NEW X, NEW n \in Nat, NEW g \in [1..n -> Seq(X)]
  PROVE  /\ \E F : Flattens(F, g, n, X)
         /\ FlattenSeq(g) \in Seq(X)
<1>2. PICK F : Parts(F, g, n, X)
  BY PartsExist
<1>3. FlattenSeq(g) = F[n]
  BY <1>2, Flattened
<1>4. F[n] \in Seq(X)
  BY <1>2, n \in 0..n DEF Parts
<1> QED BY <1>2, <1>3, <1>4 DEF Flattens

\* The parts of two sequences together are those of the first and then those
\* of the second.
Beside(e, g, h, X) ==
  \E m, n \in Nat : /\ g \in [1..m -> Seq(X)] /\ h \in [1..n -> Seq(X)]
                    /\ e \in [1..(m + n) -> Seq(X)]
                    /\ \A i \in 1..m : e[i] = g[i]
                    /\ \A i \in 1..n : e[m + i] = h[i]

\* Flattening parts beside others joins what each flatten to.
LEMMA FlattenJoined ==
  ASSUME NEW X, NEW g, NEW h, NEW e, Beside(e, g, h, X)
  PROVE  FlattenSeq(e) = Join(FlattenSeq(g), FlattenSeq(h))
<1>0. PICK m \in Nat, n \in Nat :
        /\ g \in [1..m -> Seq(X)] /\ h \in [1..n -> Seq(X)]
        /\ e \in [1..(m + n) -> Seq(X)]
        /\ \A i \in 1..m : e[i] = g[i]
        /\ \A i \in 1..n : e[m + i] = h[i]
  BY DEF Beside
<1>1. PICK G : Flattens(G, g, m, X)
  BY <1>0, FlattenByParts
<1>2. PICK H : Flattens(H, h, n, X)
  BY <1>0, FlattenByParts
<1>3. PICK E : Flattens(E, e, m + n, X)
  BY <1>0, FlattenByParts, m + n \in Nat
<1> DEFINE M == {k \in Nat : k <= m => E[k] = G[k]}
           N == {k \in Nat : k <= n => E[m + k] = Join(G[m], H[k])}
<1>4. \A k \in Nat : k \in M
  <2>1. 0 \in M
    BY <1>1, <1>3 DEF Flattens, Parts
  <2>2. \A k \in Nat : k \in M => k + 1 \in M
    <3> SUFFICES ASSUME NEW k \in Nat, k \in M, k + 1 <= m PROVE E[k + 1] = G[k + 1]
      OBVIOUS
    <3>1. E[k] = G[k]
      <4>1. k <= m
        OBVIOUS
      <4> QED BY <4>1
    <3>2. PICK i \in 1..m : i = k + 1 /\ i - 1 = k
      OBVIOUS
    <3>3. G[i] = Join(G[i - 1], g[i])
      BY <1>1 DEF Flattens, Parts
    <3>4. E[i] = Join(E[i - 1], e[i])
      <4>1. i \in 1..(m + n)
        OBVIOUS
      <4> QED BY <1>3, <4>1 DEF Flattens, Parts
    <3>5. e[i] = g[i]
      BY <1>0
    <3> QED BY <3>1, <3>2, <3>3, <3>4, <3>5
  <2> HIDE DEF M
  <2> QED BY <2>1, <2>2, Induction
<1>5. \A k \in Nat : k \in N
  <2>1. 0 \in N
    <3>1. E[m] = G[m] /\ G[m] \in Seq(X) /\ H[0] = Nil
      BY <1>1, <1>2, <1>4 DEF Flattens, Parts
    <3>2. Join(G[m], Nil) = G[m]
      BY <3>1, JoinNil
    <3> QED BY <3>1, <3>2
  <2>2. \A k \in Nat : k \in N => k + 1 \in N
    <3> SUFFICES ASSUME NEW k \in Nat, k \in N, k + 1 <= n
                 PROVE  E[m + (k + 1)] = Join(G[m], H[k + 1])
      OBVIOUS
    <3>0. E[m + k] = Join(G[m], H[k])
      OBVIOUS
    <3>1. PICK i \in 1..n : i = k + 1 /\ i - 1 = k /\ k \in 0..n
      OBVIOUS
    <3>a. PICK j \in 1..(m + n) : j = m + i /\ j - 1 = m + k
      BY <3>1
    <3>2. E[j] = Join(E[j - 1], e[j]) /\ e[j] = h[i]
      BY <1>0, <1>3, <3>1, <3>a DEF Flattens, Parts
    <3>3. H[i] = Join(H[i - 1], h[i])
      BY <1>2, <3>1 DEF Flattens, Parts
    <3>4. G[m] \in Seq(X) /\ H[k] \in Seq(X) /\ h[i] \in Seq(X)
      BY <1>0, <1>1, <1>2, <3>1 DEF Flattens, Parts
    <3>5. E[j] = Join(Join(G[m], H[k]), h[i])
      BY <3>0, <3>2, <3>a
    <3>6. H[i] = Join(H[k], h[i])
      BY <3>1, <3>3
    <3>7. E[j] = Join(G[m], H[i])
      BY <3>4, <3>5, <3>6, JoinAgain
    <3> QED BY <3>1, <3>a, <3>7
  <2> HIDE DEF N
  <2> QED BY <2>1, <2>2, Induction
<1> QED BY <1>1, <1>2, <1>3, <1>5 DEF Flattens

\* The elements of a joined sequence are those of the two.
LEMMA JoinAt ==
  ASSUME NEW X, NEW s \in Seq(X), NEW t \in Seq(X)
  PROVE  /\ Len(Join(s, t)) = Len(s) + Len(t)
         /\ DOMAIN Join(s, t) = 1..(Len(s) + Len(t))
         /\ \A i \in 1..Len(s) : Join(s, t)[i] = s[i]
         /\ \A i \in 1..Len(t) : Join(s, t)[Len(s) + i] = t[i]
BY DEF Join

\* A sequence is what its elements join to, and nothing joins to nothing.
LEMMA FlattenSingles ==
  ASSUME NEW X, NEW s \in Seq(X), NEW g, g = [i \in DOMAIN s |-> <<s[i]>>]
  PROVE  FlattenSeq(g) = s
<1>1. PICK n \in Nat : n = Len(s) /\ DOMAIN s = 1..n
  OBVIOUS
<1>2. g \in [1..n -> Seq(X)]
  BY <1>1
<1>3. PICK F : Flattens(F, g, n, X)
  BY <1>2, FlattenByParts
<1>4. PICK H : H = [k \in 0..n |-> [i \in 1..k |-> s[i]]]
  OBVIOUS
<1> DEFINE N == {k \in Nat : k <= n => F[k] = H[k]}
<1>5. 0 \in N
  <2>1. F[0] = Nil
    BY <1>3 DEF Flattens, Parts
  <2>2. H[0] = Nil
    BY <1>4 DEF Nil
  <2> QED BY <2>1, <2>2
<1>6. \A k \in Nat : k \in N => k + 1 \in N
  <2> SUFFICES ASSUME NEW k \in Nat, k \in N, k + 1 <= n PROVE F[k + 1] = H[k + 1]
    OBVIOUS
  <2>1. PICK i \in 1..n : i = k + 1 /\ i - 1 = k
    OBVIOUS
  <2>a. F[k] = H[k]
    OBVIOUS
  <2>2. F[i] = Join(F[i - 1], g[i])
    BY <1>3 DEF Flattens, Parts
  <2>3. F[i] = Join(H[k], g[i])
    BY <2>1, <2>2, <2>a
  <2>b. k \in 0..n /\ i \in 0..n
    BY <2>1
  <2>c. H[k] = [j \in 1..k |-> s[j]] /\ H[i] = [j \in 1..(k + 1) |-> s[j]]
    BY <1>4, <2>1, <2>b, Zenon
  <2>d. H[k] \in Seq(X) /\ Len(H[k]) = k
    BY <1>1, <2>b, <2>c
  <2>4. /\ H[k] = [j \in 1..k |-> s[j]] /\ H[i] = [j \in 1..(k + 1) |-> s[j]]
        /\ H[k] \in Seq(X) /\ Len(H[k]) = k
    BY <2>c, <2>d, Zenon
  <2>5. g[i] = <<s[i]>> /\ s[i] \in X
    BY <1>1
  <2>6. Join(H[k], <<s[i]>>) = [j \in 1..(k + 1) |-> s[j]]
    BY <2>1, <2>4, <2>5 DEF Join
  <2>7. Join(H[k], g[i]) = H[i]
    BY <2>4, <2>5, <2>6, Zenon
  <2> QED BY <2>1, <2>3, <2>7
<1>7. \A k \in Nat : k \in N
  <2> HIDE DEF N
  <2> QED BY <1>5, <1>6, Induction
<1>8. F[n] = H[n]
  BY <1>7
<1>9. H[n] = s
  BY <1>1, <1>4
<1> QED BY <1>3, <1>8, <1>9 DEF Flattens

\* Empty parts flatten to nothing.
LEMMA FlattenNils ==
  ASSUME NEW X, NEW n \in Nat, NEW g, g = [i \in 1..n |-> <<>>]
  PROVE  FlattenSeq(g) = Nil
<1>1. g = [i \in 1..n |-> Nil] /\ Nil \in Seq({})
  BY DEF Nil
<1>2. g \in [1..n -> Seq({})]
  BY <1>1
<1>3. PICK F : Flattens(F, g, n, {})
  BY <1>2, FlattenByParts
<1> DEFINE N == {k \in Nat : k <= n => F[k] = Nil}
<1>4. 0 \in N
  BY <1>3 DEF Flattens, Parts
<1>5. \A k \in Nat : k \in N => k + 1 \in N
  <2> SUFFICES ASSUME NEW k \in Nat, k \in N, k + 1 <= n PROVE F[k + 1] = Nil
    OBVIOUS
  <2>1. PICK i \in 1..n : i = k + 1 /\ i - 1 = k
    OBVIOUS
  <2>2. F[i] = Join(F[i - 1], g[i])
    BY <1>3 DEF Flattens, Parts
  <2>3. F[i] = Join(Nil, Nil)
    BY <1>1, <2>1, <2>2
  <2> QED BY <1>1, <2>1, <2>3, JoinNil
<1>6. \A k \in Nat : k \in N
  <2> HIDE DEF N
  <2> QED BY <1>4, <1>5, Induction
<1> QED BY <1>3, <1>6 DEF Flattens

\* A sequence without some of its positions, as StripTuning and Foreign give it.
Without(s, dropped) == FlattenSeq([i \in DOMAIN s |-> IF i \in dropped THEN <<>> ELSE <<s[i]>>])

\* What is left is over the same set,
LEMMA WithoutTyped ==
  ASSUME NEW X, NEW s \in Seq(X), NEW dropped
  PROVE  Without(s, dropped) \in Seq(X)
<1>1. PICK n \in Nat : n = Len(s) /\ DOMAIN s = 1..n
  OBVIOUS
<1>2. PICK g : g = [i \in DOMAIN s |-> IF i \in dropped THEN <<>> ELSE <<s[i]>>]
  OBVIOUS
<1>3. g \in [1..n -> Seq(X)]
  BY <1>1, <1>2
<1> QED BY <1>2, <1>3, FlattenByParts DEF Without

\* all of it if nothing is dropped,
LEMMA WithoutNone ==
  ASSUME NEW X, NEW s \in Seq(X), NEW dropped, \A i \in DOMAIN s : i \notin dropped
  PROVE  Without(s, dropped) = s
<1>1. PICK g : g = [i \in DOMAIN s |-> IF i \in dropped THEN <<>> ELSE <<s[i]>>]
  OBVIOUS
<1>2. g = [i \in DOMAIN s |-> <<s[i]>>]
  BY <1>1
<1> QED BY <1>1, <1>2, FlattenSingles DEF Without

\* nothing if everything is,
LEMMA WithoutAll ==
  ASSUME NEW X, NEW s \in Seq(X), NEW dropped, \A i \in DOMAIN s : i \in dropped
  PROVE  Without(s, dropped) = Nil
<1>1. PICK n \in Nat : n = Len(s) /\ DOMAIN s = 1..n
  OBVIOUS
<1>2. PICK g : g = [i \in DOMAIN s |-> IF i \in dropped THEN <<>> ELSE <<s[i]>>]
  OBVIOUS
<1>3. g = [i \in 1..n |-> <<>>]
  BY <1>1, <1>2
<1> QED BY <1>2, <1>3, FlattenNils DEF Without

\* and of a joined sequence what is left of each part.
LEMMA WithoutJoined ==
  ASSUME NEW X, NEW s \in Seq(X), NEW t \in Seq(X), NEW D, NEW D1, NEW D2,
         \A i \in 1..Len(s) : i \in D <=> i \in D1,
         \A i \in 1..Len(t) : Len(s) + i \in D <=> i \in D2
  PROVE  Without(Join(s, t), D) = Join(Without(s, D1), Without(t, D2))
<1>1. PICK m \in Nat, n \in Nat : m = Len(s) /\ n = Len(t) /\ DOMAIN s = 1..m /\ DOMAIN t = 1..n
  OBVIOUS
<1>2. PICK st : st = Join(s, t)
  OBVIOUS
<1>3. /\ DOMAIN st = 1..(m + n)
      /\ \A i \in 1..m : st[i] = s[i] /\ st[i] \in X
      /\ \A i \in 1..n : st[m + i] = t[i] /\ st[m + i] \in X
  <2>1. DOMAIN st = 1..(m + n)
    BY <1>1, <1>2, JoinAt
  <2>2. \A i \in 1..m : st[i] = s[i]
    BY <1>1, <1>2, JoinAt
  <2>3. \A i \in 1..n : st[m + i] = t[i]
    BY <1>1, <1>2, JoinAt
  <2>4. (\A i \in 1..m : s[i] \in X) /\ (\A i \in 1..n : t[i] \in X)
    BY <1>1
  <2> QED BY <2>1, <2>2, <2>3, <2>4
<1>4. PICK g, h, e :
        /\ g = [i \in DOMAIN s |-> IF i \in D1 THEN <<>> ELSE <<s[i]>>]
        /\ h = [i \in DOMAIN t |-> IF i \in D2 THEN <<>> ELSE <<t[i]>>]
        /\ e = [i \in DOMAIN st |-> IF i \in D THEN <<>> ELSE <<st[i]>>]
  OBVIOUS
<1>5. g \in [1..m -> Seq(X)] /\ h \in [1..n -> Seq(X)]
  BY <1>1, <1>4
<1>6. e \in [1..(m + n) -> Seq(X)]
  <2>1. \A i \in 1..(m + n) : st[i] \in X
    <3> TAKE i \in 1..(m + n)
    <3>1. CASE i <= m
      BY <1>3, <3>1
    <3>2. CASE i > m
      <4>1. PICK j \in 1..n : i = m + j
        <5>1. i - m \in 1..n /\ i = m + (i - m)
          BY <3>2
        <5> QED BY <5>1
      <4> QED BY <1>3, <4>1
    <3> QED BY <3>1, <3>2
  <2> QED BY <1>3, <1>4, <2>1
<1>7. \A i \in 1..m : e[i] = g[i]
  BY <1>1, <1>3, <1>4
<1>8. \A i \in 1..n : e[m + i] = h[i]
  <2> TAKE i \in 1..n
  <2>1. m + i \in DOMAIN st /\ st[m + i] = t[i] /\ (m + i \in D <=> i \in D2)
    <3>1. m + i \in DOMAIN st
      BY <1>1, <1>3
    <3>2. st[m + i] = t[i]
      BY <1>3
    <3>3. m + i \in D <=> i \in D2
      BY <1>1
    <3> QED BY <3>1, <3>2, <3>3
  <2>2. e[m + i] = IF m + i \in D THEN <<>> ELSE <<st[m + i]>>
    BY <1>4, <2>1
  <2>3. h[i] = IF i \in D2 THEN <<>> ELSE <<t[i]>>
    BY <1>1, <1>4
  <2>4. CASE i \in D2
    BY <2>1, <2>2, <2>3, <2>4, Zenon
  <2>5. CASE i \notin D2
    BY <2>1, <2>2, <2>3, <2>5, Zenon
  <2> QED BY <2>4, <2>5
<1>9. Beside(e, g, h, X)
  BY <1>5, <1>6, <1>7, <1>8 DEF Beside
<1>10. FlattenSeq(e) = Join(FlattenSeq(g), FlattenSeq(h))
  BY <1>9, FlattenJoined
<1> QED BY <1>2, <1>4, <1>10 DEF Without

-----------------------------------------------------------------------------
(* Argument lists                                                          *)

\* A flag at the end of s does not take the first token of t.
Separate(s, t) ==
  (Len(s) > 0 /\ Len(t) > 0) => ~(s[Len(s)].kind = "bare" /\ t[1].kind = "word")

\* A position of a joined list takes its next token as it does in its part.
LEMMA TakesJoined ==
  ASSUME NEW X, NEW s \in Seq(X), NEW t \in Seq(X), Separate(s, t), NEW st, st = Join(s, t)
  PROVE  /\ \A i \in 0..Len(s) : TakesNext(st, i) <=> TakesNext(s, i)
         /\ \A i \in 0..Len(t) : TakesNext(st, Len(s) + i) <=> TakesNext(t, i)
<1>1. PICK m \in Nat, n \in Nat : m = Len(s) /\ n = Len(t) /\ DOMAIN s = 1..m /\ DOMAIN t = 1..n
  OBVIOUS
<1>2. /\ Len(st) = m + n /\ DOMAIN st = 1..(m + n)
      /\ \A i \in 1..m : st[i] = s[i]
      /\ \A i \in 1..n : st[m + i] = t[i]
  BY <1>1, JoinAt
<1>3. ~TakesNext(st, m)
  <2> SUFFICES ASSUME m > 0, n > 0 PROVE st[m].kind = "bare" => st[m + 1].kind # "word"
    BY <1>1, <1>2 DEF TakesNext
  <2> QED BY <1>1, <1>2 DEF Separate
<1>4. ASSUME NEW i \in 0..m PROVE TakesNext(st, i) <=> TakesNext(s, i)
  <2>1. CASE i = m
    BY <1>1, <1>3, <2>1 DEF TakesNext
  <2>2. CASE i # m
    <3>1. i + 1 \in 1..m /\ (i = 0 \/ i \in 1..m)
      BY <2>2
    <3> QED BY <1>1, <1>2, <2>2, <3>1 DEF TakesNext
  <2> QED BY <2>1, <2>2
<1>5. ASSUME NEW i \in 0..n PROVE TakesNext(st, m + i) <=> TakesNext(t, i)
  <2>1. CASE i = 0
    <3>1. ~TakesNext(t, 0)
      BY <1>1 DEF TakesNext
    <3> QED BY <1>3, <2>1, <3>1
  <2>2. CASE i = n /\ i # 0
    BY <1>1, <1>2, <2>2 DEF TakesNext
  <2>3. CASE i # n /\ i # 0
    <3>1. PICK j \in 1..n : j = i + 1 /\ m + j = (m + i) + 1
      BY <2>3
    <3>2. i \in 1..n /\ m + i \in 1..(m + n) /\ i < n /\ m + i < m + n
      BY <2>3
    <3>3. st[m + i] = t[i]
      BY <1>2, <3>2
    <3>4. st[(m + i) + 1] = t[i + 1]
      <4>1. st[m + j] = t[j]
        BY <1>2
      <4> QED BY <3>1, <4>1
    <3> QED BY <1>1, <1>2, <3>2, <3>3, <3>4 DEF TakesNext
  <2> QED BY <2>1, <2>2, <2>3
<1> QED BY <1>1, <1>4, <1>5

\* The positions StripTuning leaves out: tuning options and their values, and
\* options whose names begin like theirs.
Dropped(args) == {i \in DOMAIN args : Owned(args[i]) \/ TakesNext(args, i - 1)}

\* StripTuning leaves these out, and nothing else.
LEMMA StripWithout ==
  ASSUME NEW args
  PROVE  StripTuning(args) = Without(args, Dropped(args))
<1>1. PICK g : g = [i \in DOMAIN args |-> IF Owned(args[i]) \/ TakesNext(args, i - 1)
                                          THEN <<>> ELSE <<args[i]>>]
  OBVIOUS
<1>2. PICK h : h = [i \in DOMAIN args |-> IF i \in Dropped(args) THEN <<>> ELSE <<args[i]>>]
  OBVIOUS
<1>3. \A i \in DOMAIN args : g[i] = h[i]
  BY <1>1, <1>2 DEF Dropped
<1>4. g = h
  BY <1>1, <1>2, <1>3
<1> QED BY <1>1, <1>2, <1>4 DEF StripTuning, Without

\* A joined list is stripped part by part.
LEMMA StripJoined ==
  ASSUME NEW X, NEW s \in Seq(X), NEW t \in Seq(X), Separate(s, t)
  PROVE  StripTuning(Join(s, t)) = Join(StripTuning(s), StripTuning(t))
<1>1. PICK m \in Nat, n \in Nat : m = Len(s) /\ n = Len(t) /\ DOMAIN s = 1..m /\ DOMAIN t = 1..n
  OBVIOUS
<1>2. PICK st : st = Join(s, t)
  OBVIOUS
<1>3. /\ DOMAIN st = 1..(m + n)
      /\ \A i \in 1..m : st[i] = s[i]
      /\ \A i \in 1..n : st[m + i] = t[i]
  <2>1. /\ DOMAIN Join(s, t) = 1..(Len(s) + Len(t))
        /\ \A i \in 1..Len(s) : Join(s, t)[i] = s[i]
        /\ \A i \in 1..Len(t) : Join(s, t)[Len(s) + i] = t[i]
    BY JoinAt
  <2> QED BY <1>1, <1>2, <2>1
<1>4. /\ \A i \in 0..m : TakesNext(st, i) <=> TakesNext(s, i)
      /\ \A i \in 0..n : TakesNext(st, m + i) <=> TakesNext(t, i)
  BY <1>1, <1>2, TakesJoined
<1>5. \A i \in 1..Len(s) : i \in Dropped(st) <=> i \in Dropped(s)
  <2> TAKE i \in 1..Len(s)
  <2>1. i \in 1..m /\ i \in DOMAIN st /\ i \in DOMAIN s /\ st[i] = s[i] /\ i - 1 \in 0..m
    BY <1>1, <1>3
  <2> QED BY <2>1, <1>4 DEF Dropped
<1>6. \A i \in 1..Len(t) : Len(s) + i \in Dropped(st) <=> i \in Dropped(t)
  <2> TAKE i \in 1..Len(t)
  <2>1. /\ i \in 1..n /\ m + i \in DOMAIN st /\ i \in DOMAIN t /\ st[m + i] = t[i]
        /\ i - 1 \in 0..n /\ (m + i) - 1 = m + (i - 1)
    BY <1>1, <1>3
  <2>2. TakesNext(st, (m + i) - 1) <=> TakesNext(t, i - 1)
    BY <2>1, <1>4
  <2> QED BY <1>1, <2>1, <2>2 DEF Dropped
<1>7. Without(Join(s, t), Dropped(st)) = Join(Without(s, Dropped(s)), Without(t, Dropped(t)))
  BY <1>5, <1>6, WithoutJoined
<1> QED BY <1>2, <1>7, StripWithout

\* Where a key is set last, and to what.
Latest(args, key) == SettingAt(args, Max(Settings(args, key)))

\* A setting is a position of the list, so there is a last one.
LEMMA SettingsProp ==
  ASSUME NEW X, NEW s \in Seq(X), NEW key
  PROVE  /\ \A i \in Settings(s, key) : i \in 1..Len(s)
         /\ Settings(s, key) # {} =>
              /\ Max(Settings(s, key)) \in Settings(s, key)
              /\ \A i \in Settings(s, key) : i <= Max(Settings(s, key))
<1>1. PICK n \in Nat : n = Len(s) /\ DOMAIN s = 1..n
  OBVIOUS
<1>2. PICK S : S = Settings(s, key)
  OBVIOUS
<1>3. \A i \in S : i \in 1..n
  BY <1>1, <1>2 DEF Settings
<1>4. S \in SUBSET Nat /\ \A i \in S : i <= n
  BY <1>3
<1>5. S # {} => Max(S) \in S /\ \A i \in S : i <= Max(S)
  BY <1>4, MaxProp
<1> QED BY <1>1, <1>2, <1>3, <1>5

\* The settings of a joined list are those of its parts.
LEMMA SettingsJoined ==
  ASSUME NEW X, NEW s \in Seq(X), NEW t \in Seq(X), Separate(s, t), NEW st, st = Join(s, t),
         NEW key
  PROVE  /\ \A i \in 1..Len(s) : /\ i \in Settings(st, key) <=> i \in Settings(s, key)
                                 /\ i \in Settings(s, key) => SettingAt(st, i) = SettingAt(s, i)
         /\ \A i \in 1..Len(t) : /\ Len(s) + i \in Settings(st, key) <=> i \in Settings(t, key)
                                 /\ i \in Settings(t, key) =>
                                      SettingAt(st, Len(s) + i) = SettingAt(t, i)
<1>1. PICK m \in Nat, n \in Nat : m = Len(s) /\ n = Len(t) /\ DOMAIN s = 1..m /\ DOMAIN t = 1..n
  OBVIOUS
<1>3. /\ DOMAIN st = 1..(m + n)
      /\ \A i \in 1..m : st[i] = s[i]
      /\ \A i \in 1..n : st[m + i] = t[i]
  <2>1. /\ DOMAIN Join(s, t) = 1..(Len(s) + Len(t))
        /\ \A i \in 1..Len(s) : Join(s, t)[i] = s[i]
    BY JoinAt
  <2>2. \A i \in 1..Len(t) : Join(s, t)[Len(s) + i] = t[i]
    BY JoinAt
  <2> QED BY <1>1, <2>1, <2>2
<1>4. /\ \A i \in 0..m : TakesNext(st, i) <=> TakesNext(s, i)
      /\ \A i \in 0..n : TakesNext(st, m + i) <=> TakesNext(t, i)
  BY <1>1, TakesJoined
<1>5. ASSUME NEW i \in 1..m
      PROVE  /\ i \in Settings(st, key) <=> i \in Settings(s, key)
             /\ i \in Settings(s, key) => SettingAt(st, i) = SettingAt(s, i)
  <2>1. i \in DOMAIN st /\ i \in DOMAIN s /\ st[i] = s[i] /\ (TakesNext(st, i) <=> TakesNext(s, i))
    BY <1>1, <1>3, <1>4
  <2>2. i \in Settings(st, key) <=> i \in Settings(s, key)
    BY <2>1 DEF Settings
  <2>3. ASSUME i \in Settings(s, key) PROVE SettingAt(st, i) = SettingAt(s, i)
    <3>1. CASE s[i].kind = "assigned"
      BY <2>1, <3>1 DEF SettingAt
    <3>2. CASE s[i].kind # "assigned"
      <4>1. TakesNext(s, i)
        BY <2>3, <3>2 DEF Settings, Tunes
      <4>2. i + 1 \in 1..m
        BY <1>1, <4>1 DEF TakesNext
      <4>3. st[i + 1] = s[i + 1]
        BY <1>3, <4>2
      <4> QED BY <2>1, <3>2, <4>3 DEF SettingAt
    <3> QED BY <3>1, <3>2
  <2> QED BY <2>2, <2>3
<1>6. ASSUME NEW i \in 1..n
      PROVE  /\ m + i \in Settings(st, key) <=> i \in Settings(t, key)
             /\ i \in Settings(t, key) => SettingAt(st, m + i) = SettingAt(t, i)
  <2>1. /\ m + i \in DOMAIN st /\ i \in DOMAIN t /\ st[m + i] = t[i]
        /\ (TakesNext(st, m + i) <=> TakesNext(t, i))
    BY <1>1, <1>3, <1>4
  <2>2. m + i \in Settings(st, key) <=> i \in Settings(t, key)
    BY <2>1 DEF Settings
  <2>3. ASSUME i \in Settings(t, key) PROVE SettingAt(st, m + i) = SettingAt(t, i)
    <3>1. CASE t[i].kind = "assigned"
      BY <2>1, <3>1 DEF SettingAt
    <3>2. CASE t[i].kind # "assigned"
      <4>1. TakesNext(t, i)
        BY <2>3, <3>2 DEF Settings, Tunes
      <4>2. i + 1 \in 1..n /\ (m + i) + 1 = m + (i + 1)
        BY <1>1, <4>1 DEF TakesNext
      <4>3. st[(m + i) + 1] = t[i + 1]
        BY <1>3, <4>2
      <4> QED BY <2>1, <3>2, <4>3 DEF SettingAt
    <3> QED BY <3>1, <3>2
  <2> QED BY <2>2, <2>3
<1> QED BY <1>1, <1>5, <1>6

\* The latest setting in t counts, and where t has none that in s.
LEMMA LatestJoined ==
  ASSUME NEW X, NEW s \in Seq(X), NEW t \in Seq(X), Separate(s, t), NEW st, st = Join(s, t),
         NEW key
  PROVE  /\ Settings(t, key) # {} => /\ Settings(st, key) # {}
                                     /\ Latest(st, key) = Latest(t, key)
         /\ Settings(t, key) = {} => /\ Settings(st, key) = {} <=> Settings(s, key) = {}
                                     /\ Settings(s, key) # {} => Latest(st, key) = Latest(s, key)
<1>1. PICK m \in Nat, n \in Nat : m = Len(s) /\ n = Len(t)
  OBVIOUS
<1>2. st \in Seq(X) /\ Len(st) = m + n
  BY <1>1, JoinProp, JoinAt
<1>3. PICK S, T, U : S = Settings(s, key) /\ T = Settings(t, key) /\ U = Settings(st, key)
  OBVIOUS
<1>4. /\ \A i \in S : i \in 1..m
      /\ \A i \in T : i \in 1..n
      /\ \A i \in U : i \in 1..(m + n)
  BY <1>1, <1>2, <1>3, SettingsProp
<1>5. /\ \A i \in 1..m : (i \in U <=> i \in S) /\ (i \in S => SettingAt(st, i) = SettingAt(s, i))
      /\ \A i \in 1..n : /\ m + i \in U <=> i \in T
                         /\ i \in T => SettingAt(st, m + i) = SettingAt(t, i)
  BY <1>1, <1>3, SettingsJoined
<1>6. /\ S # {} => Max(S) \in S /\ \A i \in S : i <= Max(S)
      /\ T # {} => Max(T) \in T /\ \A i \in T : i <= Max(T)
      /\ U # {} => Max(U) \in U /\ \A i \in U : i <= Max(U)
  BY <1>2, <1>3, SettingsProp
<1>7. CASE T # {}
  <2>1. PICK j \in 1..n : j = Max(T) /\ j \in T
    BY <1>4, <1>6, <1>7
  <2>2. m + j \in U
    BY <1>5, <2>1
  <2>3. PICK k \in 1..(m + n) : k = Max(U) /\ k \in U /\ m + j <= k
    BY <1>4, <1>6, <2>2
  <2>4. k - m \in 1..n /\ m + (k - m) = k
    BY <2>3
  <2>5. k - m \in T
    BY <1>5, <2>3, <2>4
  <2>6. k = m + j
    BY <1>6, <2>1, <2>3, <2>4, <2>5
  <2>7. SettingAt(st, k) = SettingAt(t, j)
    BY <1>5, <2>1, <2>6
  <2> QED BY <1>3, <1>7, <2>1, <2>2, <2>3, <2>7 DEF Latest
<1>8. CASE T = {}
  <2>1. \A i \in U : i \in 1..m
    <3> TAKE i \in U
    <3>1. i \in 1..(m + n)
      BY <1>4
    <3>2. CASE i > m
      <4>1. i - m \in 1..n /\ m + (i - m) = i
        BY <3>1, <3>2
      <4>2. i - m \in T
        BY <1>5, <4>1
      <4> QED BY <4>2, <1>8
    <3> QED BY <3>1, <3>2
  <2>2. U = S
    BY <1>4, <1>5, <2>1
  <2>3. S # {} => SettingAt(st, Max(S)) = SettingAt(s, Max(S))
    BY <1>4, <1>5, <1>6
  <2> QED BY <1>3, <1>8, <2>2, <2>3 DEF Latest
<1> QED BY <1>3, <1>7, <1>8

\* The tokens of a list of items, those of tuning arguments included.
Token == OtherToken \cup [kind : {"bare"}, key : TuningKeys]
         \cup [kind : {"assigned"}, key : TuningKeys, value : STRING \cup {Empty}]
         \cup [kind : {"word"}, value : STRING \cup {Empty}]

\* An item that gives a key its value.
SetsKey(item, key) == item.style \in {"assigned", "spaced"} /\ item.key = key

\* PassedOn leaves out what its readers take.
LEMMA PassedOnWithout ==
  ASSUME NEW t
  PROVE  PassedOn(t) = Without(t, {i \in DOMAIN t : Owned(t[i])})
<1>1. PICK D : D = {i \in DOMAIN t : Owned(t[i])}
  OBVIOUS
<1>2. PICK g : g = [i \in DOMAIN t |-> IF Owned(t[i]) THEN <<>> ELSE <<t[i]>>]
  OBVIOUS
<1>3. PICK h : h = [i \in DOMAIN t |-> IF i \in D THEN <<>> ELSE <<t[i]>>]
  OBVIOUS
<1>4. \A i \in DOMAIN t : g[i] = h[i]
  BY <1>1, <1>2, <1>3
<1>5. g = h
  BY <1>2, <1>3, <1>4
<1> QED BY <1>1, <1>2, <1>3, <1>5 DEF PassedOn, Without

\* No token of another kind is, or takes, a value.
LEMMA OthersOnly ==
  ASSUME NEW X, NEW t \in Seq(X), \A i \in DOMAIN t : ~Tunes(t[i])
  PROVE  StripTuning(t) = PassedOn(t) /\ \A key : Settings(t, key) = {}
<1>1. Dropped(t) = {i \in DOMAIN t : Owned(t[i])}
  <2>1. \A i : ~TakesNext(t, i)
    BY DEF TakesNext, Tunes
  <2> QED BY <2>1 DEF Dropped
<1>2. \A key : Settings(t, key) = {}
  BY DEF Settings
<1> QED BY <1>1, <1>2, PassedOnWithout, StripWithout

\* What the tokens of an item are to their readers.
ReadsAs(t, item) ==
  /\ t \in Seq(Token) /\ Len(t) > 0
  /\ t[Len(t)].kind = "bare" => item.style = "bare"
  /\ t[1].kind = "word" => item.style = "other" /\ item.tokens[1].kind = "word"
  /\ StripTuning(t) = IF item.style = "other" THEN PassedOn(item.tokens) ELSE Nil
  /\ \A key : IF SetsKey(item, key) THEN Settings(t, key) # {} /\ Latest(t, key) = item.value
              ELSE Settings(t, key) = {}

\* The greatest of one.
LEMMA Singleton == \A i \in Nat : Max({i}) = i
<1> TAKE i \in Nat
<1>1. Max({i}) \in {i}
  <2>1. {i} \in SUBSET Nat /\ {i} # {} /\ \A j \in {i} : j <= i
    OBVIOUS
  <2> QED BY <2>1, MaxProp
<1> QED BY <1>1

\* Each item, whatever its style, puts its tokens so that they are read as it.
LEMMA TokensOf ==
  ASSUME NEW item \in ArgItem
  PROVE  ReadsAs(Tokens(item), item)
<1>1. CASE item.style = "other"
  <2>1. PICK t : t = item.tokens
    OBVIOUS
  <2>2. t \in Seq(OtherToken) /\ Len(t) > 0
    BY <1>1, <2>1 DEF ArgItem
  <2>3. Tokens(item) = t
    BY <1>1, <2>1 DEF Tokens
  <2>4. \A i \in DOMAIN t : t[i] \in OtherToken /\ t[i].kind \notin {"bare", "assigned"}
    BY <2>2 DEF OtherToken, OneToken
  <2>5. StripTuning(t) = PassedOn(t) /\ \A key : Settings(t, key) = {}
    BY <2>2, <2>4, OthersOnly DEF Tunes
  <2>6. t \in Seq(Token)
    <3>1. \A x \in OtherToken : x \in Token
      BY DEF Token
    <3> QED BY <2>2, <3>1
  <2>7. t[Len(t)].kind # "bare"
    BY <2>2, <2>4
  <2>8. \A key : ~SetsKey(item, key)
    BY <1>1 DEF SetsKey
  <2>9. t[1].kind = "word" => item.tokens[1].kind = "word"
    BY <2>1
  <2> QED BY <1>1, <2>1, <2>2, <2>3, <2>5, <2>6, <2>7, <2>8, <2>9 DEF ReadsAs
<1>2. CASE item.style = "assigned"
  <2>1. item.key \in TuningKeys /\ item.value \in STRING \cup {Empty}
    BY <1>2 DEF ArgItem
  <2>2. PICK a : a = [kind |-> "assigned", key |-> item.key, value |-> item.value]
    OBVIOUS
  <2>3. a \in Token
    BY <2>1, <2>2 DEF Token
  <2>4. PICK t : t = <<a>>
    OBVIOUS
  <2>5. Tokens(item) = t
    BY <1>2, <2>2, <2>4 DEF Tokens, Assigned
  <2>6. t \in Seq(Token) /\ Len(t) = 1 /\ DOMAIN t = {1} /\ t[1] = a /\ a.kind = "assigned"
    BY <2>2, <2>3, <2>4
  <2>7. StripTuning(t) = Nil
    <3>1. \A i \in DOMAIN t : i \in Dropped(t)
      BY <2>6 DEF Dropped, Owned, Tunes
    <3> QED BY <2>6, <3>1, WithoutAll, StripWithout
  <2>8. ASSUME NEW key, key = item.key PROVE Settings(t, key) # {} /\ Latest(t, key) = item.value
    <3>1. Settings(t, key) = {1}
      BY <2>2, <2>6, <2>8 DEF Settings, Tunes
    <3>2. SettingAt(t, 1) = item.value
      BY <2>2, <2>6 DEF SettingAt
    <3> QED BY <3>1, <3>2, Singleton DEF Latest
  <2>9. ASSUME NEW key, key # item.key PROVE Settings(t, key) = {}
    BY <2>2, <2>6, <2>9 DEF Settings
  <2>10. \A key : SetsKey(item, key) <=> key = item.key
    BY <1>2 DEF SetsKey
  <2> QED BY <1>2, <2>5, <2>6, <2>7, <2>8, <2>9, <2>10 DEF ReadsAs
<1>3. CASE item.style = "spaced"
  <2>1. item.key \in TuningKeys /\ item.value \in STRING \cup {Empty}
    BY <1>3 DEF ArgItem
  <2>2. PICK a, w : /\ a = [kind |-> "bare", key |-> item.key]
                  /\ w = [kind |-> "word", value |-> item.value]
    OBVIOUS
  <2>3. a \in Token /\ w \in Token
    BY <2>1, <2>2 DEF Token
  <2>4. PICK t : t = <<a, w>>
    OBVIOUS
  <2>5. Tokens(item) = t
    BY <1>3, <2>2, <2>4 DEF Tokens, Bare, Word
  <2>6. /\ t \in Seq(Token) /\ Len(t) = 2 /\ DOMAIN t = {1, 2}
        /\ t[1] = a /\ t[2] = w /\ a.kind = "bare" /\ w.kind = "word"
    BY <2>2, <2>3, <2>4
  <2>a. TakesNext(t, 1)
    BY <2>6 DEF TakesNext
  <2>7. StripTuning(t) = Nil
    <3>1. \A i \in DOMAIN t : i \in Dropped(t)
      BY <2>6, <2>a DEF Dropped, Owned, Tunes
    <3> QED BY <2>6, <3>1, WithoutAll, StripWithout
  <2>8. ASSUME NEW key, key = item.key PROVE Settings(t, key) # {} /\ Latest(t, key) = item.value
    <3>1. Settings(t, key) = {1}
      BY <2>2, <2>6, <2>8, <2>a DEF Settings, Tunes
    <3>2. SettingAt(t, 1) = item.value
      BY <2>2, <2>6 DEF SettingAt
    <3> QED BY <3>1, <3>2, Singleton DEF Latest
  <2>9. ASSUME NEW key, key # item.key PROVE Settings(t, key) = {}
    BY <2>2, <2>6, <2>9 DEF Settings, Tunes
  <2>10. \A key : SetsKey(item, key) <=> key = item.key
    BY <1>3 DEF SetsKey
  <2> QED BY <1>3, <2>5, <2>6, <2>7, <2>8, <2>9, <2>10 DEF ReadsAs
<1>4. CASE item.style = "bare"
  <2>1. item.key \in TuningKeys
    BY <1>4 DEF ArgItem
  <2>2. PICK a : a = [kind |-> "bare", key |-> item.key]
    OBVIOUS
  <2>3. a \in Token
    BY <2>1, <2>2 DEF Token
  <2>4. PICK t : t = <<a>>
    OBVIOUS
  <2>5. Tokens(item) = t
    BY <1>4, <2>2, <2>4 DEF Tokens, Bare
  <2>6. t \in Seq(Token) /\ Len(t) = 1 /\ DOMAIN t = {1} /\ t[1] = a /\ a.kind = "bare"
    BY <2>2, <2>3, <2>4
  <2>7. StripTuning(t) = Nil
    <3>1. \A i \in DOMAIN t : i \in Dropped(t)
      BY <2>6 DEF Dropped, Owned, Tunes
    <3> QED BY <2>6, <3>1, WithoutAll, StripWithout
  <2>8. \A key : Settings(t, key) = {}
    BY <2>6 DEF Settings, TakesNext
  <2>9. \A key : ~SetsKey(item, key)
    BY <1>4 DEF SetsKey
  <2> QED BY <1>4, <2>5, <2>6, <2>7, <2>8, <2>9 DEF ReadsAs
<1>5. item.style \in {"assigned", "spaced", "bare", "other"}
  BY DEF ArgItem
<1> QED BY <1>1, <1>2, <1>3, <1>4, <1>5

\* What a list of items may be.
Spelt(items) ==
  /\ items \in Seq(ArgItem)
  /\ \A i \in 1..Len(items) - 1 :
       (items[i].style = "bare" /\ items[i + 1].style = "other") =>
         items[i + 1].tokens[1].kind \in {"option", "extended"}

\* The settings of a key among the first k items.
UpTo(items, k, key) == {i \in 1..k : SetsKey(items[i], key)}

\* The tokens A of the first k items are read as the items are.
ReadSoFar(A, items, k) ==
  /\ (Len(A) > 0 /\ A[Len(A)].kind = "bare") => k > 0 /\ items[k].style = "bare"
  /\ \A key : /\ Settings(A, key) = {} <=> UpTo(items, k, key) = {}
              /\ Settings(A, key) # {} =>
                   Latest(A, key) = items[Max(UpTo(items, k, key))].value

\* The tokens of one more item leave this true.
LEMMA NextItem ==
  ASSUME NEW items, Spelt(items), NEW k \in Nat, k + 1 <= Len(items), NEW A \in Seq(Token),
         ReadSoFar(A, items, k), NEW t, t = Tokens(items[k + 1])
  PROVE  /\ StripTuning(Join(A, t)) = Join(StripTuning(A), StripTuning(t))
         /\ ReadSoFar(Join(A, t), items, k + 1)
<1>1. PICK item \in ArgItem : item = items[k + 1]
  BY DEF Spelt
<1>2. ReadsAs(t, item)
  BY <1>1, TokensOf
<1>3. t \in Seq(Token) /\ Len(t) > 0
  BY <1>2 DEF ReadsAs
<1>4. Separate(A, t)
  <2> SUFFICES ASSUME Len(A) > 0, A[Len(A)].kind = "bare", t[1].kind = "word" PROVE FALSE
    BY DEF Separate
  <2>1. k > 0 /\ items[k].style = "bare"
    BY DEF ReadSoFar
  <2>2. item.style = "other" /\ item.tokens[1].kind = "word"
    BY <1>2 DEF ReadsAs
  <2>3. k \in 1..Len(items) - 1
    BY <2>1 DEF Spelt
  <2> QED BY <1>1, <2>1, <2>2, <2>3 DEF Spelt
<1>5. PICK B : B = Join(A, t)
  OBVIOUS
<1>6. StripTuning(B) = Join(StripTuning(A), StripTuning(t))
  BY <1>3, <1>4, <1>5, StripJoined
<1>7. ASSUME Len(B) > 0, B[Len(B)].kind = "bare"
      PROVE  items[k + 1].style = "bare"
  <2>1. Len(B) = Len(A) + Len(t) /\ B[Len(A) + Len(t)] = t[Len(t)]
    BY <1>3, <1>5, JoinAt
  <2> QED BY <1>1, <1>2, <1>7, <2>1 DEF ReadsAs
<1>8. ASSUME NEW key
      PROVE  /\ Settings(B, key) = {} <=> UpTo(items, k + 1, key) = {}
             /\ Settings(B, key) # {} =>
                  Latest(B, key) = items[Max(UpTo(items, k + 1, key))].value
  <2>1. /\ Settings(t, key) # {} => Settings(B, key) # {} /\ Latest(B, key) = Latest(t, key)
        /\ Settings(t, key) = {} => /\ Settings(B, key) = {} <=> Settings(A, key) = {}
                                    /\ Settings(A, key) # {} => Latest(B, key) = Latest(A, key)
    BY <1>3, <1>4, <1>5, LatestJoined
  <2>2. PICK U : U = UpTo(items, k + 1, key)
    OBVIOUS
  <2>3. CASE SetsKey(item, key)
    <3>1. Settings(B, key) # {} /\ Latest(B, key) = item.value
      BY <1>2, <2>1, <2>3 DEF ReadsAs
    <3>2. k + 1 \in U /\ U \in SUBSET Nat /\ \A i \in U : i <= k + 1
      BY <1>1, <2>2, <2>3 DEF UpTo
    <3>3. Max(U) = k + 1
      <4>1. PICK l \in Nat : l = k + 1
        OBVIOUS
      <4>b. U \in SUBSET Nat /\ U # {} /\ \A i \in U : i <= l
        BY <3>2, <4>1
      <4>2. Max(U) \in U /\ \A i \in U : i <= Max(U)
        BY <4>b, MaxProp
      <4>3. PICK x : x = Max(U)
        OBVIOUS
      <4>4. x \in Nat /\ x <= k + 1 /\ k + 1 <= x
        BY <3>2, <4>2, <4>3
      <4> QED BY <4>3, <4>4
    <3>4. items[Max(U)].value = item.value
      BY <1>1, <3>3
    <3> QED BY <2>2, <3>1, <3>2, <3>4
  <2>4. CASE ~SetsKey(item, key)
    <3>1. Settings(t, key) = {}
      BY <1>2, <2>4 DEF ReadsAs
    <3>2. U = UpTo(items, k, key)
      BY <1>1, <2>2, <2>4 DEF UpTo
    <3>3. /\ Settings(A, key) = {} <=> U = {}
          /\ Settings(A, key) # {} => Latest(A, key) = items[Max(U)].value
      BY <3>2 DEF ReadSoFar
    <3> QED BY <2>1, <2>2, <3>1, <3>3
  <2> QED BY <2>3, <2>4
<1>9. ReadSoFar(B, items, k + 1)
  BY <1>7, <1>8 DEF ReadSoFar
<1> QED BY <1>5, <1>6, <1>9

\* An argument list is read as the settings it was put together from, and
\* what the tuner does not own is left of it.
LEMMA ListRead ==
  ASSUME NEW items, Spelt(items)
  PROVE  /\ ListOf(items) \in Seq(Token)
         /\ StripTuning(ListOf(items)) = Others(items)
         /\ ReadSoFar(ListOf(items), items, Len(items))
<1>1. PICK n \in Nat : n = Len(items) /\ DOMAIN items = 1..n /\ \A i \in 1..n : items[i] \in ArgItem
  BY DEF Spelt
<1>2. PICK g : g = [i \in DOMAIN items |-> Tokens(items[i])]
  OBVIOUS
<1>3. PICK h : h = [i \in DOMAIN items |->
                       IF items[i].style = "other" THEN PassedOn(items[i].tokens) ELSE <<>>]
  OBVIOUS
<1>4. g \in [1..n -> Seq(Token)]
  <2>1. \A i \in 1..n : Tokens(items[i]) \in Seq(Token)
    BY <1>1, TokensOf DEF ReadsAs
  <2> QED BY <1>1, <1>2, <2>1
<1>5. \A i \in 1..n : h[i] = StripTuning(g[i])
  <2> TAKE i \in 1..n
  <2>1. StripTuning(g[i]) = IF items[i].style = "other" THEN PassedOn(items[i].tokens) ELSE Nil
    BY <1>1, <1>2, TokensOf DEF ReadsAs
  <2>2. h[i] = IF items[i].style = "other" THEN PassedOn(items[i].tokens) ELSE Nil
    BY <1>1, <1>3, Zenon DEF Nil
  <2>3. PICK kept : kept = PassedOn(items[i].tokens)
    OBVIOUS
  <2>4. h[i] = IF items[i].style = "other" THEN kept ELSE Nil
    BY <2>2, <2>3, Zenon
  <2>5. StripTuning(g[i]) = IF items[i].style = "other" THEN kept ELSE Nil
    BY <2>1, <2>3, Zenon
  <2> QED BY <2>4, <2>5
<1>6. h \in [1..n -> Seq(Token)]
  <2>1. \A i \in 1..n : h[i] \in Seq(Token)
    BY <1>4, <1>5, StripWithout, WithoutTyped
  <2> QED BY <1>1, <1>3, <2>1
<1>7. PICK A : Flattens(A, g, n, Token)
  BY <1>4, FlattenByParts
<1>8. PICK O : Flattens(O, h, n, Token)
  BY <1>6, FlattenByParts
<1> DEFINE Read(k) == StripTuning(A[k]) = O[k] /\ ReadSoFar(A[k], items, k)
           N == {k \in Nat : k <= n => Read(k)}
<1>9. Read(0)
  <2>1. A[0] = Nil /\ O[0] = Nil
    BY <1>7, <1>8 DEF Flattens, Parts
  <2>2. Nil \in Seq(Token) /\ Len(Nil) = 0 /\ \A i \in DOMAIN Nil : ~Tunes(Nil[i])
    BY DEF Nil
  <2>3. StripTuning(Nil) = Nil /\ \A key : Settings(Nil, key) = {}
    <3>a. Nil \in Seq(Token) /\ \A i \in DOMAIN Nil : i \notin Dropped(Nil)
      BY <2>2
    <3>1. Without(Nil, Dropped(Nil)) = Nil
      BY <3>a, WithoutNone
    <3> QED BY <2>2, <3>1, StripWithout, OthersOnly
  <2>4. \A key : UpTo(items, 0, key) = {}
    BY DEF UpTo
  <2>5. ReadSoFar(Nil, items, 0)
    BY <2>2, <2>3, <2>4 DEF ReadSoFar
  <2> QED BY <2>1, <2>3, <2>5
<1>10. ASSUME NEW k \in Nat, k + 1 <= n, Read(k) PROVE Read(k + 1)
  <2>1. PICK i \in 1..n : i = k + 1 /\ i - 1 = k /\ k \in 0..n
    BY <1>10
  <2>2. A[i] = Join(A[k], g[i]) /\ O[i] = Join(O[k], h[i]) /\ A[k] \in Seq(Token)
    BY <1>7, <1>8, <2>1 DEF Flattens, Parts
  <2>3. PICK t : t = Tokens(items[k + 1]) /\ t = g[i]
    BY <1>1, <1>2, <2>1
  <2>4. /\ StripTuning(Join(A[k], t)) = Join(StripTuning(A[k]), StripTuning(t))
        /\ ReadSoFar(Join(A[k], t), items, k + 1)
    BY <1>1, <1>10, <2>2, <2>3, NextItem
  <2>5. h[i] = StripTuning(t) /\ StripTuning(A[k]) = O[k]
    BY <1>5, <1>10, <2>3
  <2>6. StripTuning(A[i]) = O[i]
    BY <2>2, <2>3, <2>4, <2>5
  <2> QED BY <2>1, <2>2, <2>3, <2>4, <2>6
<1>11. \A k \in Nat : k \in N
  <2>1. 0 \in N
    BY <1>9
  <2>2. \A k \in Nat : k \in N => k + 1 \in N
    <3> SUFFICES ASSUME NEW k \in Nat, k \in N, k + 1 <= n PROVE Read(k + 1)
      OBVIOUS
    <3>1. k <= n
      OBVIOUS
    <3>2. Read(k)
      BY <3>1
    <3> HIDE DEF Read
    <3> QED BY <1>10, <3>2
  <2> HIDE DEF N
  <2> QED BY <2>1, <2>2, Induction
<1>12. Read(n)
  BY <1>11
<1>13. ListOf(items) = A[n] /\ Others(items) = O[n]
  BY <1>2, <1>3, <1>7, <1>8 DEF Flattens, ListOf, Others
<1>14. A[n] \in Seq(Token)
  BY <1>7, n \in 0..n DEF Flattens, Parts
<1> QED BY <1>1, <1>12, <1>13, <1>14

\* What the tuner does not own are tokens of other kinds.
LEMMA OthersTyped ==
  ASSUME NEW items, Spelt(items)
  PROVE  Others(items) \in Seq(OtherToken)
<1>1. PICK n \in Nat : n = Len(items) /\ DOMAIN items = 1..n /\ \A i \in 1..n : items[i] \in ArgItem
  BY DEF Spelt
<1>2. PICK h : h = [i \in DOMAIN items |->
                       IF items[i].style = "other" THEN PassedOn(items[i].tokens) ELSE <<>>]
  OBVIOUS
<1>3. h \in [1..n -> Seq(OtherToken)]
  <2>1. \A i \in 1..n : items[i].style = "other" => items[i].tokens \in Seq(OtherToken)
    BY <1>1 DEF ArgItem
  <2>2. \A i \in 1..n : items[i].style = "other" => PassedOn(items[i].tokens) \in Seq(OtherToken)
    BY <2>1, PassedOnWithout, WithoutTyped
  <2>3. \A i \in 1..n : h[i] \in Seq(OtherToken)
    BY <1>1, <1>2, <2>2
  <2> QED BY <1>1, <1>2, <2>3
<1> QED BY <1>2, <1>3, FlattenByParts DEF Others

\* SetToSeq lists each element of a finite set once.
LEMMA Listed ==
  ASSUME NEW S, IsFiniteSet(S)
  PROVE  \E n \in Nat : /\ SetToSeq(S) \in [1..n -> S]
                        /\ \A k \in S : \E i \in 1..n : SetToSeq(S)[i] = k
                        /\ \A i, j \in 1..n : SetToSeq(S)[i] = SetToSeq(S)[j] => i = j
<1>1. PICK n \in Nat : n = Cardinality(S) /\ ExistsBijection(1..n, S)
  BY FS_CardinalityType
<1>2. \E f \in [1..n -> S] : IsInjective(f)
  BY <1>1 DEF ExistsBijection, Bijection, Injection
<1>3. PICK f : f = SetToSeq(S)
  OBVIOUS
<1>4. f \in [1..n -> S] /\ IsInjective(f)
  BY <1>1, <1>2, <1>3 DEF SetToSeq
<1>5. f \in Injection(1..n, S)
  BY <1>4 DEF Injection
<1>6. IsFiniteSet(1..n) /\ Cardinality(1..n) = n
  BY FS_Interval
<1>7. f \in Surjection(1..n, S)
  BY <1>1, <1>5, <1>6, FS_Injection
<1>8. \A k \in S : \E i \in 1..n : f[i] = k
  BY <1>7 DEF Surjection
<1>9. \A i, j \in 1..n : f[i] = f[j] => i = j
  BY <1>4 DEF IsInjective
<1> QED BY <1>3, <1>4, <1>8, <1>9

\* The settings in force, empty ones excepted.
InForce(config) == {k \in DOMAIN config : config[k] # Empty}

\* The arguments written for them: each once, and nothing else.
Writes(c, config) ==
  /\ \E n \in Nat : /\ DOMAIN c = 1..n /\ Len(c) = n /\ c = [i \in 1..n |-> c[i]]
                    /\ \A i \in 1..n : c[i].kind = "assigned"
  /\ \A key : IF key \in InForce(config)
              THEN Settings(c, key) # {} /\ Latest(c, key) = config[key]
              ELSE Settings(c, key) = {}

\* config_to_args writes no setting twice and leaves none in force out.
LEMMA ConfigWritten ==
  ASSUME NEW config, DOMAIN config \subseteq TuningKeys
  PROVE  Writes(ConfigToArgs(config), config)
<1>1. PICK S : S = InForce(config)
  OBVIOUS
<1>2. IsFiniteSet(S)
  BY <1>1, ArgsAssumption, FS_Subset DEF InForce
<1>3. PICK f : f = SetToSeq(S)
  OBVIOUS
<1>4. PICK n \in Nat : /\ f \in [1..n -> S]
                       /\ \A k \in S : \E i \in 1..n : f[i] = k
                       /\ \A i, j \in 1..n : f[i] = f[j] => i = j
  BY <1>2, <1>3, Listed
<1>5. PICK c : c = [i \in DOMAIN f |-> Assigned(f[i], config[f[i]])]
  OBVIOUS
<1>6. c = ConfigToArgs(config)
  BY <1>1, <1>3, <1>5 DEF ConfigToArgs, InForce
<1>7. /\ DOMAIN c = 1..n /\ Len(c) = n /\ c = [i \in 1..n |-> c[i]]
      /\ \A i \in 1..n : c[i] = [kind |-> "assigned", key |-> f[i], value |-> config[f[i]]]
  BY <1>4, <1>5 DEF Assigned
<1>8. \A i \in 1..n : c[i].kind = "assigned" /\ c[i].key = f[i] /\ c[i].value = config[f[i]]
  BY <1>7
<1>9. \A key : Settings(c, key) = {i \in 1..n : f[i] = key}
  BY <1>7, <1>8 DEF Settings, Tunes
<1>10. ASSUME NEW key, key \in S PROVE Settings(c, key) # {} /\ Latest(c, key) = config[key]
  <2>1. PICK i \in 1..n : f[i] = key
    BY <1>4, <1>10
  <2>2. Settings(c, key) = {i}
    BY <1>4, <1>9, <2>1
  <2>3. SettingAt(c, i) = config[key]
    BY <1>8, <2>1 DEF SettingAt
  <2> QED BY <2>2, <2>3, Singleton DEF Latest
<1>11. ASSUME NEW key, key \notin S PROVE Settings(c, key) = {}
  BY <1>4, <1>9, <1>11
<1> QED BY <1>1, <1>6, <1>7, <1>8, <1>10, <1>11 DEF Writes

\* Foreign leaves out what its readers take, as StripTuning does.
LEMMA ForeignWithout ==
  ASSUME NEW args
  PROVE  Foreign(args) = Without(args, {i \in DOMAIN args : Tunes(args[i])})
<1>1. PICK D : D = {i \in DOMAIN args : Tunes(args[i])}
  OBVIOUS
<1>2. PICK g : g = [i \in DOMAIN args |-> IF Tunes(args[i]) THEN <<>> ELSE <<args[i]>>]
  OBVIOUS
<1>3. PICK h : h = [i \in DOMAIN args |-> IF i \in D THEN <<>> ELSE <<args[i]>>]
  OBVIOUS
<1>4. \A i \in DOMAIN args : g[i] = h[i]
  BY <1>1, <1>2, <1>3
<1>5. g = h
  BY <1>2, <1>3, <1>4
<1> QED BY <1>1, <1>2, <1>3, <1>5 DEF Foreign, Without

\* Behind tokens of other kinds the arguments written for a configuration are
\* read as this, and those tokens are what is foreign.
LEMMA WrittenRead ==
  ASSUME NEW x \in Seq(OtherToken), NEW config, DOMAIN config \subseteq TuningKeys,
         NEW list, list = Join(x, ConfigToArgs(config))
  PROVE  /\ ArgsToConfig(list) = [key \in InForce(config) |-> config[key]]
         /\ Foreign(list) = x
<1>1. PICK c : c = ConfigToArgs(config) /\ Writes(c, config)
  BY ConfigWritten
<1>2. PICK n \in Nat : /\ DOMAIN c = 1..n /\ Len(c) = n /\ c = [i \in 1..n |-> c[i]]
                       /\ \A i \in 1..n : c[i].kind = "assigned"
  BY <1>1 DEF Writes
<1>3. PICK X : X = OtherToken \cup {c[i] : i \in 1..n}
  OBVIOUS
<1>4. x \in Seq(X) /\ c \in Seq(X)
  <2>1. \A i \in 1..n : c[i] \in X
    BY <1>3
  <2>2. \A t \in OtherToken : t \in X
    BY <1>3
  <2> QED BY <1>2, <2>1, <2>2
<1>5. \A i \in DOMAIN x : ~Tunes(x[i])
  <2>1. \A i \in DOMAIN x : x[i] \in OtherToken
    OBVIOUS
  <2> QED BY <2>1 DEF OtherToken, OneToken, Tunes
<1>6. Separate(x, c)
  BY <1>2 DEF Separate
<1>7. ASSUME NEW key
      PROVE  IF key \in InForce(config)
             THEN Settings(list, key) # {} /\ Latest(list, key) = config[key]
             ELSE Settings(list, key) = {}
  <2>1. Settings(x, key) = {}
    BY <1>5, OthersOnly
  <2>2. /\ Settings(c, key) # {} => Settings(list, key) # {} /\ Latest(list, key) = Latest(c, key)
        /\ Settings(c, key) = {} => (Settings(list, key) = {} <=> Settings(x, key) = {})
    BY <1>1, <1>4, <1>6, LatestJoined
  <2> QED BY <1>1, <2>1, <2>2 DEF Writes
<1>8. {k \in TuningKeys : Settings(list, k) # {}} = InForce(config)
  BY <1>7 DEF InForce
<1>9. ArgsToConfig(list) = [key \in InForce(config) |-> config[key]]
  <2>1. ArgsToConfig(list)
          = [key \in {k \in TuningKeys : Settings(list, k) # {}} |-> Latest(list, key)]
    BY DEF ArgsToConfig, Latest
  <2> QED BY <1>7, <1>8, <2>1
<1>10. Foreign(list) = x
  <2>1. PICK D : D = {i \in DOMAIN list : Tunes(list[i])}
    OBVIOUS
  <2>2. /\ DOMAIN list = 1..(Len(x) + Len(c))
        /\ \A i \in 1..Len(x) : list[i] = x[i]
        /\ \A i \in 1..Len(c) : list[Len(x) + i] = c[i]
    BY <1>1, <1>4, JoinAt
  <2>3. PICK m \in Nat : m = Len(x) /\ DOMAIN x = 1..m
    OBVIOUS
  <2>4. \A i \in 1..Len(x) : i \in D <=> i \in {}
    BY <1>5, <2>1, <2>2, <2>3
  <2>5. \A i \in 1..Len(c) : Len(x) + i \in D <=> i \in DOMAIN c
    <3> TAKE i \in 1..Len(c)
    <3>1. i \in DOMAIN c /\ Tunes(c[i]) /\ m + i \in 1..(m + n)
      BY <1>2 DEF Tunes
    <3> QED BY <1>2, <2>1, <2>2, <2>3, <3>1
  <2>6. Without(list, D) = Join(Without(x, {}), Without(c, DOMAIN c))
    BY <1>1, <1>4, <2>4, <2>5, WithoutJoined
  <2>7. Without(x, {}) = x
    BY WithoutNone
  <2>8. Without(c, DOMAIN c) = Nil
    BY <1>4, WithoutAll
  <2>9. Join(x, Nil) = x
    BY JoinNil
  <2> QED BY <2>1, <2>6, <2>7, <2>8, <2>9, ForeignWithout
<1> QED BY <1>9, <1>10

\* What is left of quoted arguments once they are split again.
LEMMA RejoinedProp ==
  ASSUME NEW x \in Seq(OtherToken)
  PROVE  /\ Rejoined(x) \in Seq(OtherToken)
         /\ (\A i \in DOMAIN x : x[i].kind # "json") => Rejoined(x) = x
<1>1. PICK n \in Nat : n = Len(x) /\ DOMAIN x = 1..n /\ \A i \in 1..n : x[i] \in OtherToken
  OBVIOUS
<1>2. PICK g : g = [i \in DOMAIN x |-> IF x[i].kind = "json" THEN x[i].pieces ELSE <<x[i]>>]
  OBVIOUS
<1>3. \A i \in 1..n : x[i].kind = "json" => x[i].pieces \in Seq(OtherToken)
  <2> SUFFICES ASSUME NEW i \in 1..n, x[i].kind = "json" PROVE x[i].pieces \in Seq(OtherToken)
    OBVIOUS
  <2>1. x[i].pieces \in Seq(OneToken)
    BY <1>1 DEF OtherToken, OneToken
  <2>2. \A t \in OneToken : t \in OtherToken
    BY DEF OtherToken
  <2> QED BY <2>1, <2>2
<1>4. g \in [1..n -> Seq(OtherToken)]
  BY <1>1, <1>2, <1>3
<1>5. ASSUME \A i \in DOMAIN x : x[i].kind # "json" PROVE FlattenSeq(g) = x
  <2>1. g = [i \in DOMAIN x |-> <<x[i]>>]
    BY <1>2, <1>5
  <2> QED BY <2>1, FlattenSingles
<1> QED BY <1>2, <1>4, <1>5, FlattenByParts DEF Rejoined

\* What the settings of a list are changed to.
LEMMA WantedProp ==
  ASSUME NEW items, Spelt(items), NEW new, IsMap(new), DOMAIN new \subseteq TuningKeys,
         NEW config, config = Changed(ListOf(items), new)
  PROVE  /\ DOMAIN config \subseteq TuningKeys
         /\ Wanted(items, new) = [key \in InForce(config) |-> config[key]]
<1>1. PICK n \in Nat : n = Len(items) /\ DOMAIN items = 1..n
  BY DEF Spelt
<1>2. PICK args : args = ListOf(items)
  OBVIOUS
<1>3. ReadSoFar(args, items, n)
  BY <1>1, <1>2, ListRead
<1> DEFINE set(key) == {i \in DOMAIN items : /\ items[i].style \in {"assigned", "spaced"}
                                             /\ items[i].key = key}
           last == [key \in {k \in TuningKeys : set(k) # {}} |-> items[Max(set(key))].value]
<1>4. \A key : set(key) = UpTo(items, n, key)
  BY <1>1 DEF UpTo, SetsKey
<1>5. \A key : /\ Settings(args, key) = {} <=> set(key) = {}
               /\ Settings(args, key) # {} => Latest(args, key) = items[Max(set(key))].value
  <2> TAKE key
  <2>1. PICK s : s = set(key)
    OBVIOUS
  <2>2. s = UpTo(items, n, key)
    BY <1>4, <2>1
  <2>3. /\ Settings(args, key) = {} <=> s = {}
        /\ Settings(args, key) # {} => Latest(args, key) = items[Max(s)].value
    BY <1>3, <2>2 DEF ReadSoFar
  <2> QED BY <2>1, <2>3
<1>6. ArgsToConfig(args) = last
  <2> HIDE DEF set
  <2>1. {k \in TuningKeys : Settings(args, k) # {}} = {k \in TuningKeys : set(k) # {}}
    BY <1>5
  <2>2. ArgsToConfig(args)
          = [key \in {k \in TuningKeys : Settings(args, k) # {}} |-> Latest(args, key)]
    BY DEF ArgsToConfig, Latest
  <2> QED BY <1>5, <2>1, <2>2
<1>7. config = Over(new, last)
  <2> HIDE DEF last
  <2> QED BY <1>2, <1>6 DEF Changed
<1>8. Wanted(items, new) = [key \in InForce(config) |-> config[key]]
  <2>1. Wanted(items, new)
          = [key \in {k \in DOMAIN Over(new, last) : Over(new, last)[k] # Empty} |->
               Over(new, last)[key]]
    BY DEF Wanted
  <2> HIDE DEF last
  <2> QED BY <1>7, <2>1 DEF InForce
<1>9. DOMAIN config \subseteq TuningKeys
  <2>1. DOMAIN config = DOMAIN new \cup DOMAIN last
    <3> HIDE DEF last
    <3> QED BY <1>7 DEF Over
  <2>2. DOMAIN last \subseteq TuningKeys
    OBVIOUS
  <2> HIDE DEF last
  <2> QED BY <2>1, <2>2
<1> QED BY <1>8, <1>9

\* Both forms of the arguments, for a list put together from any items.
LEMMA BuiltRead ==
  ASSUME NEW items, Spelt(items), NEW new, IsMap(new), DOMAIN new \subseteq TuningKeys
  PROVE  LET list == BuildArgs(ListOf(items), new)
             string == BuildString(ListOf(items), new)
         IN /\ ArgsToConfig(list) = Wanted(items, new)
            /\ Foreign(list) = Others(items)
            /\ ArgsToConfig(string) = Wanted(items, new)
            /\ Unquoted(items) => Foreign(string) = Others(items)
<1>1. PICK x : x = Others(items)
  OBVIOUS
<1>2. x \in Seq(OtherToken) /\ StripTuning(ListOf(items)) = x
  BY <1>1, ListRead, OthersTyped
<1>3. PICK config : config = Changed(ListOf(items), new)
  OBVIOUS
<1>4. /\ DOMAIN config \subseteq TuningKeys
      /\ Wanted(items, new) = [key \in InForce(config) |-> config[key]]
  BY <1>3, WantedProp
<1>5. BuildArgs(ListOf(items), new) = Join(x, ConfigToArgs(config))
  BY <1>2, <1>3 DEF BuildArgs, Join
<1>6. BuildString(ListOf(items), new) = Join(Rejoined(x), ConfigToArgs(config))
  BY <1>2, <1>3 DEF BuildString, Join
<1>7. /\ Rejoined(x) \in Seq(OtherToken)
      /\ Unquoted(items) => Rejoined(x) = x
  BY <1>1, <1>2, RejoinedProp DEF Unquoted
<1>8. PICK list : list = Join(x, ConfigToArgs(config))
  OBVIOUS
<1>9. /\ ArgsToConfig(list) = [key \in InForce(config) |-> config[key]]
      /\ Foreign(list) = x
  BY <1>2, <1>4, <1>8, WrittenRead
<1>10. PICK string : string = Join(Rejoined(x), ConfigToArgs(config))
  OBVIOUS
<1>11. /\ ArgsToConfig(string) = [key \in InForce(config) |-> config[key]]
       /\ Foreign(string) = Rejoined(x)
  BY <1>4, <1>7, <1>10, WrittenRead
<1> QED BY <1>1, <1>4, <1>5, <1>6, <1>7, <1>8, <1>9, <1>10, <1>11

\* Argument lists asked about, and the empty one, are spelt as they are read.
LEMMA ItemsSpelt == \A items \in ArgItems \cup {<<>>} : Spelt(items)
<1>1. \A items \in ArgItems : Spelt(items)
  BY ArgItemsAssumption DEF Spelt
<1>2. Spelt(<<>>)
  BY DEF Spelt
<1> QED BY <1>1, <1>2

\* No items make no arguments.
LEMMA NothingListed == ListOf(<<>>) = <<>>
<1>1. PICK g : g = [i \in DOMAIN <<>> |-> Tokens(<<>>[i])]
  OBVIOUS
<1>2. Len(g) = 0 /\ g = <<>>
  BY <1>1
<1> QED BY <1>1, <1>2 DEF ListOf, FlattenSeq

\* BuildArgs and BuildString change the settings asked for in any argument list
\* and leave its other settings and its other arguments as they were, however
\* long the list is and however each setting is spelt.
THEOREM ArgumentsPatched == DecisionsSpec => []ArgsPatched
<1>1. Known => ArgsPatched
  <2> SUFFICES ASSUME Known, About("args")
               PROVE  ArgsPatched
    BY DEF ArgsPatched
  <2>1. PICK items, new : /\ items = question.about.items /\ new = question.about.new
                          /\ items \in ArgItems /\ new \in ArgChanges
    BY DEF Known, About, Idle
  <2>2. Spelt(items)
    BY <2>1, ItemsSpelt
  <2>3. IsMap(new) /\ DOMAIN new \subseteq TuningKeys
    BY <2>1, ChangesAssumption
  <2>4. LET list == BuildArgs(ListOf(items), new)
            string == BuildString(ListOf(items), new)
        IN /\ ArgsToConfig(list) = Wanted(items, new)
           /\ Foreign(list) = Others(items)
           /\ ArgsToConfig(string) = Wanted(items, new)
           /\ Unquoted(items) => Foreign(string) = Others(items)
    BY <2>2, <2>3, BuiltRead
  <2> QED BY <2>1, <2>4 DEF ArgsPatched
<1> QED BY <1>1, AlwaysKnown, PTL

-----------------------------------------------------------------------------
(* Patches of a CR                                                         *)

\* The bodies after each set of sub-patches, the last applied to the others'.
Bodies(after, cr, patches) ==
  after = [s \in SUBSET DOMAIN patches |->
             IF s = {} THEN cr ELSE MergeContainers(after[s \ {Max(s)}], patches[Max(s)])]

\* PatchBody is the last of them, once there are such bodies.
LEMMA BodyChosen ==
  ASSUME NEW cr, NEW patches, \E after : Bodies(after, cr, patches)
  PROVE  \E after : Bodies(after, cr, patches) /\ PatchBody(cr, patches) = after[DOMAIN patches]
<1> DEFINE Is(after) ==
      after = [s \in SUBSET DOMAIN patches |->
                 IF s = {} THEN cr ELSE MergeContainers(after[s \ {Max(s)}], patches[Max(s)])]
<1>1. Is(CHOOSE after : Is(after))
  BY DEF Bodies
<1>2. PatchBody(cr, patches) = (CHOOSE after : Is(after))[DOMAIN patches]
  BY DEF PatchBody, FoldLeft, MapThenFoldSet
<1> QED BY <1>1, <1>2 DEF Bodies

\* PATCH /vllm-config has at most two of them.
LEMMA BodyOfNone ==
  ASSUME NEW cr, NEW patches, patches = <<>>
  PROVE  PatchBody(cr, patches) = cr
<1>1. DOMAIN patches = {}
  OBVIOUS
<1>2. \E after : Bodies(after, cr, patches)
  <2>1. PICK after : after = [s \in SUBSET {} |-> cr]
    OBVIOUS
  <2>2. Bodies(after, cr, patches)
    BY <1>1, <2>1 DEF Bodies
  <2> QED BY <2>2
<1>3. PICK after : Bodies(after, cr, patches) /\ PatchBody(cr, patches) = after[DOMAIN patches]
  BY <1>2, BodyChosen
<1>4. after[{}] = cr
  BY <1>1, <1>3 DEF Bodies
<1> QED BY <1>1, <1>3, <1>4

\* One sub-patch is merged into the CR that was read,
LEMMA BodyOfOne ==
  ASSUME NEW cr, NEW p, NEW patches, patches = <<p>>
  PROVE  PatchBody(cr, patches) = MergeContainers(cr, p)
<1>1. DOMAIN patches = {1} /\ patches[1] = p
  OBVIOUS
<1>2. Max({1}) = 1
  BY Singleton
<1>3. \A s \in SUBSET {1} : s = {} \/ s = {1}
  OBVIOUS
<1>4. \E after : Bodies(after, cr, patches)
  <2>1. PICK after : after = [s \in SUBSET {1} |-> IF s = {} THEN cr ELSE MergeContainers(cr, p)]
    OBVIOUS
  <2>2. \A s \in SUBSET {1} :
          after[s] = IF s = {} THEN cr ELSE MergeContainers(after[s \ {Max(s)}], patches[Max(s)])
    <3> TAKE s \in SUBSET {1}
    <3>1. CASE s = {}
      BY <2>1, <3>1
    <3>2. CASE s = {1}
      <4>1. Max(s) = 1 /\ s \ {Max(s)} = {} /\ s # {}
        BY <1>2, <3>2
      <4>2. after[{}] = cr /\ after[s] = MergeContainers(cr, p)
        BY <2>1, <4>1
      <4> QED BY <1>1, <4>1, <4>2
    <3> QED BY <1>3, <3>1, <3>2
  <2>3. Bodies(after, cr, patches)
    BY <1>1, <2>1, <2>2 DEF Bodies
  <2> QED BY <2>3
<1>5. PICK after : Bodies(after, cr, patches) /\ PatchBody(cr, patches) = after[DOMAIN patches]
  BY <1>4, BodyChosen
<1>6. after[{}] = cr
  BY <1>1, <1>5 DEF Bodies
<1>7. {1} \ {1} = {} /\ {1} # {} /\ {1} \in SUBSET {1}
  OBVIOUS
<1>8. after[{1}] = MergeContainers(after[{1} \ {Max({1})}], patches[Max({1})])
  BY <1>1, <1>5, <1>7 DEF Bodies
<1> QED BY <1>1, <1>2, <1>5, <1>6, <1>7, <1>8

\* and a second one into the result.
LEMMA BodyOfTwo ==
  ASSUME NEW cr, NEW p, NEW r, NEW patches,
         DOMAIN patches = {1, 2}, patches[1] = p, patches[2] = r
  PROVE  PatchBody(cr, patches) = MergeContainers(MergeContainers(cr, p), r)
<1>1. DOMAIN patches = {1, 2} /\ patches[1] = p /\ patches[2] = r
  OBVIOUS
<1>2. Max({1}) = 1 /\ Max({2}) = 2 /\ Max({1, 2}) = 2
  <2>1. {1, 2} \in SUBSET Nat /\ {1, 2} # {} /\ \A x \in {1, 2} : x <= 2
    OBVIOUS
  <2>2. Max({1, 2}) \in {1, 2} /\ \A x \in {1, 2} : x <= Max({1, 2})
    BY <2>1, MaxProp
  <2> QED BY <2>2, Singleton
<1>3. \A s \in SUBSET {1, 2} : s = {} \/ s = {1} \/ s = {2} \/ s = {1, 2}
  OBVIOUS
<1>4. \E after : Bodies(after, cr, patches)
  <2>1. PICK one, other, both :
          /\ one = MergeContainers(cr, p) /\ other = MergeContainers(cr, r)
          /\ both = MergeContainers(one, r)
    OBVIOUS
  <2>2. PICK after : after = [s \in SUBSET {1, 2} |->
                                IF s = {} THEN cr ELSE IF s = {1} THEN one
                                ELSE IF s = {2} THEN other ELSE both]
    OBVIOUS
  <2>3. after[{}] = cr /\ after[{1}] = one /\ after[{2}] = other /\ after[{1, 2}] = both
    BY <2>2
  <2>4. \A s \in SUBSET {1, 2} :
          after[s] = IF s = {} THEN cr ELSE MergeContainers(after[s \ {Max(s)}], patches[Max(s)])
    <3> TAKE s \in SUBSET {1, 2}
    <3>1. CASE s = {}
      BY <2>3, <3>1
    <3>2. CASE s = {1}
      <4>1. Max(s) = 1 /\ s \ {Max(s)} = {} /\ s # {}
        BY <1>2, <3>2
      <4> QED BY <1>1, <2>1, <2>3, <3>2, <4>1
    <3>3. CASE s = {2}
      <4>1. Max(s) = 2 /\ s \ {Max(s)} = {} /\ s # {}
        BY <1>2, <3>3
      <4> QED BY <1>1, <2>1, <2>3, <3>3, <4>1
    <3>4. CASE s = {1, 2}
      <4>1. Max(s) = 2 /\ s \ {Max(s)} = {1} /\ s # {}
        BY <1>2, <3>4
      <4> QED BY <1>1, <2>1, <2>3, <3>4, <4>1
    <3> QED BY <1>3, <3>1, <3>2, <3>3, <3>4
  <2>5. Bodies(after, cr, patches)
    BY <1>1, <2>2, <2>4 DEF Bodies
  <2> QED BY <2>5
<1>5. PICK after : Bodies(after, cr, patches) /\ PatchBody(cr, patches) = after[DOMAIN patches]
  BY <1>4, BodyChosen
<1>6. after[{}] = cr
  BY <1>1, <1>5 DEF Bodies
<1>7. /\ {1} \ {1} = {} /\ {1} # {} /\ {1} \in SUBSET {1, 2}
      /\ {1, 2} \ {2} = {1} /\ {1, 2} # {} /\ {1, 2} \in SUBSET {1, 2}
  OBVIOUS
<1>8. /\ after[{1}] = MergeContainers(after[{1} \ {Max({1})}], patches[Max({1})])
      /\ after[{1, 2}] = MergeContainers(after[{1, 2} \ {Max({1, 2})}], patches[Max({1, 2})])
  BY <1>1, <1>5, <1>7 DEF Bodies
<1> QED BY <1>1, <1>2, <1>5, <1>6, <1>7, <1>8

\* What a CR and its containers may be.
IsContainer(c) ==
  /\ c = [env |-> c.env, resources |-> c.resources]
  /\ IsMap(c.env) /\ IsMapOfMaps(c.resources)

\* The containers of a CR, by name.
IsCR(cr) == IsMap(cr) /\ \A name \in DOMAIN cr : IsContainer(cr[name])

\* The main container, the one the tuner changes.
MainOf(cr) == At(cr, Main, NoContainer)

\* Merging nothing changes nothing.
LEMMA OverNothing ==
  ASSUME NEW f, IsMap(f)
  PROVE  Over(NoEntries, f) = f /\ MergeTiers(f, NoEntries) = f
<1>1. DOMAIN NoEntries = {}
  BY DEF NoEntries
<1>2. PICK D : D = DOMAIN f /\ f = [name \in D |-> f[name]]
  BY DEF IsMap
<1>3. Over(NoEntries, f) = [name \in D |-> f[name]]
  BY <1>1, <1>2 DEF Over
<1>4. MergeTiers(f, NoEntries) = [name \in D |-> f[name]]
  BY <1>1, <1>2 DEF MergeTiers
<1> QED BY <1>2, <1>3, <1>4

\* A CR without one counts as having an empty one.
LEMMA MainIsContainer ==
  ASSUME NEW cr, IsCR(cr)
  PROVE  IsContainer(MainOf(cr))
<1>1. CASE Main \in DOMAIN cr
  BY <1>1 DEF IsCR, MainOf, At
<1>2. CASE Main \notin DOMAIN cr
  <2>1. MainOf(cr) = [env |-> NoEntries, resources |-> NoEntries]
    BY <1>2 DEF MainOf, At, NoContainer
  <2>2. PICK c : c = MainOf(cr)
    OBVIOUS
  <2>3. /\ c.env = NoEntries /\ c.resources = NoEntries
        /\ c = [env |-> c.env, resources |-> c.resources]
    BY <2>1, <2>2
  <2>4. IsMap(NoEntries) /\ DOMAIN NoEntries = {}
    BY DEF IsMap, NoEntries
  <2> QED BY <2>2, <2>3, <2>4 DEF IsContainer, IsMapOfMaps
<1> QED BY <1>1, <1>2

\* A merge changes the main container, and makes it if there is none.
LEMMA MergedMain ==
  ASSUME NEW cr, NEW p
  PROVE  /\ DOMAIN MergeContainers(cr, p) = {Main} \cup DOMAIN cr
         /\ \A name \in DOMAIN cr \ {Main} : MergeContainers(cr, p)[name] = cr[name]
         /\ MainOf(MergeContainers(cr, p)) = MergeContainer(MainOf(cr), p)
         /\ MergeContainers(cr, p)[Main] = MainOf(MergeContainers(cr, p))
<1>1. PICK m : m = MergeContainer(MainOf(cr), p)
  OBVIOUS
<1>2. PICK e : e = Entry(Main, m)
  OBVIOUS
<1>3. DOMAIN e = {Main} /\ e[Main] = m
  BY <1>2 DEF Entry
<1>4. PICK after : after = Over(e, cr)
  OBVIOUS
<1>5. after = MergeContainers(cr, p)
  BY <1>1, <1>2, <1>4 DEF MergeContainers, MainOf
<1>6. /\ DOMAIN after = {Main} \cup DOMAIN cr
      /\ \A name \in DOMAIN cr \ {Main} : after[name] = cr[name]
      /\ after[Main] = m
  BY <1>3, <1>4 DEF Over
<1>7. MainOf(after) = m
  BY <1>6 DEF MainOf, At
<1> QED BY <1>1, <1>5, <1>6, <1>7

\* The patches of PATCH /vllm-config, put together.
LEMMA Patched ==
  ASSUME NEW cr, IsCR(cr), NEW new, NEW resources,
         NEW after, after = PatchConfig(cr, new, resources)
  PROVE  /\ DOMAIN cr \subseteq DOMAIN after
         /\ \A name \in DOMAIN cr \ {Main} : after[name] = cr[name]
         /\ (new # NoEntries \/ resources # NoEntries \/ Main \in DOMAIN cr) =>
              Main \in DOMAIN after /\ after[Main] = MainOf(after)
         /\ MainOf(after).env =
              IF new = NoEntries THEN MainOf(cr).env
              ELSE Over(Entry(ArgsEnv, BuildString(CurrentArgs(cr), new)), MainOf(cr).env)
         /\ MainOf(after).resources =
              IF resources = NoEntries THEN MainOf(cr).resources
              ELSE MergeTiers(MainOf(cr).resources, ResourcesPatch(resources).resources)
<1>1. PICK main : main = MainOf(cr) /\ IsContainer(main)
  BY MainIsContainer
<1>2. PICK a, e : /\ a = ArgsPatch(cr, new)
                  /\ e = Entry(ArgsEnv, BuildString(CurrentArgs(cr), new))
  OBVIOUS
<1>3. a.env = e /\ a.resources = NoEntries
  BY <1>2 DEF ArgsPatch
<1>4. PICK r, t : r = ResourcesPatch(resources) /\ t = r.resources
  OBVIOUS
<1>5. r.env = NoEntries
  BY <1>4 DEF ResourcesPatch
<1>6. /\ Over(NoEntries, main.env) = main.env
      /\ MergeTiers(main.resources, NoEntries) = main.resources
  BY <1>1, OverNothing DEF IsContainer, IsMapOfMaps
<1>7. IsMap(Over(e, main.env)) /\ Over(NoEntries, Over(e, main.env)) = Over(e, main.env)
  <2>1. IsMap(Over(e, main.env))
    BY DEF IsMap, Over
  <2> QED BY <2>1, OverNothing
<1>8. CASE new = NoEntries /\ resources = NoEntries
  <2>1. after = cr
    <3>1. after = PatchBody(cr, <<>>)
      BY <1>8 DEF PatchConfig
    <3> QED BY <3>1, BodyOfNone
  <2> QED BY <1>8, <2>1 DEF MainOf, At
<1>9. CASE new # NoEntries /\ resources = NoEntries
  <2>1. after = MergeContainers(cr, a)
    <3>1. after = PatchBody(cr, <<a>>)
      BY <1>2, <1>9 DEF PatchConfig
    <3> QED BY <3>1, BodyOfOne
  <2>2. MainOf(after) = MergeContainer(main, a)
    BY <1>1, <2>1, MergedMain
  <2>3. MainOf(after).env = Over(e, main.env) /\ MainOf(after).resources = main.resources
    BY <1>3, <1>6, <2>2 DEF MergeContainer
  <2>4. /\ DOMAIN after = {Main} \cup DOMAIN cr /\ after[Main] = MainOf(after)
        /\ \A name \in DOMAIN cr \ {Main} : after[name] = cr[name]
    BY <2>1, MergedMain
  <2> QED BY <1>1, <1>2, <1>9, <2>3, <2>4
<1>10. CASE new = NoEntries /\ resources # NoEntries
  <2>1. after = MergeContainers(cr, r)
    <3>1. after = PatchBody(cr, <<r>>)
      BY <1>4, <1>10 DEF PatchConfig
    <3> QED BY <3>1, BodyOfOne
  <2>2. MainOf(after) = MergeContainer(main, r)
    BY <1>1, <2>1, MergedMain
  <2>3. MainOf(after).env = main.env /\ MainOf(after).resources = MergeTiers(main.resources, t)
    BY <1>4, <1>5, <1>6, <2>2 DEF MergeContainer
  <2>4. /\ DOMAIN after = {Main} \cup DOMAIN cr /\ after[Main] = MainOf(after)
        /\ \A name \in DOMAIN cr \ {Main} : after[name] = cr[name]
    BY <2>1, MergedMain
  <2> QED BY <1>1, <1>4, <1>10, <2>3, <2>4
<1>11. CASE new # NoEntries /\ resources # NoEntries
  <2>1. PICK one : one = MergeContainers(cr, a) /\ after = MergeContainers(one, r)
    <3>1. PICK w : w = (IF new = NoEntries THEN <<>> ELSE <<ArgsPatch(cr, new)>>)
                        \o (IF resources = NoEntries THEN <<>> ELSE <<ResourcesPatch(resources)>>)
      OBVIOUS
    <3>2. after = PatchBody(cr, w)
      BY <3>1 DEF PatchConfig
    <3>3. w = <<a>> \o <<r>>
      BY <1>2, <1>4, <1>11, <3>1, Zenon
    <3>4. PICK u, v : u = <<a>> /\ v = <<r>>
      OBVIOUS
    <3>5. w = Join(u, v)
      BY <3>3, <3>4, Zenon DEF Join
    <3>6. PICK any : any = {a, r}
      OBVIOUS
    <3>7. u \in Seq(any) /\ v \in Seq(any) /\ Len(u) = 1 /\ Len(v) = 1 /\ u[1] = a /\ v[1] = r
      BY <3>4, <3>6
    <3>8. w[1] = a /\ w[2] = r
      <4>1. u \in Seq(any) /\ v \in Seq(any)
        BY <3>7
      <4>2. \A i \in 1..Len(u) : Join(u, v)[i] = u[i]
        BY <4>1, JoinAt
      <4>3. \A i \in 1..Len(v) : Join(u, v)[Len(u) + i] = v[i]
        BY <4>1, JoinAt
      <4>4. Join(u, v)[1] = a
        BY <3>7, <4>2
      <4>5. Join(u, v)[1 + 1] = r
        BY <3>7, <4>3
      <4> QED BY <3>5, <4>4, <4>5
    <3>9. DOMAIN w = {1, 2}
      <4>1. u \in Seq(any) /\ v \in Seq(any)
        BY <3>7
      <4>2. DOMAIN Join(u, v) = 1..(Len(u) + Len(v))
        BY <4>1, JoinAt
      <4>3. 1..(Len(u) + Len(v)) = {1, 2}
        BY <3>7
      <4> QED BY <3>5, <4>2, <4>3
    <3> QED BY <3>2, <3>8, <3>9, BodyOfTwo
  <2>2. MainOf(one) = MergeContainer(main, a)
    BY <1>1, <2>1, MergedMain
  <2>3. MainOf(one).env = Over(e, main.env) /\ MainOf(one).resources = main.resources
    BY <1>3, <1>6, <2>2 DEF MergeContainer
  <2>4. MainOf(after) = MergeContainer(MainOf(one), r)
    BY <2>1, MergedMain
  <2>5. /\ MainOf(after).env = Over(e, main.env)
        /\ MainOf(after).resources = MergeTiers(main.resources, t)
    BY <1>4, <1>5, <1>7, <2>3, <2>4 DEF MergeContainer
  <2>6. /\ DOMAIN one = {Main} \cup DOMAIN cr
        /\ \A name \in DOMAIN cr \ {Main} : one[name] = cr[name]
    BY <2>1, MergedMain
  <2>7. /\ DOMAIN after = {Main} \cup DOMAIN one /\ after[Main] = MainOf(after)
        /\ \A name \in DOMAIN one \ {Main} : after[name] = one[name]
    <3>1. PICK m : m = MergeContainers(one, r)
      OBVIOUS
    <3>2. /\ DOMAIN m = {Main} \cup DOMAIN one /\ m[Main] = MainOf(m)
          /\ \A name \in DOMAIN one \ {Main} : m[name] = one[name]
      BY <3>1, MergedMain
    <3> QED BY <2>1, <3>1, <3>2
  <2> QED BY <1>1, <1>2, <1>4, <1>11, <2>5, <2>6, <2>7
<1> QED BY <1>8, <1>9, <1>10, <1>11

\* The resources after a patch, quantity by quantity.
Asked(base, asked, tier, key) ==
  IF key \notin DOMAIN asked THEN At(At(base, tier, NoEntries), key, Null)
  ELSE IF asked[key] = Empty THEN Null ELSE asked[key]

\* A quantity not asked for stays, one asked for is set, an empty one removed.
LEMMA QuantityPatched ==
  ASSUME NEW base, NEW resources, NEW tier, NEW key, NEW asked,
         asked = At(resources, tier, NoEntries), NEW after,
         after = At(At(MergeTiers(base, ResourcesPatch(resources).resources),
                       tier, NoEntries), key, Null)
  PROVE  after = Asked(base, asked, tier, key)
<1> USE DEF Asked
<1>1. PICK r : r = ResourcesPatch(resources).resources
  OBVIOUS
<1>2. /\ DOMAIN r = {t \in DOMAIN resources : resources[t] # NoEntries}
      /\ \A t \in DOMAIN r : r[t] = [k \in DOMAIN resources[t] |->
                                       IF resources[t][k] = Empty THEN Null ELSE resources[t][k]]
  BY <1>1 DEF ResourcesPatch
<1>3. PICK merged : merged = MergeTiers(base, r)
  OBVIOUS
<1>4. /\ DOMAIN merged = DOMAIN base \cup DOMAIN r
      /\ \A t \in DOMAIN merged : merged[t] = IF t \notin DOMAIN r THEN base[t]
                                              ELSE IF t \notin DOMAIN base THEN r[t]
                                              ELSE MergeValues(base[t], r[t])
  BY <1>3 DEF MergeTiers
<1>5. DOMAIN NoEntries = {}
  BY DEF NoEntries
<1>6. CASE tier \notin DOMAIN r
  <2>1. asked = NoEntries
    BY <1>2, <1>6 DEF At
  <2>2. At(merged, tier, NoEntries) = At(base, tier, NoEntries)
    BY <1>4, <1>6 DEF At
  <2> QED BY <1>1, <1>3, <1>5, <2>1, <2>2
<1>7. CASE tier \in DOMAIN r
  <2>1. asked = resources[tier]
    BY <1>2, <1>7 DEF At
  <2>2. PICK patch : patch = r[tier]
    OBVIOUS
  <2>3. /\ DOMAIN patch = DOMAIN asked
        /\ \A k \in DOMAIN asked : patch[k] = IF asked[k] = Empty THEN Null ELSE asked[k]
    BY <1>2, <1>7, <2>1, <2>2
  <2>4. CASE tier \notin DOMAIN base
    <3>1. At(merged, tier, NoEntries) = patch /\ At(base, tier, NoEntries) = NoEntries
      BY <1>4, <1>7, <2>2, <2>4 DEF At
    <3>2. At(NoEntries, key, Null) = Null
      BY <1>5 DEF At
    <3>3. At(patch, key, Null) = IF key \notin DOMAIN asked THEN Null
                                 ELSE IF asked[key] = Empty THEN Null ELSE asked[key]
      BY <2>3 DEF At
    <3> QED BY <1>1, <1>3, <3>1, <3>2, <3>3
  <2>5. CASE tier \in DOMAIN base
    <3>1. PICK b : b = base[tier]
      OBVIOUS
    <3>2. PICK v : v = MergeValues(b, patch)
      OBVIOUS
    <3>3. At(merged, tier, NoEntries) = v /\ At(base, tier, NoEntries) = b
      BY <1>4, <1>7, <2>2, <2>5, <3>1, <3>2 DEF At
    <3>4. /\ DOMAIN v = {k \in DOMAIN b \cup DOMAIN patch : At(patch, k, Empty) # Null}
          /\ \A k \in DOMAIN v : v[k] = IF k \in DOMAIN patch THEN patch[k] ELSE b[k]
      BY <3>2 DEF MergeValues, Over
    <3>5. At(v, key, Null) = IF key \notin DOMAIN asked THEN At(b, key, Null)
                             ELSE IF asked[key] = Empty THEN Null ELSE asked[key]
      BY <2>3, <3>4, ArgsAssumption DEF At
    <3> QED BY <1>1, <1>3, <3>3, <3>5
  <2> QED BY <2>4, <2>5
<1> QED BY <1>6, <1>7

\* The questions about argument lists and about CRs.
KnownCR ==
  question \in [topic : {"deployment"},
                about : [items : ArgItems, new : ArgChanges, cr : Deployments,
                         resources : ResourceChanges]]

\* The CR a question is about, and the arguments it holds.
LEMMA DeployedProp ==
  ASSUME KnownCR, NEW q, q = question.about, NEW before, before = Deployed(q)
  PROVE  /\ IsCR(before)
         /\ CurrentArgs(before) = ListOf(IF q.cr.holds THEN q.items ELSE <<>>)
<1>1. PICK cr : cr = q.cr.containers
  OBVIOUS
<1>2. /\ IsCR(cr)
      /\ q.cr.holds => Main \in DOMAIN cr
      /\ (~q.cr.holds /\ Main \in DOMAIN cr) => ArgsEnv \notin DOMAIN cr[Main].env
  <2>1. q.cr \in Deployments
    BY DEF KnownCR
  <2> QED BY <1>1, <2>1, DeploymentsAssumption DEF IsCR, IsContainer
<1>3. CASE ~q.cr.holds
  <2>1. before = cr
    BY <1>1, <1>3 DEF Deployed
  <2>2. CurrentArgs(cr) = <<>>
    <3>1. CASE Main \in DOMAIN cr
      BY <1>2, <1>3, <3>1 DEF CurrentArgs, At
    <3>2. CASE Main \notin DOMAIN cr
      <4>1. At(cr, Main, NoContainer).env = NoEntries /\ DOMAIN NoEntries = {}
        BY <3>2 DEF At, NoContainer, NoEntries
      <4> QED BY <4>1 DEF CurrentArgs, At
    <3> QED BY <3>1, <3>2
  <2> QED BY <1>2, <1>3, <2>1, <2>2, NothingListed
<1>4. CASE q.cr.holds
  <2>1. PICK list : list = ListOf(q.items)
    OBVIOUS
  <2>2. PICK e : e = Over(Entry(ArgsEnv, list), cr[Main].env)
    OBVIOUS
  <2>3. before = [cr EXCEPT ![Main] = [cr[Main] EXCEPT !.env = e]]
    BY <1>1, <1>4, <2>1, <2>2 DEF Deployed
  <2>4. IsContainer(cr[Main]) /\ Main \in DOMAIN cr
    BY <1>2, <1>4 DEF IsCR
  <2>5. PICK c : c = [cr[Main] EXCEPT !.env = e]
    OBVIOUS
  <2>6. /\ c.env = e /\ c.resources = cr[Main].resources
        /\ c = [env |-> e, resources |-> cr[Main].resources]
    BY <2>4, <2>5 DEF IsContainer
  <2>7. IsMap(e) /\ ArgsEnv \in DOMAIN e /\ e[ArgsEnv] = list
    BY <2>2 DEF IsMap, Over, Entry
  <2>8. IsContainer(c)
    BY <2>4, <2>6, <2>7 DEF IsContainer
  <2>9. /\ DOMAIN before = DOMAIN cr
        /\ before = [name \in DOMAIN cr |-> IF name = Main THEN c ELSE cr[name]]
    BY <1>2, <2>3, <2>4, <2>5 DEF IsCR, IsMap
  <2>10. IsCR(before)
    BY <1>2, <2>8, <2>9 DEF IsCR, IsMap
  <2>11. CurrentArgs(before) = list
    BY <2>4, <2>6, <2>7, <2>9 DEF CurrentArgs, At
  <2> QED BY <1>4, <2>1, <2>10, <2>11
<1> QED BY <1>3, <1>4

\* A PATCH keeps what it does not name,
LEMMA SiblingsKept == KnownCR => PatchKeepsSiblings
<1> SUFFICES ASSUME KnownCR PROVE PatchKeepsSiblings
  OBVIOUS
<1>1. PICK q : /\ q = question.about /\ q.items \in ArgItems /\ q.new \in ArgChanges
               /\ q.resources \in ResourceChanges
  BY DEF KnownCR
<1>2. PICK before, after : before = Deployed(q) /\ after = PatchConfig(before, q.new, q.resources)
  OBVIOUS
<1>3. PICK items : items = IF q.cr.holds THEN q.items ELSE <<>>
  OBVIOUS
<1>4. IsCR(before) /\ CurrentArgs(before) = ListOf(items)
  BY <1>1, <1>2, <1>3, DeployedProp
<1>5. PICK main, e : /\ main = MainOf(before)
                     /\ e = Entry(ArgsEnv, BuildString(ListOf(items), q.new))
  OBVIOUS
<1>6. /\ DOMAIN before \subseteq DOMAIN after
      /\ \A name \in DOMAIN before \ {Main} : after[name] = before[name]
      /\ (q.new # NoEntries \/ q.resources # NoEntries \/ Main \in DOMAIN before) =>
           Main \in DOMAIN after /\ after[Main] = MainOf(after)
      /\ MainOf(after).env = IF q.new = NoEntries THEN main.env ELSE Over(e, main.env)
      /\ MainOf(after).resources =
           IF q.resources = NoEntries THEN main.resources
           ELSE MergeTiers(main.resources, ResourcesPatch(q.resources).resources)
  BY <1>2, <1>4, <1>5, Patched
<1>7. DOMAIN e = {ArgsEnv} /\ e[ArgsEnv] = BuildString(ListOf(items), q.new)
  BY <1>5 DEF Entry
<1>8. ASSUME NEW name \in DOMAIN main.env \ {ArgsEnv}
      PROVE  after[Main].env[name] = main.env[name]
  <2>1. Main \in DOMAIN before
    BY <1>5 DEF MainOf, At, NoContainer, NoEntries
  <2>2. after[Main] = MainOf(after)
    BY <1>6, <2>1
  <2>3. Over(e, main.env)[name] = main.env[name]
    BY <1>7 DEF Over
  <2> QED BY <1>6, <2>2, <2>3
<1>9. ASSUME q.new # NoEntries
      PROVE  ArgsToConfig(CurrentArgs(after)) = Wanted(items, q.new)
  <2>1. MainOf(after).env = Over(e, main.env)
    BY <1>6, <1>9
  <2>2. /\ ArgsEnv \in DOMAIN Over(e, main.env)
        /\ Over(e, main.env)[ArgsEnv] = BuildString(ListOf(items), q.new)
    BY <1>7 DEF Over
  <2>3. CurrentArgs(after) = BuildString(ListOf(items), q.new)
    BY <2>1, <2>2 DEF CurrentArgs, MainOf, At
  <2>4. Spelt(items)
    BY <1>1, <1>3, ItemsSpelt
  <2>5. IsMap(q.new) /\ DOMAIN q.new \subseteq TuningKeys
    BY <1>1, ChangesAssumption
  <2> QED BY <2>3, <2>4, <2>5, BuiltRead
<1>10. ASSUME q.resources # NoEntries, NEW tier, NEW key,
              NEW asked, asked = At(q.resources, tier, NoEntries)
       PROVE  Quantity(after[Main], tier, key) =
                IF key \notin DOMAIN asked THEN Quantity(main, tier, key)
                ELSE IF asked[key] = Empty THEN Null ELSE asked[key]
  <2>1. after[Main].resources = MergeTiers(main.resources, ResourcesPatch(q.resources).resources)
    BY <1>6, <1>10
  <2>2. PICK base, resources : base = main.resources /\ resources = q.resources
    OBVIOUS
  <2>3. PICK t : t = At(At(MergeTiers(base, ResourcesPatch(resources).resources),
                           tier, NoEntries), key, Null)
    OBVIOUS
  <2>6. asked = At(resources, tier, NoEntries)
    BY <1>10, <2>2
  <2>7. t = Asked(base, asked, tier, key)
    BY <2>3, <2>6, QuantityPatched
  <2>8. Quantity(after[Main], tier, key) = t
    BY <2>1, <2>2, <2>3 DEF Quantity
  <2>9. Quantity(main, tier, key) = At(At(base, tier, NoEntries), key, Null)
    BY <2>2 DEF Quantity
  <2> QED BY <2>7, <2>8, <2>9 DEF Asked
<1>11. \A name \in DOMAIN before \ {Main} : name \in DOMAIN after /\ after[name] = before[name]
  BY <1>6
<1>12. main = At(before, Main, NoContainer)
  BY <1>5 DEF MainOf
<1>13. q.resources # NoEntries =>
         \A tier, key :
           Quantity(after[Main], tier, key) =
             IF key \notin DOMAIN At(q.resources, tier, NoEntries) THEN Quantity(main, tier, key)
             ELSE IF At(q.resources, tier, NoEntries)[key] = Empty THEN Null
                  ELSE At(q.resources, tier, NoEntries)[key]
  BY <1>10
<1>14. /\ before = Deployed(question.about)
       /\ after = PatchConfig(before, question.about.new, question.about.resources)
       /\ items = IF question.about.cr.holds THEN question.about.items ELSE <<>>
  BY <1>1, <1>2, <1>3
<1> QED BY <1>1, <1>8, <1>9, <1>11, <1>12, <1>13, <1>14 DEF PatchKeepsSiblings

\* and leaves the same CR as a trial, which creates it anew.
LEMMA PatchIsApply == KnownCR => AppliesAgree
<1> SUFFICES ASSUME KnownCR, NEW q, q = question.about, q.new # NoEntries, q.resources = NoEntries
             PROVE  PatchConfig(Deployed(q), q.new, q.resources) = ApplyArgs(Deployed(q), q.new)
  BY DEF AppliesAgree
<1>1. PICK cr : cr = Deployed(q) /\ IsCR(cr)
  BY DeployedProp
<1>2. PICK a : a = ArgsPatch(cr, q.new)
  OBVIOUS
<1>3. PatchConfig(cr, q.new, q.resources) = MergeContainers(cr, a)
  <2>1. PatchConfig(cr, q.new, q.resources) = PatchBody(cr, <<a>>)
    BY <1>2 DEF PatchConfig
  <2> QED BY <2>1, BodyOfOne
<1>4. PICK main : main = MainOf(cr) /\ IsContainer(main)
  BY <1>1, MainIsContainer
<1>5. a.resources = NoEntries
  BY <1>2 DEF ArgsPatch
<1>6. MergeTiers(main.resources, NoEntries) = main.resources
  BY <1>4, OverNothing DEF IsContainer, IsMapOfMaps
<1>7. PICK e : e = Over(a.env, main.env)
  OBVIOUS
<1>8. MergeContainer(main, a) = [env |-> e, resources |-> main.resources]
  BY <1>5, <1>6, <1>7 DEF MergeContainer
<1>9. [main EXCEPT !.env = e] = [env |-> e, resources |-> main.resources]
  BY <1>4 DEF IsContainer
<1>10. MergeContainers(cr, a) = Over(Entry(Main, [env |-> e, resources |-> main.resources]), cr)
  BY <1>4, <1>8 DEF MergeContainers, MainOf
<1>11. ApplyArgs(cr, q.new) = Over(Entry(Main, [main EXCEPT !.env = e]), cr)
  BY <1>2, <1>4, <1>7 DEF ApplyArgs, MainOf
<1> QED BY <1>1, <1>3, <1>9, <1>10, <1>11

\* PATCH /vllm-config leaves every other container, variable and quantity of
\* any CR as it was and changes what it is asked to, whatever the CR already
\* holds, and for the same arguments leaves what a trial and apply-best leave.
THEOREM PatchesDoAgree == DecisionsSpec => []PatchesAgree
<1>1. Known => PatchesAgree
  <2>1. ASSUME Known, About("deployment")
        PROVE  KnownCR
    BY <2>1 DEF Known, KnownCR, About, Idle
  <2>2. CASE About("deployment")
    BY <2>1, <2>2, SiblingsKept, PatchIsApply DEF PatchesAgree, Known
  <2>3. CASE ~About("deployment")
    BY <2>3 DEF PatchesAgree, PatchKeepsSiblings, AppliesAgree
  <2> QED BY <2>2, <2>3
<1> QED BY <1>1, AlwaysKnown, PTL

-----------------------------------------------------------------------------
(* Latencies                                                               *)

\* A function with naturals for the elements of a finite set,
NatOn(f, D) == IsFiniteSet(D) /\ \A x \in D : f[x] \in Nat

\* as it is for the elements of a subset.
LEMMA NatOnPart ==
  ASSUME NEW f, NEW D, NatOn(f, D)
  PROVE  Summable(f, D) /\ \A s \in SUBSET D : NatOn(f, s)
BY FS_Subset DEF NatOn, Summable

\* Naturals sum to a natural,
LEMMA SumNat ==
  ASSUME NEW f, NEW D, NatOn(f, D)
  PROVE  SumFunctionOnSet(f, D) \in Nat
<1> DEFINE P == {s \in SUBSET D : SumFunctionOnSet(f, s) \in Nat}
<1>1. {} \in P
  BY SumNone
<1>2. ASSUME NEW s \in SUBSET D, NEW x \in D, x \notin s, s \in P
      PROVE  s \cup {x} \in P
  <2>1. Summable(f, D)
    BY NatOnPart
  <2>2. PICK t : t = s \cup {x}
    OBVIOUS
  <2>3. SumFunctionOnSet(f, t) = f[x] + SumFunctionOnSet(f, s)
    BY <1>2, <2>1, <2>2, SumIn
  <2>4. f[x] \in Nat /\ t \in SUBSET D
    BY <2>2 DEF NatOn
  <2> QED BY <1>2, <2>2, <2>3, <2>4
<1>3. D \in P
  <2>1. IsFiniteSet(D)
    BY DEF NatOn
  <2> HIDE DEF P
  <2> QED BY <1>1, <1>2, <2>1, SetInduction
<1> QED BY <1>3

\* those of a part to no more,
LEMMA SumPart ==
  ASSUME NEW f, NEW D, NatOn(f, D), NEW S \in SUBSET D
  PROVE  SumFunctionOnSet(f, S) <= SumFunctionOnSet(f, D)
<1>1. PICK T : T = D \ S
  OBVIOUS
<1>2. S \cap T = {} /\ S \cup T = D
  BY <1>1
<1>3. SumFunctionOnSet(f, D) = SumFunctionOnSet(f, S) + SumFunctionOnSet(f, T)
  <2>1. Summable(f, S \cup T)
    BY <1>2, NatOnPart
  <2>2. SumFunctionOnSet(f, S \cup T) = SumFunctionOnSet(f, S) + SumFunctionOnSet(f, T)
    BY <1>2, <2>1, SumUnion
  <2> QED BY <1>2, <2>2, Zenon
<1>4. SumFunctionOnSet(f, S) \in Nat /\ SumFunctionOnSet(f, T) \in Nat
  BY <1>2, NatOnPart, SumNat
<1> QED BY <1>3, <1>4

\* and to as much if the rest is zero.
LEMMA SumRest ==
  ASSUME NEW f, NEW D, NatOn(f, D), NEW S \in SUBSET D, \A x \in D \ S : f[x] = 0
  PROVE  SumFunctionOnSet(f, S) = SumFunctionOnSet(f, D)
<1>1. PICK T : T = D \ S
  OBVIOUS
<1>2. S \cap T = {} /\ S \cup T = D
  BY <1>1
<1>3. SumFunctionOnSet(f, D) = SumFunctionOnSet(f, S) + SumFunctionOnSet(f, T)
  <2>1. Summable(f, S \cup T)
    BY <1>2, NatOnPart
  <2>2. SumFunctionOnSet(f, S \cup T) = SumFunctionOnSet(f, S) + SumFunctionOnSet(f, T)
    BY <1>2, <2>1, SumUnion
  <2> QED BY <1>2, <2>2, Zenon
<1>4. SumFunctionOnSet(f, S) \in Nat /\ NatOn(f, T)
  BY <1>2, NatOnPart, SumNat
<1>5. SumFunctionOnSet(f, T) = Cardinality(T) * 0
  <2>1. IsFiniteSet(T) /\ \A x \in T : f[x] = 0
    BY <1>1, <1>4 DEF NatOn
  <2> QED BY <2>1, SumSame
<1>6. Cardinality(T) \in Nat
  BY <1>4, FS_CardinalityType DEF NatOn
<1> QED BY <1>3, <1>4, <1>5, <1>6

\* Smaller naturals sum to less,
NoLarger(f, g, D) == \A x \in D : f[x] <= g[x]

\* as is seen element by element,
LEMMA SumBelow ==
  ASSUME NEW f, NEW g, NEW D, NatOn(f, D), NatOn(g, D), NoLarger(f, g, D)
  PROVE  SumFunctionOnSet(f, D) <= SumFunctionOnSet(g, D)
<1> DEFINE P == {s \in SUBSET D : SumFunctionOnSet(f, s) <= SumFunctionOnSet(g, s)}
<1>1. {} \in P
  BY SumNone
<1>2. ASSUME NEW s \in SUBSET D, NEW x \in D, x \notin s, s \in P
      PROVE  s \cup {x} \in P
  <2>1. Summable(f, D) /\ Summable(g, D)
    BY NatOnPart
  <2>2. PICK t : t = s \cup {x}
    OBVIOUS
  <2>3. /\ SumFunctionOnSet(f, t) = f[x] + SumFunctionOnSet(f, s)
        /\ SumFunctionOnSet(f, s) \in Int
    BY <1>2, <2>1, <2>2, SumIn
  <2>4. /\ SumFunctionOnSet(g, t) = g[x] + SumFunctionOnSet(g, s)
        /\ SumFunctionOnSet(g, s) \in Int
    BY <1>2, <2>1, <2>2, SumIn
  <2>5. f[x] \in Nat /\ g[x] \in Nat /\ f[x] <= g[x] /\ t \in SUBSET D
    BY <2>2 DEF NatOn, NoLarger
  <2>6. SumFunctionOnSet(f, t) <= SumFunctionOnSet(g, t)
    BY <1>2, <2>3, <2>4, <2>5
  <2> QED BY <2>2, <2>5, <2>6
<1>3. D \in P
  <2>1. IsFiniteSet(D)
    BY DEF NatOn
  <2> HIDE DEF P
  <2> QED BY <1>1, <1>2, <2>1, SetInduction
<1> QED BY <1>3

\* and equal ones to as much.
LEMMA SumAlike ==
  ASSUME NEW f, NEW g, NEW D, NatOn(f, D), \A x \in D : f[x] = g[x]
  PROVE  SumFunctionOnSet(f, D) = SumFunctionOnSet(g, D)
<1>1. NatOn(g, D) /\ NoLarger(f, g, D) /\ NoLarger(g, f, D)
  BY DEF NatOn, NoLarger
<1>2. SumFunctionOnSet(f, D) <= SumFunctionOnSet(g, D)
  BY <1>1, SumBelow
<1>3. SumFunctionOnSet(g, D) <= SumFunctionOnSet(f, D)
  BY <1>1, SumBelow
<1>4. SumFunctionOnSet(f, D) \in Nat /\ SumFunctionOnSet(g, D) \in Nat
  BY <1>1, SumNat
<1> QED BY <1>2, <1>3, <1>4

\* There is a last bucket, and finitely many.
LEMMA BoundsProp ==
  /\ IsFiniteSet(AllBounds) /\ AllBounds \subseteq Nat
  /\ Infinite \in AllBounds /\ \A le \in AllBounds : le <= Infinite
<1>1. IsFiniteSet(AllBounds)
  BY BoundsAssumption, FS_AddElement DEF AllBounds
<1> QED BY <1>1, BoundsAssumption DEF AllBounds

\* Counts of a histogram, of which one is the largest.
Counts(c) == \A le \in AllBounds : c[le] \in Nat
TotalCount(c) == Max({c[le] : le \in AllBounds})

\* The largest count is one of them.
LEMMA LargestCount ==
  ASSUME NEW c, Counts(c)
  PROVE  /\ TotalCount(c) \in Nat
         /\ \E le \in AllBounds : c[le] = TotalCount(c)
         /\ \A le \in AllBounds : c[le] <= TotalCount(c)
<1>1. NatOn(c, AllBounds)
  BY BoundsProp DEF NatOn, Counts
<1>2. PICK n \in Nat : n = SumFunctionOnSet(c, AllBounds)
  BY <1>1, SumNat
<1>3. ASSUME NEW le \in AllBounds PROVE c[le] <= n
  <2>1. SumFunctionOnSet(c, {le}) <= n
    BY <1>1, <1>2, SumPart
  <2>2. Summable(c, AllBounds) /\ {} \in SUBSET AllBounds /\ {le} = {} \cup {le}
    BY <1>1, NatOnPart
  <2>3. SumFunctionOnSet(c, {le}) = c[le] + SumFunctionOnSet(c, {})
    BY <2>2, SumIn
  <2> QED BY <2>1, <2>3, SumNone DEF Counts
<1>4. PICK S : S = {c[le] : le \in AllBounds}
  OBVIOUS
<1>5. S \in SUBSET Nat /\ S # {} /\ \A x \in S : x <= n
  BY <1>3, <1>4, BoundsProp DEF Counts
<1>6. Max(S) \in S /\ \A y \in S : y <= Max(S)
  BY <1>5, MaxProp
<1>7. TotalCount(c) = Max(S)
  BY <1>4 DEF TotalCount
<1> QED BY <1>4, <1>5, <1>6, <1>7

\* The bucket that holds a rank.
BucketOf(c, percent) == Min({l \in AllBounds : c[l] * 100 >= percent * TotalCount(c)})

\* There is one, the first whose count reaches the rank.
LEMMA BucketProp ==
  ASSUME NEW c, Counts(c), NEW percent \in 0..100, NEW le, le = BucketOf(c, percent)
  PROVE  /\ le \in AllBounds /\ le \in Nat /\ c[le] \in Nat
         /\ c[le] * 100 >= percent * TotalCount(c)
         /\ \A l \in AllBounds : c[l] * 100 >= percent * TotalCount(c) => le <= l
<1>1. PICK total \in Nat : total = TotalCount(c)
  BY LargestCount
<1>2. PICK L : L = {l \in AllBounds : c[l] * 100 >= percent * total}
  OBVIOUS
<1>3. L \in SUBSET Nat
  BY <1>2, BoundsProp
<1>4. L # {}
  <2>1. PICK l \in AllBounds : c[l] = total
    BY <1>1, LargestCount
  <2>2. total * 100 >= percent * total
    <3>1. PICK rest \in Nat : percent + rest = 100
      <4>1. 100 - percent \in Nat /\ percent + (100 - percent) = 100
        OBVIOUS
      <4> QED BY <4>1
    <3>2. percent * total \in Nat /\ rest * total \in Nat
      BY <3>1, Times
    <3>3. total * 100 = percent * total + rest * total
      BY <3>1
    <3> QED BY <3>2, <3>3
  <2> QED BY <1>2, <2>1, <2>2
<1>5. Min(L) \in L /\ \A l \in L : Min(L) <= l
  BY <1>3, <1>4, MinProp
<1>6. le = Min(L)
  BY <1>1, <1>2 DEF BucketOf
<1> QED BY <1>1, <1>2, <1>3, <1>5, <1>6 DEF Counts

\* The bound below a bucket.
LowerOf(le) == IF Above(le) = {} THEN 0 ELSE Max(Above(le))

\* It is the closest, and 0 below the first bucket.
LEMMA LowerProp ==
  ASSUME NEW le \in AllBounds, NEW lower, lower = LowerOf(le)
  PROVE  /\ lower \in Nat /\ le \in Nat /\ lower <= le
         /\ Above(le) # {} => lower \in AllBounds /\ lower < le
         /\ \A b \in Bounds : b < le => b <= lower
<1>1. Above(le) \in SUBSET Nat /\ le \in Nat /\ \A b \in Above(le) : b <= le
  <2>1. le \in Nat /\ Bounds \subseteq Nat
    BY BoundsProp, BoundsAssumption
  <2>2. \A b \in Above(le) : b \in Nat /\ b < le
    BY <2>1 DEF Above
  <2>3. \A b \in Above(le) : b <= le
    BY <2>1, <2>2
  <2> QED BY <2>1, <2>2, <2>3
<1>2. CASE Above(le) = {}
  BY <1>1, <1>2 DEF LowerOf, Above
<1>3. CASE Above(le) # {}
  <2>1. Max(Above(le)) \in Above(le) /\ \A y \in Above(le) : y <= Max(Above(le))
    BY <1>1, <1>3, MaxProp
  <2>2. lower = Max(Above(le))
    BY <1>3 DEF LowerOf
  <2> QED BY <1>1, <1>3, <2>1, <2>2 DEF Above, AllBounds
<1> QED BY <1>2, <1>3

\* Products of naturals are ordered as their factors.
LEMMA TimesMono ==
  ASSUME NEW a \in Nat, NEW b \in Nat, NEW c \in Nat, a <= b
  PROVE  a * c <= b * c /\ c * a <= c * b
<1>1. PICK d \in Nat : b = a + d
  <2>1. b - a \in Nat /\ b = a + (b - a)
    OBVIOUS
  <2> QED BY <2>1
<1>2. a * c \in Nat /\ d * c \in Nat
  BY Times
<1>3. b * c = a * c + d * c /\ c * b = b * c /\ c * a = a * c
  BY <1>1
<1> QED BY <1>2, <1>3

\* A quantile of a histogram that is not empty, as a fraction: where in its
\* bucket, of the counts n below the bucket and k up to it, the rank is.
At100(x, d, lower, le, n, k, rank) ==
  \/ /\ le = Infinite /\ x = lower /\ d = 1
  \/ /\ le # Infinite
     /\ d = 100 * (k - n) /\ d \in Nat \ {0}
     /\ 100 * n < rank /\ rank <= 100 * k
     /\ x = lower * d + (le - lower) * (rank - 100 * n)

\* The count of the bucket below one, of which nothing is below the first.
CountBelow(c, le) == IF Above(le) = {} THEN 0 ELSE c[LowerOf(le)]

\* What Quantile gives is such a fraction.
LEMMA QuantileProp ==
  ASSUME NEW c, Counts(c), NEW percent \in 1..100, TotalCount(c) > 0
  PROVE  \E x, d : /\ Quantile(c, percent) = <<x, d>>
                   /\ At100(x, d, LowerOf(BucketOf(c, percent)), BucketOf(c, percent),
                            CountBelow(c, BucketOf(c, percent)), c[BucketOf(c, percent)],
                            percent * TotalCount(c))
<1>1. PICK total, le, lower, n, k :
        /\ total = TotalCount(c) /\ le = BucketOf(c, percent) /\ lower = LowerOf(le)
        /\ n = CountBelow(c, le) /\ k = c[le]
  OBVIOUS
<1>2. total \in Nat /\ total > 0
  BY <1>1, LargestCount
<1>3. PICK rank \in Nat : rank = percent * total /\ rank > 0
  BY <1>2, Times
<1>4. /\ le \in AllBounds /\ le \in Nat /\ k \in Nat /\ k * 100 >= rank
      /\ \A l \in AllBounds : c[l] * 100 >= rank => le <= l
  <2>1. percent \in 0..100 /\ le = BucketOf(c, percent)
    BY <1>1
  <2>2. /\ le \in AllBounds /\ le \in Nat /\ c[le] \in Nat
        /\ c[le] * 100 >= percent * TotalCount(c)
        /\ \A l \in AllBounds : c[l] * 100 >= percent * TotalCount(c) => le <= l
    BY <2>1, BucketProp
  <2>3. rank = percent * TotalCount(c) /\ k = c[le]
    BY <1>1, <1>3
  <2> QED BY <2>2, <2>3
<1>5. /\ lower \in Nat /\ lower <= le
      /\ Above(le) # {} => lower \in AllBounds /\ lower < le
  BY <1>1, <1>4, LowerProp
<1>6. n \in Nat /\ 100 * n < rank
  <2>1. CASE Above(le) = {}
    BY <1>1, <1>3, <2>1 DEF CountBelow
  <2>2. CASE Above(le) # {}
    <3>1. n = c[lower] /\ lower \in AllBounds /\ lower < le
      BY <1>1, <1>5, <2>2 DEF CountBelow
    <3>2. ~(c[lower] * 100 >= rank) /\ c[lower] \in Nat
      BY <1>4, <1>5, <3>1 DEF Counts
    <3> QED BY <1>3, <3>1, <3>2
  <2> QED BY <2>1, <2>2
<1>7. k # n
  BY <1>3, <1>4, <1>6
<1>8. Quantile(c, percent) = Interpolated(c, le, Above(le), rank)
  <2>1. Quantile(c, percent)
          = IF total = 0 THEN <<0, 1>>
            ELSE Interpolated(c, Min({l \in AllBounds : c[l] * 100 >= percent * total}),
                              {b \in Bounds :
                                 b < Min({l \in AllBounds : c[l] * 100 >= percent * total})},
                              percent * total)
    BY <1>1 DEF Quantile, TotalCount
  <2>2. Min({l \in AllBounds : c[l] * 100 >= percent * total}) = le
    BY <1>1 DEF BucketOf
  <2>3. Quantile(c, percent) = Interpolated(c, le, {b \in Bounds : b < le}, rank)
    BY <1>2, <1>3, <2>1, <2>2
  <2> QED BY <2>3 DEF Above
<1>9. Interpolated(c, le, Above(le), rank)
        = IF k = n \/ le = Infinite THEN <<lower, 1>>
          ELSE <<lower * 100 * (k - n) + (le - lower) * (rank - 100 * n), 100 * (k - n)>>
  BY <1>1 DEF Interpolated, LowerOf, CountBelow
<1>10. CASE le = Infinite
  <2>1. At100(lower, 1, lower, le, n, k, rank)
    BY <1>10 DEF At100
  <2>2. Quantile(c, percent) = <<lower, 1>>
    BY <1>8, <1>9, <1>10
  <2> QED BY <1>1, <1>3, <2>1, <2>2
<1>11. CASE le # Infinite
  <2>1. PICK d : d = 100 * (k - n)
    OBVIOUS
  <2>2. d \in Nat \ {0}
    BY <1>3, <1>4, <1>6, <2>1
  <2>3. lower * 100 * (k - n) = lower * d
    BY <1>4, <1>5, <1>6, <2>1
  <2>4. PICK x : x = lower * d + (le - lower) * (rank - 100 * n)
    OBVIOUS
  <2>5. Quantile(c, percent) = <<x, d>>
    BY <1>7, <1>8, <1>9, <1>11, <2>1, <2>3, <2>4
  <2>6. At100(x, d, lower, le, n, k, rank)
    BY <1>3, <1>4, <1>6, <1>11, <2>1, <2>2, <2>4 DEF At100
  <2> QED BY <1>1, <1>3, <2>5, <2>6
<1> QED BY <1>10, <1>11

\* It lies in the bucket.
LEMMA InBucket ==
  ASSUME NEW x, NEW d, NEW lower \in Nat, NEW le \in Nat, lower <= le,
         NEW n \in Nat, NEW k \in Nat, NEW rank \in Nat, At100(x, d, lower, le, n, k, rank)
  PROVE  /\ x \in Nat /\ d \in Nat \ {0}
         /\ lower * d <= x
         /\ le # Infinite => x <= le * d
<1>1. CASE le = Infinite
  BY <1>1 DEF At100
<1>2. CASE le # Infinite
  <2>1. /\ d = 100 * (k - n) /\ d \in Nat \ {0} /\ 100 * n < rank /\ rank <= 100 * k
        /\ x = lower * d + (le - lower) * (rank - 100 * n)
    BY <1>2 DEF At100
  <2>2. PICK w \in Nat, u \in Nat : w = le - lower /\ u = rank - 100 * n
    BY <2>1
  <2>3. u <= d
    BY <2>1, <2>2
  <2>4. w * u \in Nat /\ w * d \in Nat /\ w * u <= w * d /\ lower * d \in Nat
    BY <2>1, <2>2, <2>3, Times, TimesMono
  <2>5. x = lower * d + w * u
    BY <2>1, <2>2
  <2>6. le * d = lower * d + w * d
    <3>1. le = lower + w
      BY <2>2
    <3> QED BY <2>1, <3>1
  <2> QED BY <2>1, <2>4, <2>5, <2>6
<1> QED BY <1>1, <1>2

\* Of two fractions that a bound lies between the first is no larger.
LEMMA Across ==
  ASSUME NEW x \in Nat, NEW d \in Nat, NEW y \in Nat, NEW e \in Nat, NEW a \in Nat, NEW b \in Nat,
         x <= a * d, a <= b, b * e <= y
  PROVE  x * e <= y * d
<1>1. PICK ad \in Nat, ae \in Nat, be \in Nat : ad = a * d /\ ae = a * e /\ be = b * e
  BY Times
<1>2. x * e <= ad * e
  <2>1. x <= ad
    BY <1>1
  <2> QED BY <2>1, TimesMono
<1>3. ad * e = ae * d
  BY <1>1
<1>4. ae * d <= be * d
  <2>1. ae <= be
    BY <1>1, TimesMono
  <2> QED BY <2>1, TimesMono
<1>5. be * d <= y * d
  <2>1. be <= y
    BY <1>1
  <2> QED BY <2>1, TimesMono
<1>6. x * e \in Nat /\ ad * e \in Nat /\ ae * d \in Nat /\ be * d \in Nat /\ y * d \in Nat
  BY <1>1, Times
<1> QED BY <1>2, <1>3, <1>4, <1>5, <1>6

\* A lower percentage is never shown above a higher one, whatever the counts.
LEMMA QuantilesOrdered ==
  ASSUME NEW c, Counts(c), NEW p \in 1..100, NEW q \in 1..100, p <= q
  PROVE  LowerEq(Quantile(c, p), Quantile(c, q))
<1>1. PICK total \in Nat : total = TotalCount(c)
  BY LargestCount
<1>2. CASE total = 0
  <2>1. Quantile(c, p) = <<0, 1>> /\ Quantile(c, q) = <<0, 1>>
    BY <1>1, <1>2 DEF Quantile, TotalCount
  <2> QED BY <2>1 DEF LowerEq
<1>3. CASE total # 0
  <2>1. TotalCount(c) > 0
    BY <1>1, <1>3
  <2>2. PICK le, ll, n, k, r, x, d :
          /\ le = BucketOf(c, p) /\ ll = LowerOf(le) /\ n = CountBelow(c, le) /\ k = c[le]
          /\ r = p * total
          /\ Quantile(c, p) = <<x, d>> /\ At100(x, d, ll, le, n, k, r)
    BY <1>1, <2>1, QuantileProp
  <2>3. PICK me, ml, m, j, s, y, e :
          /\ me = BucketOf(c, q) /\ ml = LowerOf(me) /\ m = CountBelow(c, me) /\ j = c[me]
          /\ s = q * total
          /\ Quantile(c, q) = <<y, e>> /\ At100(y, e, ml, me, m, j, s)
    BY <1>1, <2>1, QuantileProp
  <2>4. r \in Nat /\ s \in Nat /\ r <= s
    BY <2>2, <2>3, Times, TimesMono
  <2>5. /\ le \in AllBounds /\ k \in Nat
        /\ \A l \in AllBounds : c[l] * 100 >= r => le <= l
    <3>1. p \in 0..100 /\ le = BucketOf(c, p)
      BY <2>2
    <3>2. le \in AllBounds /\ c[le] \in Nat
      BY <3>1, BucketProp, Zenon
    <3>3. \A l \in AllBounds : c[l] * 100 >= p * TotalCount(c) => le <= l
      BY <3>1, BucketProp, Zenon
    <3>4. r = p * TotalCount(c) /\ k = c[le]
      BY <1>1, <2>2
    <3> QED BY <3>2, <3>3, <3>4
  <2>6. /\ me \in AllBounds /\ j \in Nat /\ c[me] * 100 >= s
    <3>1. q \in 0..100 /\ me = BucketOf(c, q)
      BY <2>3
    <3>2. me \in AllBounds /\ c[me] \in Nat
      BY <3>1, BucketProp, Zenon
    <3>3. c[me] * 100 >= q * TotalCount(c)
      BY <3>1, BucketProp, Zenon
    <3>4. s = q * TotalCount(c) /\ j = c[me]
      BY <1>1, <2>3
    <3> QED BY <3>2, <3>3, <3>4
  <2>7. le \in Nat /\ me \in Nat /\ le <= me
    <3>1. c[me] * 100 >= r
      BY <2>3, <2>4, <2>6
    <3> QED BY <2>5, <2>6, <3>1, BoundsProp
  <2>8. /\ ll \in Nat /\ ll <= le /\ ml \in Nat /\ ml <= me
        /\ \A b \in Bounds : b < me => b <= ml
    BY <2>2, <2>3, <2>5, <2>6, LowerProp
  <2>9. n \in Nat /\ m \in Nat
    <3>1. CountBelow(c, le) \in Nat
      BY <2>5, LowerProp DEF CountBelow, Counts
    <3>2. CountBelow(c, me) \in Nat
      BY <2>6, LowerProp DEF CountBelow, Counts
    <3> QED BY <2>2, <2>3, <3>1, <3>2
  <2>10. x \in Nat /\ d \in Nat \ {0} /\ (le # Infinite => x <= le * d)
    BY <2>2, <2>4, <2>5, <2>7, <2>8, <2>9, InBucket
  <2>11. y \in Nat /\ e \in Nat \ {0} /\ ml * e <= y
    BY <2>3, <2>4, <2>6, <2>7, <2>8, <2>9, InBucket
  <2>12. x * e <= y * d
    <3>1. CASE le = me /\ le = Infinite
      <4>1. x = ll /\ y = ll /\ d = 1 /\ e = 1
        BY <2>2, <2>3, <3>1 DEF At100
      <4> QED BY <2>8, <4>1
    <3>2. CASE le = me /\ le # Infinite
      <4>1. /\ d = 100 * (k - n) /\ 100 * n < r /\ x = ll * d + (le - ll) * (r - 100 * n)
            /\ e = d /\ y = ll * d + (le - ll) * (s - 100 * n)
        BY <2>2, <2>3, <3>2 DEF At100
      <4>2. PICK w \in Nat, u \in Nat, v \in Nat :
              w = le - ll /\ u = r - 100 * n /\ v = s - 100 * n /\ u <= v
        <5>1. le - ll \in Nat
          BY <2>7, <2>8
        <5>2. r - 100 * n \in Nat /\ s - 100 * n \in Nat /\ r - 100 * n <= s - 100 * n
          BY <2>4, <2>9, <4>1
        <5> QED BY <5>1, <5>2
      <4>3. w * u <= w * v /\ w * u \in Nat /\ w * v \in Nat /\ ll * d \in Nat
        <5>1. w * u <= w * v
          BY <4>2, TimesMono
        <5>2. w * u \in Nat /\ w * v \in Nat /\ ll * d \in Nat
          BY <2>8, <2>10, <4>2, Times
        <5> QED BY <5>1, <5>2
      <4>4. x = ll * d + w * u /\ y = ll * d + w * v
        BY <4>1, <4>2
      <4>5. x <= y
        BY <4>3, <4>4
      <4> QED BY <2>10, <2>11, <4>1, <4>5, TimesMono
    <3>3. CASE le # me
      <4>1. le < me /\ le # Infinite
        BY <2>6, <2>7, <3>3, BoundsProp
      <4>2. le <= ml
        BY <2>5, <2>8, <4>1 DEF AllBounds
      <4>3. x <= le * d /\ ml * e <= y /\ x \in Nat /\ y \in Nat /\ d \in Nat /\ e \in Nat
            /\ le \in Nat /\ ml \in Nat
        BY <2>7, <2>8, <2>10, <2>11, <4>1
      <4> QED BY <4>2, <4>3, Across
    <3> QED BY <3>1, <3>2, <3>3
  <2> QED BY <2>2, <2>3, <2>12 DEF LowerEq
<1> QED BY <1>2, <1>3

\* Requests ended within a bound: no fewer within a larger one, and all of
\* them within the last.
LEMMA EndedProp ==
  ASSUME NEW tally \in [AllBounds -> Nat], NEW le \in AllBounds
  PROVE  /\ EndedUpTo(tally, le) \in Nat
         /\ \A me \in AllBounds : le <= me => EndedUpTo(tally, le) <= EndedUpTo(tally, me)
         /\ tally[le] <= EndedUpTo(tally, Infinite)
<1>1. NatOn(tally, AllBounds)
  BY BoundsProp DEF NatOn
<1> DEFINE upTo(me) == {b \in AllBounds : b <= me}
<1>2. \A me \in AllBounds : /\ upTo(me) \in SUBSET AllBounds
                            /\ NatOn(tally, upTo(me))
  BY <1>1, NatOnPart
<1>3. \A me : EndedUpTo(tally, me) = SumFunctionOnSet(tally, upTo(me))
  BY DEF EndedUpTo
<1>4. \A me \in AllBounds : EndedUpTo(tally, me) \in Nat
  <2> HIDE DEF upTo
  <2> QED BY <1>2, <1>3, SumNat
<1>5. ASSUME NEW me \in AllBounds, le <= me
      PROVE  EndedUpTo(tally, le) <= EndedUpTo(tally, me)
  <2>1. upTo(le) \in SUBSET upTo(me)
    <3>1. \A b \in AllBounds : b <= le => b <= me
      BY <1>5, BoundsProp
    <3> QED BY <3>1
  <2> HIDE DEF upTo
  <2> QED BY <1>2, <1>3, <2>1, SumPart
<1>6. tally[le] <= EndedUpTo(tally, Infinite)
  <2>1. upTo(Infinite) = AllBounds
    BY BoundsProp
  <2>2. SumFunctionOnSet(tally, {le}) <= SumFunctionOnSet(tally, AllBounds)
    BY <1>1, SumPart
  <2>3. Summable(tally, AllBounds) /\ {} \in SUBSET AllBounds /\ {le} = {} \cup {le}
    BY <1>1, NatOnPart
  <2>4. SumFunctionOnSet(tally, {le}) = tally[le] + SumFunctionOnSet(tally, {})
    BY <2>3, SumIn
  <2>5. tally[le] \in Nat
    OBVIOUS
  <2> HIDE DEF upTo
  <2> QED BY <1>3, <2>1, <2>2, <2>4, <2>5, SumNone
<1> QED BY <1>4, <1>5, <1>6

\* How much a bucket of a pod grew.
GrowthAt(pods, p, le) == Growth(pods[p])[le]

\* Every pod grows by a natural in every bucket, at the rate its tally says.
LEMMA GrowthProp ==
  ASSUME NEW pods, ScrapeOf(pods), NEW p \in DOMAIN pods, NEW le \in AllBounds
  PROVE  /\ GrowthAt(pods, p, le) \in Nat /\ pods[p].now[le] \in Nat
         /\ pods[p].before = {} => GrowthAt(pods, p, le) = 0
         /\ \A t : TallyOf(t, pods) /\ pods[p].before # {} =>
              GrowthAt(pods, p, le) = pods[p].per * EndedUpTo(t[p], le)
<1>1. PICK before, now, per : before = pods[p].before /\ now = pods[p].now /\ per = pods[p].per
  OBVIOUS
<1>2. /\ now \in [AllBounds -> Nat] /\ before \subseteq [AllBounds -> Nat] /\ per \in Nat
      /\ \A was, old \in before : was = old
  BY <1>1 DEF ScrapeOf
<1>3. CASE before = {}
  BY <1>1, <1>2, <1>3 DEF GrowthAt, Growth, NoCounts
<1>4. CASE before # {}
  <2>1. PICK was : was = (CHOOSE h \in before : TRUE) /\ was \in before
    BY <1>4
  <2>2. GrowthAt(pods, p, le) = IF now[le] < was[le] THEN 0 ELSE per * (now[le] - was[le])
    BY <1>1, <1>4, <2>1 DEF GrowthAt, Growth
  <2>3. now[le] \in Nat /\ was[le] \in Nat
    BY <1>2, <2>1
  <2>a. GrowthAt(pods, p, le) \in Nat
    <3>1. ~(now[le] < was[le]) => now[le] - was[le] \in Nat
      BY <2>3
    <3>2. ~(now[le] < was[le]) => per * (now[le] - was[le]) \in Nat
      BY <1>2, <3>1, Times
    <3> QED BY <2>2, <3>2
  <2>4. ASSUME NEW t, TallyOf(t, pods)
        PROVE  GrowthAt(pods, p, le) = per * EndedUpTo(t[p], le)
    <3>1. p \in DOMAIN t /\ t[p] \in [AllBounds -> Nat]
      BY <1>1, <1>4, <2>4 DEF TallyOf
    <3>2. now[le] = was[le] + EndedUpTo(t[p], le)
      BY <1>1, <2>1, <2>4, <3>1 DEF TallyOf
    <3>3. PICK ended \in Nat : ended = EndedUpTo(t[p], le)
      BY <3>1, EndedProp
    <3>4. ~(now[le] < was[le]) /\ now[le] - was[le] = ended
      BY <2>3, <3>2, <3>3
    <3> QED BY <2>2, <3>3, <3>4
  <2> QED BY <1>1, <1>2, <1>4, <2>3, <2>a, <2>4
<1> QED BY <1>3, <1>4

\* What all pods grew by.
Grown(pods, le) == SumFunction([p \in DOMAIN pods |-> GrowthAt(pods, p, le)])

\* The counts a latency is computed from are counts,
LEMMA MergedProp ==
  ASSUME NEW pods, ScrapeOf(pods)
  PROVE  /\ Counts(Merged(pods))
         /\ (\E le \in AllBounds : Grown(pods, le) > 0) =>
              \A le \in AllBounds : Merged(pods)[le] = Grown(pods, le)
<1> DEFINE grown == [le \in AllBounds |-> Grown(pods, le)]
           counted == [le \in AllBounds |-> SumFunction([p \in DOMAIN pods |-> pods[p].now[le]])]
<1>1. Merged(pods) = IF \E le \in AllBounds : grown[le] > 0 THEN grown ELSE counted
  BY DEF Merged, Grown, GrowthAt
<1>2. ASSUME NEW le \in AllBounds PROVE grown[le] \in Nat /\ counted[le] \in Nat
  <2>1. PICK f, g : /\ f = [p \in DOMAIN pods |-> GrowthAt(pods, p, le)]
                    /\ g = [p \in DOMAIN pods |-> pods[p].now[le]]
    OBVIOUS
  <2>2. NatOn(f, DOMAIN pods) /\ NatOn(g, DOMAIN pods)
    <3>1. \A p \in DOMAIN pods : GrowthAt(pods, p, le) \in Nat /\ pods[p].now[le] \in Nat
      BY GrowthProp
    <3> QED BY <2>1, <3>1 DEF NatOn, ScrapeOf
  <2>3. SumFunction(f) \in Nat /\ SumFunction(g) \in Nat
    <3>1. DOMAIN f = DOMAIN pods /\ DOMAIN g = DOMAIN pods
      BY <2>1
    <3>2. SumFunctionOnSet(f, DOMAIN pods) \in Nat /\ SumFunctionOnSet(g, DOMAIN pods) \in Nat
      BY <2>2, SumNat
    <3> QED BY <3>1, <3>2 DEF SumFunction
  <2> QED BY <2>1, <2>3 DEF Grown
<1>3. \A le \in AllBounds : grown[le] = Grown(pods, le)
  OBVIOUS
<1> HIDE DEF grown, counted
<1>4. CASE \E le \in AllBounds : grown[le] > 0
  BY <1>1, <1>2, <1>3, <1>4 DEF Counts
<1>5. CASE ~\E le \in AllBounds : grown[le] > 0
  BY <1>1, <1>2, <1>3, <1>5 DEF Counts
<1> QED BY <1>4, <1>5

\* What the tallies of all pods add up to per second,
Ended(pods, t, le) == SumFunction([p \in DOMAIN t |-> pods[p].per * EndedUpTo(t[p], le)])

\* which is what all pods grew by.
LEMMA GrownProp ==
  ASSUME NEW pods, ScrapeOf(pods), NEW t, TallyOf(t, pods), NEW le \in AllBounds
  PROVE  Grown(pods, le) = Ended(pods, t, le)
<1>1. PICK f, g : /\ f = [p \in DOMAIN pods |-> GrowthAt(pods, p, le)]
                  /\ g = [p \in DOMAIN t |-> pods[p].per * EndedUpTo(t[p], le)]
  OBVIOUS
<1>2. PICK D, S : D = DOMAIN pods /\ S = DOMAIN t /\ S \in SUBSET D /\ IsFiniteSet(D)
  BY DEF TallyOf, ScrapeOf
<1>3. NatOn(f, D)
  <2>1. \A p \in D : f[p] \in Nat
    BY <1>1, <1>2, GrowthProp
  <2> QED BY <1>2, <2>1 DEF NatOn
<1>4. \A p \in S : f[p] = g[p]
  <2> TAKE p \in S
  <2>1. p \in DOMAIN pods /\ pods[p].before # {}
    BY <1>2 DEF TallyOf
  <2>2. GrowthAt(pods, p, le) = pods[p].per * EndedUpTo(t[p], le)
    BY <2>1, GrowthProp
  <2> QED BY <1>1, <1>2, <2>1, <2>2
<1>5. \A p \in D \ S : f[p] = 0
  <2> TAKE p \in D \ S
  <2>1. p \in DOMAIN pods /\ pods[p].before = {}
    BY <1>2 DEF TallyOf
  <2>2. GrowthAt(pods, p, le) = 0
    BY <2>1, GrowthProp
  <2> QED BY <1>1, <2>1, <2>2
<1>6. SumFunctionOnSet(f, S) = SumFunctionOnSet(f, D)
  BY <1>2, <1>3, <1>5, SumRest
<1>7. SumFunctionOnSet(f, S) = SumFunctionOnSet(g, S)
  <2>1. NatOn(f, S)
    BY <1>2, <1>3, NatOnPart
  <2> QED BY <1>4, <2>1, SumAlike
<1>8. DOMAIN f = D /\ DOMAIN g = S
  BY <1>1, <1>2
<1> QED BY <1>1, <1>6, <1>7, <1>8 DEF Grown, Ended, SumFunction

\* They grow with the bound, and the last counts them all.
LEMMA EndedGrows ==
  ASSUME NEW pods, ScrapeOf(pods), NEW t, TallyOf(t, pods), NEW le \in AllBounds
  PROVE  /\ Ended(pods, t, le) \in Nat /\ Ended(pods, t, le) <= Ended(pods, t, Infinite)
         /\ \A p \in DOMAIN t : \A b \in AllBounds :
              pods[p].per > 0 => t[p][b] <= Ended(pods, t, Infinite)
<1>1. PICK f, g, S : /\ f = [p \in DOMAIN t |-> pods[p].per * EndedUpTo(t[p], le)]
                     /\ g = [p \in DOMAIN t |-> pods[p].per * EndedUpTo(t[p], Infinite)]
                     /\ S = DOMAIN t
  OBVIOUS
<1>2. IsFiniteSet(S) /\ \A p \in S : t[p] \in [AllBounds -> Nat] /\ pods[p].per \in Nat
  <2>1. S \in SUBSET DOMAIN pods /\ IsFiniteSet(DOMAIN pods)
    BY <1>1 DEF TallyOf, ScrapeOf
  <2>2. \A p \in S : pods[p].per \in Nat
    BY <2>1 DEF ScrapeOf
  <2> QED BY <1>1, <2>1, <2>2, FS_Subset DEF TallyOf
<1>3. \A p \in S : /\ f[p] \in Nat /\ g[p] \in Nat /\ f[p] <= g[p]
                   /\ \A b \in AllBounds : pods[p].per > 0 => t[p][b] <= g[p]
  <2> TAKE p \in S
  <2>1. PICK tally \in [AllBounds -> Nat], per \in Nat : tally = t[p] /\ per = pods[p].per
    BY <1>2
  <2>2. PICK some \in Nat, all \in Nat :
          some = EndedUpTo(tally, le) /\ all = EndedUpTo(tally, Infinite) /\ some <= all
    BY BoundsProp, EndedProp
  <2>3. \A b \in AllBounds : tally[b] \in Nat /\ tally[b] <= all
    BY <2>2, EndedProp
  <2>4. per * some \in Nat /\ per * all \in Nat /\ per * some <= per * all
    BY <2>2, Times, TimesMono
  <2>5. f[p] = per * some /\ g[p] = per * all
    BY <1>1, <2>1, <2>2
  <2>6. per > 0 => all <= per * all
    <3>1. per > 0 => 1 * all <= per * all
      <4>1. per > 0 => 1 <= per
        OBVIOUS
      <4> QED BY <2>2, <4>1, TimesMono
    <3> QED BY <2>2, <3>1
  <2>7. ASSUME NEW b \in AllBounds, per > 0 PROVE tally[b] <= per * all
    BY <2>2, <2>3, <2>4, <2>6, <2>7
  <2> QED BY <2>1, <2>4, <2>5, <2>7
<1>4. NatOn(f, S) /\ NatOn(g, S) /\ NoLarger(f, g, S)
  BY <1>2, <1>3 DEF NatOn, NoLarger
<1>5. /\ Ended(pods, t, le) = SumFunctionOnSet(f, S)
      /\ Ended(pods, t, Infinite) = SumFunctionOnSet(g, S)
  BY <1>1 DEF Ended, SumFunction
<1>6. PICK all \in Nat : all = SumFunctionOnSet(g, S)
  BY <1>4, SumNat
<1>7. SumFunctionOnSet(f, S) \in Nat /\ SumFunctionOnSet(f, S) <= all
  BY <1>4, <1>6, SumNat, SumBelow
<1>8. ASSUME NEW p \in S, NEW b \in AllBounds, pods[p].per > 0 PROVE t[p][b] <= all
  <2>1. SumFunctionOnSet(g, {p}) <= all
    BY <1>4, <1>6, SumPart
  <2>2. Summable(g, S) /\ {} \in SUBSET S /\ {p} = {} \cup {p}
    BY <1>4, NatOnPart
  <2>3. SumFunctionOnSet(g, {p}) = g[p] + SumFunctionOnSet(g, {})
    BY <2>2, SumIn
  <2>4. t[p][b] \in Nat /\ g[p] \in Nat /\ t[p][b] <= g[p]
    BY <1>2, <1>3, <1>8
  <2> QED BY <1>6, <2>1, <2>3, <2>4, SumNone
<1> QED BY <1>1, <1>5, <1>6, <1>7, <1>8

\* A latency shown lies in a bucket,
ShownWithin(shown, le) ==
  /\ LowerEq(<<LowerOf(le), 1>>, shown)
  /\ le # Infinite => LowerEq(shown, <<le, 1>>)

\* as every quantile of counts that are not all zero does.
LEMMA QuantileWithin ==
  ASSUME NEW c, Counts(c), TotalCount(c) > 0, NEW percent \in 1..100
  PROVE  ShownWithin(Quantile(c, percent), BucketOf(c, percent))
<1>1. PICK le, lower, n, k, rank, x, d :
        /\ le = BucketOf(c, percent) /\ lower = LowerOf(le) /\ n = CountBelow(c, le)
        /\ k = c[le] /\ rank = percent * TotalCount(c)
        /\ Quantile(c, percent) = <<x, d>> /\ At100(x, d, lower, le, n, k, rank)
  BY QuantileProp
<1>2. le \in AllBounds /\ k \in Nat
  <2>1. percent \in 0..100
    OBVIOUS
  <2> QED BY <1>1, <2>1, BucketProp
<1>3. rank \in Nat
  BY <1>1, LargestCount, Times
<1>4. lower \in Nat /\ le \in Nat /\ lower <= le
  BY <1>1, <1>2, LowerProp
<1>5. n \in Nat
  BY <1>1, <1>2, LowerProp DEF CountBelow, Counts
<1>6. x \in Nat /\ d \in Nat \ {0} /\ lower * d <= x /\ (le # Infinite => x <= le * d)
  BY <1>1, <1>2, <1>3, <1>4, <1>5, InBucket
<1> QED BY <1>1, <1>4, <1>6 DEF ShownWithin, LowerEq

\* Between two scrapes the largest count is that of the last bucket.
LEMMA TallyBucket ==
  ASSUME NEW pods, ScrapeOf(pods), NEW t, TallyOf(t, pods),
         \E p \in DOMAIN t : pods[p].per > 0 /\ \E b \in AllBounds : t[p][b] > 0,
         NEW c, c = Merged(pods), NEW percent \in 1..100
  PROVE  Counts(c) /\ TotalCount(c) > 0 /\ RankBucket(pods, t, percent) = BucketOf(c, percent)
<1>1. Infinite \in AllBounds
  BY BoundsProp
<1>2. PICK all \in Nat : all = Ended(pods, t, Infinite) /\ all > 0
  <2>1. PICK p \in DOMAIN t : pods[p].per > 0 /\ \E b \in AllBounds : t[p][b] > 0
    OBVIOUS
  <2>2. PICK b \in AllBounds : t[p][b] > 0
    BY <2>1
  <2>3. t[p][b] <= Ended(pods, t, Infinite) /\ Ended(pods, t, Infinite) \in Nat
    BY <1>1, <2>1, EndedGrows
  <2>4. t[p][b] \in Nat
    BY DEF TallyOf
  <2> QED BY <2>2, <2>3, <2>4
<1>3. \A le \in AllBounds : c[le] = Ended(pods, t, le)
  <2>1. \A le \in AllBounds : Grown(pods, le) = Ended(pods, t, le)
    BY GrownProp
  <2>2. \E le \in AllBounds : Grown(pods, le) > 0
    BY <1>1, <1>2, <2>1
  <2> QED BY <2>1, <2>2, MergedProp
<1>4. Counts(c)
  BY MergedProp
<1>5. TotalCount(c) = all
  <2>1. PICK le \in AllBounds : c[le] = TotalCount(c)
    BY <1>4, LargestCount
  <2>2. c[Infinite] <= TotalCount(c) /\ TotalCount(c) \in Nat
    BY <1>1, <1>4, LargestCount
  <2>3. c[le] <= all
    BY <1>2, <1>3, EndedGrows
  <2> QED BY <1>1, <1>2, <1>3, <2>1, <2>2, <2>3
<1>6. RankBucket(pods, t, percent)
        = Min({le \in AllBounds : Ended(pods, t, le) * 100 >= percent * all})
  BY <1>2 DEF RankBucket, Ended
<1>7. BucketOf(c, percent)
        = Min({le \in AllBounds : Ended(pods, t, le) * 100 >= percent * all})
  <2>1. {le \in AllBounds : c[le] * 100 >= percent * TotalCount(c)}
          = {le \in AllBounds : Ended(pods, t, le) * 100 >= percent * all}
    BY <1>3, <1>5
  <2> QED BY <2>1 DEF BucketOf
<1> QED BY <1>2, <1>4, <1>5, <1>6, <1>7

\* The latencies a target shows, of any number of pods, scraped last at any
\* times, and of any buckets, lie in the bucket of the request per second they
\* stand for, and the median is no larger than the p99, even when pods
\* restarted and the growth of their buckets no longer increases with the bound.
THEOREM LatenciesInBucket == DecisionsSpec => []LatencyInBucket
<1>1. Known => LatencyInBucket
  <2> SUFFICES ASSUME Known, About("latency")
               PROVE  LatencyInBucket
    BY DEF LatencyInBucket
  <2>1. PICK q : q = question.about /\ q \in Scrapes
    BY DEF Known, About, Idle
  <2>2. PICK pods, tallies : pods = q.pods /\ tallies = q.grown
    OBVIOUS
  <2>3. ScrapeOf(pods) /\ \A t \in tallies : TallyOf(t, pods)
    BY <2>1, <2>2, ScrapesAssumption
  <2>4. PICK c : c = Merged(pods) /\ Counts(c)
    BY <2>3, MergedProp
  <2>5. Shown50(pods) = Quantile(c, 50) /\ Shown99(pods) = Quantile(c, 99)
    BY <2>4 DEF Shown50, Shown99
  <2>6. LowerEq(Shown50(pods), Shown99(pods))
    <3>1. 50 \in 1..100 /\ 99 \in 1..100 /\ 50 <= 99
      OBVIOUS
    <3> QED BY <2>4, <2>5, <3>1, QuantilesOrdered
  <2>7. ASSUME NEW t \in tallies,
               \E p \in DOMAIN t : pods[p].per > 0 /\ \E b \in AllBounds : t[p][b] > 0
        PROVE  /\ ShownWithin(Shown50(pods), RankBucket(pods, t, 50))
               /\ ShownWithin(Shown99(pods), RankBucket(pods, t, 99))
    <3>1. 50 \in 1..100 /\ 99 \in 1..100
      OBVIOUS
    <3>2. \A percent \in 1..100 : /\ TotalCount(c) > 0
                                  /\ RankBucket(pods, t, percent) = BucketOf(c, percent)
      BY <2>3, <2>4, <2>7, TallyBucket
    <3>3. \A percent \in 1..100 : ShownWithin(Quantile(c, percent), RankBucket(pods, t, percent))
      BY <2>4, <3>2, QuantileWithin
    <3> QED BY <2>5, <3>1, <3>3
  <2> QED BY <2>1, <2>2, <2>6, <2>7 DEF LatencyInBucket, ShownWithin, LowerOf
<1> QED BY <1>1, AlwaysKnown, PTL
=============================================================================
