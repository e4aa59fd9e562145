-------------------------------- MODULE Sums --------------------------------
(***************************************************************************)
(* Sums over finite sets, for the proofs about balances and quantities.    *)
(* MapThenSumSet folds its set in the order CHOOSE picks; the lemmas say   *)
(* that the order does not matter.  They go by induction on finite sets:   *)
(* a smallest subset on which a claim fails cannot exist.                  *)
(***************************************************************************)
EXTENDS Integers, FiniteSetsExt, FiniteSetTheorems, WellFoundedInduction, TLAPS

\* The sum of the values f has on S.
SumOver(f, S) == MapThenSumSet(LAMBDA x : f[x], S)

\* g holds the sum of f over every subset of S, as the fold computes it.
Adds(g, f, S) ==
  g = [s \in SUBSET S |->
         IF s = {} THEN 0
         ELSE LET x == CHOOSE x \in s : TRUE IN f[x] + g[s \ {x}]]

\* The image of a finite set is finite.
LEMMA FiniteImage ==
  ASSUME NEW S, IsFiniteSet(S), NEW f
  PROVE  IsFiniteSet({f[x] : x \in S})
<1> DEFINE T == {f[x] : x \in S}
           g == [x \in S |-> f[x]]
<1>1. g \in Surjection(S, T)
  BY DEF Surjection
<1> HIDE DEF T, g
<1>2. IsFiniteSet(T)
  BY <1>1, FS_Surjection
<1> QED
  BY <1>2 DEF T

\* Among subsets of a finite set one has no smaller subset.
LEMMA SmallestSubset ==
  ASSUME NEW S, IsFiniteSet(S), NEW T, T \subseteq SUBSET S, T # {}
  PROVE  \E A \in T : \A B \in T : ~ (B \subseteq A /\ B # A)
<1>1. T \subseteq FiniteSubsetsOf(S)
  BY FS_Subset DEF FiniteSubsetsOf
<1>2. \E A \in T : \A B \in T : <<B, A>> \notin StrictSubsetOrdering(S)
  BY <1>1, FS_StrictSubsetOrderingWellFounded, WFMin
<1> QED
  BY <1>2 DEF StrictSubsetOrdering

\* Two tables of sums agree wherever both are defined.
LEMMA AddsOnce ==
  ASSUME NEW f, NEW S, NEW U, IsFiniteSet(S), NEW g, NEW h, Adds(g, f, S), Adds(h, f, U),
         NEW C, C \subseteq S, C \subseteq U
  PROVE  g[C] = h[C]
<1> DEFINE T == {A \in SUBSET S : A \subseteq U /\ g[A] # h[A]}
<1>1. SUFFICES ASSUME T # {} PROVE FALSE
  OBVIOUS
<1>2. PICK A \in T : \A B \in T : ~ (B \subseteq A /\ B # A)
  <2>1. T \subseteq SUBSET S
    OBVIOUS
  <2> HIDE DEF T
  <2> QED
    BY <1>1, <2>1, SmallestSubset
<1> DEFINE x == CHOOSE x \in A : TRUE
<1>3. /\ g[A] = IF A = {} THEN 0 ELSE f[x] + g[A \ {x}]
      /\ h[A] = IF A = {} THEN 0 ELSE f[x] + h[A \ {x}]
  BY DEF Adds
<1>4. CASE A # {}
  <2>1. x \in A
    BY <1>4
  <2> QED
    BY <1>2, <1>3, <1>4, <2>1
<1> QED
  BY <1>2, <1>3, <1>4

\* Every finite set has a table of sums.
LEMMA AddsExists ==
  ASSUME NEW f, NEW S, IsFiniteSet(S)
  PROVE  \E g : Adds(g, f, S)
<1> DEFINE T == {A \in SUBSET S : ~ \E g : Adds(g, f, A)}
<1>1. SUFFICES ASSUME T # {} PROVE FALSE
  OBVIOUS
<1>2. PICK A \in T : \A B \in T : ~ (B \subseteq A /\ B # A)
  <2>1. T \subseteq SUBSET S
    OBVIOUS
  <2> HIDE DEF T
  <2> QED
    BY <1>1, <2>1, SmallestSubset
<1> DEFINE Of(B) == CHOOSE g : Adds(g, f, B)
           G == [s \in SUBSET A |-> IF s = {} THEN 0
                   ELSE LET x == CHOOSE x \in s : TRUE IN f[x] + Of(s \ {x})[s \ {x}]]
<1>3. ASSUME NEW B \in SUBSET A, B # A PROVE Adds(Of(B), f, B)
  BY <1>2, <1>3
<1>4. ASSUME NEW s \in SUBSET A, s # {}, s # A
      PROVE  G[s] = Of(s)[s]
  <2> DEFINE x == CHOOSE x \in s : TRUE
  <2>1. x \in s
    BY <1>4
  <2>2. Adds(Of(s), f, s) /\ Adds(Of(s \ {x}), f, s \ {x})
    BY <1>3, <1>4, <2>1
  <2>3. Of(s)[s \ {x}] = Of(s \ {x})[s \ {x}]
    <3>1. IsFiniteSet(s)
      BY FS_Subset
    <3> HIDE DEF Of
    <3> QED
      BY <2>2, <3>1, AddsOnce
  <2>4. Of(s)[s] = f[x] + Of(s)[s \ {x}]
    <3> HIDE DEF Of
    <3> QED
      BY <1>4, <2>2 DEF Adds
  <2> QED
    BY <2>3, <2>4, <1>4
<1> DEFINE E(s) == IF s = {} THEN 0
                   ELSE LET x == CHOOSE x \in s : TRUE IN f[x] + G[s \ {x}]
<1>5. ASSUME NEW s \in SUBSET A
      PROVE  G[s] = E(s)
  <2>1. CASE s # {}
    <3> DEFINE x == CHOOSE x \in s : TRUE
    <3>1. x \in s /\ s \ {x} # A /\ s \ {x} \in SUBSET A
      BY <2>1
    <3>2. G[s \ {x}] = Of(s \ {x})[s \ {x}]
      <4>1. CASE s \ {x} = {}
        <5>1. Adds(Of(s \ {x}), f, s \ {x})
          BY <1>3, <3>1
        <5> HIDE DEF Of
        <5> QED
          BY <5>1, <4>1 DEF Adds
      <4> QED
        BY <1>4, <3>1, <4>1
    <3> QED
      BY <2>1, <3>2
  <2> QED
    BY <2>1
<1>6. G = [s \in SUBSET A |-> E(s)]
  <2> HIDE DEF E, Of
  <2>1. G = [s \in SUBSET A |-> G[s]]
    OBVIOUS
  <2> HIDE DEF G
  <2> QED
    BY <1>5, <2>1
<1>7. Adds(G, f, A)
  <2> HIDE DEF G
  <2> QED
    BY <1>6 DEF Adds
<1> QED
  BY <1>2, <1>7

\* The fold's sum is what a table of sums says.
LEMMA SumIsAdded ==
  ASSUME NEW f, NEW S, IsFiniteSet(S), NEW g, Adds(g, f, S)
  PROVE  SumOver(f, S) = g[S]
<1> DEFINE iter == CHOOSE iter : iter = [s \in SUBSET S |->
         IF s = {} THEN 0
         ELSE LET x == CHOOSE x \in s : TRUE IN f[x] + iter[s \ {x}]]
<1>1. SumOver(f, S) = iter[S]
  BY DEF SumOver, MapThenSumSet, MapThenFoldSet
<1>2. Adds(iter, f, S)
  BY DEF Adds
<1> QED
  BY <1>1, <1>2, AddsOnce

\* A sum is its chosen element and the sum of the rest.
LEMMA SumStep ==
  ASSUME NEW f, NEW S, IsFiniteSet(S)
  PROVE  SumOver(f, S) =
           IF S = {} THEN 0
           ELSE LET x == CHOOSE x \in S : TRUE IN f[x] + SumOver(f, S \ {x})
<1>1. PICK g : Adds(g, f, S)
  BY AddsExists
<1>2. SumOver(f, S) = g[S]
  BY <1>1, SumIsAdded
<1> DEFINE x == CHOOSE x \in S : TRUE
<1>3. CASE S # {}
  <2>1. x \in S /\ IsFiniteSet(S \ {x})
    BY <1>3, FS_RemoveElement
  <2>2. PICK h : Adds(h, f, S \ {x})
    BY <2>1, AddsExists
  <2>3. SumOver(f, S \ {x}) = h[S \ {x}]
    BY <2>1, <2>2, SumIsAdded
  <2>4. h[S \ {x}] = g[S \ {x}]
    BY <1>1, <2>1, <2>2, AddsOnce
  <2> QED
    BY <1>1, <1>2, <1>3, <2>3, <2>4 DEF Adds
<1> QED
  BY <1>1, <1>2, <1>3 DEF Adds

\* A sum of integers is an integer.
LEMMA SumInt ==
  ASSUME NEW f, NEW S, IsFiniteSet(S), \A x \in S : f[x] \in Int
  PROVE  SumOver(f, S) \in Int
<1> DEFINE T == {A \in SUBSET S : SumOver(f, A) \notin Int}
<1>1. SUFFICES ASSUME T # {} PROVE FALSE
  OBVIOUS
<1>2. PICK A \in T : \A B \in T : ~ (B \subseteq A /\ B # A)
  <2>1. T \subseteq SUBSET S
    OBVIOUS
  <2> HIDE DEF T
  <2> QED
    BY <1>1, <2>1, SmallestSubset
<1> DEFINE x == CHOOSE x \in A : TRUE
<1>3. SumOver(f, A) = IF A = {} THEN 0 ELSE f[x] + SumOver(f, A \ {x})
  BY SumStep, FS_Subset
<1>4. CASE A # {}
  <2>1. x \in A /\ A \ {x} \in SUBSET S
    BY <1>4
  <2>2. SumOver(f, A \ {x}) \in Int
    BY <1>2, <2>1
  <2> QED
    BY <1>2, <1>3, <1>4, <2>1, <2>2
<1> QED
  BY <1>2, <1>3, <1>4

\* Any element may be taken out first.
LEMMA SumTake ==
  ASSUME NEW f, NEW S, IsFiniteSet(S), \A x \in S : f[x] \in Int, NEW a \in S
  PROVE  SumOver(f, S) = f[a] + SumOver(f, S \ {a})
<1> DEFINE Good(A) == \A b \in A : SumOver(f, A) = f[b] + SumOver(f, A \ {b})
           T == {A \in SUBSET S : ~ Good(A)}
<1>1. SUFFICES ASSUME T # {} PROVE FALSE
  OBVIOUS
<1>2. PICK A \in T : \A B \in T : ~ (B \subseteq A /\ B # A)
  <2>1. T \subseteq SUBSET S
    OBVIOUS
  <2> HIDE DEF T
  <2> QED
    BY <1>1, <2>1, SmallestSubset
<1>3. PICK b \in A : SumOver(f, A) # f[b] + SumOver(f, A \ {b})
  BY <1>2
<1> DEFINE x == CHOOSE x \in A : TRUE
<1>4. x \in A
  OBVIOUS
<1>5. ASSUME NEW B \in SUBSET S PROVE IsFiniteSet(B) /\ SumOver(f, B) \in Int
  <2>1. IsFiniteSet(B)
    BY FS_Subset
  <2> QED
    BY <2>1, SumInt
<1>6. SumOver(f, A) = f[x] + SumOver(f, A \ {x})
  BY <1>4, <1>5, SumStep
<1> HIDE DEF x
<1>7. b # x
  BY <1>3, <1>6
<1>8. SumOver(f, A \ {x}) = f[b] + SumOver(f, (A \ {x}) \ {b})
  <2>1. A \ {x} \in SUBSET S /\ A \ {x} # A /\ b \in A \ {x}
    BY <1>4, <1>7
  <2>2. Good(A \ {x})
    BY <1>2, <2>1
  <2> QED
    BY <2>1, <2>2
<1>9. SumOver(f, A \ {b}) = f[x] + SumOver(f, (A \ {b}) \ {x})
  <2>1. A \ {b} \in SUBSET S /\ A \ {b} # A /\ x \in A \ {b}
    BY <1>4, <1>7
  <2>2. Good(A \ {b})
    BY <1>2, <2>1
  <2> QED
    BY <2>1, <2>2
<1>10. (A \ {b}) \ {x} = (A \ {x}) \ {b}
  OBVIOUS
<1> DEFINE rest == SumOver(f, (A \ {x}) \ {b})
<1>11. rest \in Int /\ f[b] \in Int /\ f[x] \in Int
  BY <1>4, <1>5
<1>12. SumOver(f, A) = f[x] + (f[b] + rest) /\ SumOver(f, A \ {b}) = f[x] + rest
  BY <1>6, <1>8, <1>9, <1>10
<1> HIDE DEF rest
<1> QED
  BY <1>3, <1>11, <1>12

\* Nothing sums to zero.
LEMMA SumEmpty == \A f : SumOver(f, {}) = 0
BY SumStep, FS_EmptySet

\* Functions that agree on a set have the same sum over it.
LEMMA SumAgree ==
  ASSUME NEW f, NEW h, NEW S, IsFiniteSet(S), \A x \in S : f[x] = h[x]
  PROVE  SumOver(f, S) = SumOver(h, S)
<1> DEFINE T == {A \in SUBSET S : SumOver(f, A) # SumOver(h, A)}
<1>1. SUFFICES ASSUME T # {} PROVE FALSE
  OBVIOUS
<1>2. PICK A \in T : \A B \in T : ~ (B \subseteq A /\ B # A)
  <2>1. T \subseteq SUBSET S
    OBVIOUS
  <2> HIDE DEF T
  <2> QED
    BY <1>1, <2>1, SmallestSubset
<1> DEFINE x == CHOOSE x \in A : TRUE
<1>3. /\ SumOver(f, A) = IF A = {} THEN 0 ELSE f[x] + SumOver(f, A \ {x})
      /\ SumOver(h, A) = IF A = {} THEN 0 ELSE h[x] + SumOver(h, A \ {x})
  BY SumStep, FS_Subset
<1>4. CASE A # {}
  <2>1. x \in A /\ A \ {x} \in SUBSET S /\ A \ {x} # A
    BY <1>4
  <2>2. SumOver(f, A \ {x}) = SumOver(h, A \ {x})
    BY <1>2, <2>1
  <2> QED
    BY <1>2, <1>3, <1>4, <2>1, <2>2
<1> QED
  BY <1>2, <1>3, <1>4

\* A sum of naturals is a natural.
LEMMA SumNat ==
  ASSUME NEW f, NEW S, IsFiniteSet(S), \A x \in S : f[x] \in Nat
  PROVE  SumOver(f, S) \in Nat
<1> DEFINE T == {A \in SUBSET S : SumOver(f, A) \notin Nat}
<1>1. SUFFICES ASSUME T # {} PROVE FALSE
  OBVIOUS
<1>2. PICK A \in T : \A B \in T : ~ (B \subseteq A /\ B # A)
  <2>1. T \subseteq SUBSET S
    OBVIOUS
  <2> HIDE DEF T
  <2> QED
    BY <1>1, <2>1, SmallestSubset
<1> DEFINE x == CHOOSE x \in A : TRUE
<1>3. SumOver(f, A) = IF A = {} THEN 0 ELSE f[x] + SumOver(f, A \ {x})
  BY SumStep, FS_Subset
<1>4. CASE A # {}
  <2>1. x \in A /\ A \ {x} \in SUBSET S
    BY <1>4
  <2>2. SumOver(f, A \ {x}) \in Nat
    BY <1>2, <2>1
  <2> QED
    BY <1>2, <1>3, <1>4, <2>1, <2>2
<1> QED
  BY <1>2, <1>3, <1>4

\* A new element adds its value.
LEMMA SumPut ==
  ASSUME NEW f, NEW S, IsFiniteSet(S), \A x \in S : f[x] \in Int,
         NEW a, a \notin S, f[a] \in Int
  PROVE  SumOver(f, S \cup {a}) = SumOver(f, S) + f[a]
<1>1. /\ IsFiniteSet(S \cup {a}) /\ (S \cup {a}) \ {a} = S
      /\ \A x \in S \cup {a} : f[x] \in Int
  BY FS_AddElement
<1>2. SumOver(f, S \cup {a}) = f[a] + SumOver(f, S)
  BY <1>1, SumTake
<1>3. SumOver(f, S) \in Int
  BY SumInt
<1> QED
  BY <1>2, <1>3

\* A change of one value moves the sum by the difference.
LEMMA SumChange ==
  ASSUME NEW f, NEW h, NEW S, IsFiniteSet(S), \A x \in S : f[x] \in Int /\ h[x] \in Int,
         NEW a \in S, \A x \in S \ {a} : f[x] = h[x]
  PROVE  SumOver(h, S) = SumOver(f, S) - f[a] + h[a]
<1>1. /\ SumOver(f, S) = f[a] + SumOver(f, S \ {a})
      /\ SumOver(h, S) = h[a] + SumOver(h, S \ {a})
  BY SumTake
<1>2. IsFiniteSet(S \ {a})
  BY FS_RemoveElement
<1>3. SumOver(f, S \ {a}) = SumOver(h, S \ {a}) /\ SumOver(f, S \ {a}) \in Int
  BY <1>2, SumAgree, SumInt
<1> QED
  BY <1>1, <1>3

\* The sum over one element is its value.
LEMMA SumOne ==
  ASSUME NEW f, NEW a, f[a] \in Int
  PROVE  SumOver(f, {a}) = f[a]
<1>1. IsFiniteSet({a}) /\ IsFiniteSet({}) /\ {a} \ {a} = {}
  BY FS_Singleton, FS_EmptySet
<1>2. SumOver(f, {a}) = f[a] + SumOver(f, {a} \ {a})
  BY <1>1, SumTake
<1> QED
  BY <1>1, <1>2, SumEmpty

\* Zeros sum to zero.
LEMMA SumZero ==
  ASSUME NEW f, NEW S, IsFiniteSet(S), \A x \in S : f[x] = 0
  PROVE  SumOver(f, S) = 0
<1> DEFINE T == {A \in SUBSET S : SumOver(f, A) # 0}
<1>1. SUFFICES ASSUME T # {} PROVE FALSE
  OBVIOUS
<1>2. PICK A \in T : \A B \in T : ~ (B \subseteq A /\ B # A)
  <2>1. T \subseteq SUBSET S
    OBVIOUS
  <2> HIDE DEF T
  <2> QED
    BY <1>1, <2>1, SmallestSubset
<1> DEFINE x == CHOOSE x \in A : TRUE
<1>3. SumOver(f, A) = IF A = {} THEN 0 ELSE f[x] + SumOver(f, A \ {x})
  BY SumStep, FS_Subset
<1>4. CASE A # {}
  <2>1. x \in A /\ A \ {x} \in SUBSET S /\ A \ {x} # A
    BY <1>4
  <2>2. SumOver(f, A \ {x}) = 0
    BY <1>2, <2>1
  <2> QED
    BY <1>2, <1>3, <1>4, <2>1, <2>2
<1> QED
  BY <1>2, <1>3, <1>4

\* The sum of two functions is the sum of their sums.
LEMMA SumPlus ==
  ASSUME NEW f, NEW g, NEW h, NEW S, IsFiniteSet(S),
         \A x \in S : f[x] \in Int /\ g[x] \in Int /\ h[x] = f[x] + g[x]
  PROVE  SumOver(h, S) = SumOver(f, S) + SumOver(g, S)
<1> DEFINE T == {A \in SUBSET S : SumOver(h, A) # SumOver(f, A) + SumOver(g, A)}
<1>1. SUFFICES ASSUME T # {} PROVE FALSE
  OBVIOUS
<1>2. PICK A \in T : \A B \in T : ~ (B \subseteq A /\ B # A)
  <2>1. T \subseteq SUBSET S
    OBVIOUS
  <2> HIDE DEF T
  <2> QED
    BY <1>1, <2>1, SmallestSubset
<1> DEFINE x == CHOOSE x \in A : TRUE
<1>3. ASSUME NEW k PROVE SumOver(k, A) = IF A = {} THEN 0 ELSE k[x] + SumOver(k, A \ {x})
  BY SumStep, FS_Subset
<1>4. CASE A # {}
  <2>1. x \in A /\ A \ {x} \in SUBSET S /\ A \ {x} # A
    BY <1>4
  <2>2. SumOver(h, A \ {x}) = SumOver(f, A \ {x}) + SumOver(g, A \ {x})
    BY <1>2, <2>1
  <2>3. SumOver(f, A \ {x}) \in Int /\ SumOver(g, A \ {x}) \in Int
    BY <2>1, FS_Subset, SumInt
  <2>4. /\ SumOver(f, A) = f[x] + SumOver(f, A \ {x})
        /\ SumOver(g, A) = g[x] + SumOver(g, A \ {x})
        /\ SumOver(h, A) = h[x] + SumOver(h, A \ {x})
    BY <1>3, <1>4
  <2>5. f[x] \in Int /\ g[x] \in Int /\ h[x] = f[x] + g[x]
    BY <2>1
  <2> HIDE DEF x
  <2> QED
    BY <1>2, <2>2, <2>3, <2>4, <2>5
<1>5. CASE A = {}
  BY <1>2, <1>5, SumEmpty
<1> QED
  BY <1>4, <1>5

\* A sum falls into those over a part and over the rest.
LEMMA SumSplit ==
  ASSUME NEW f, NEW S, IsFiniteSet(S), \A x \in S : f[x] \in Int, NEW P, P \subseteq S
  PROVE  SumOver(f, S) = SumOver(f, P) + SumOver(f, S \ P)
<1> DEFINE Worst == {A \in SUBSET P : SumOver(f, S) # SumOver(f, A) + SumOver(f, S \ A)}
<1>1. SUFFICES ASSUME Worst # {} PROVE FALSE
  OBVIOUS
<1>2. PICK A \in Worst : \A B \in Worst : ~ (B \subseteq A /\ B # A)
  <2>1. Worst \subseteq SUBSET P /\ IsFiniteSet(P)
    BY FS_Subset
  <2> HIDE DEF Worst
  <2> QED
    BY <1>1, <2>1, SmallestSubset
<1>3. A \subseteq S /\ IsFiniteSet(A) /\ IsFiniteSet(S \ A)
  BY FS_Subset
<1>4. SumOver(f, A) \in Int /\ SumOver(f, S \ A) \in Int /\ SumOver(f, S) \in Int
  BY <1>3, SumInt
<1>5. CASE A = {}
  <2>1. S \ A = S /\ SumOver(f, A) = 0
    BY <1>5, SumEmpty
  <2>2. SumOver(f, S) # SumOver(f, A) + SumOver(f, S \ A)
    BY <1>2
  <2>3. SumOver(f, S \ A) = SumOver(f, S)
    BY <2>1
  <2>4. SumOver(f, A) = 0 /\ SumOver(f, S) \in Int
    BY <1>4, <2>1
  <2> HIDE DEF SumOver
  <2> QED
    BY <2>2, <2>3, <2>4
<1>6. CASE A # {}
  <2>1. PICK x \in A : TRUE
    BY <1>6
  <2> DEFINE B == A \ {x}
  <2>2. B \in SUBSET P /\ B \subseteq A /\ B # A
    BY <2>1
  <2>3. SumOver(f, S) = SumOver(f, B) + SumOver(f, S \ B)
    BY <1>2, <2>2
  <2>4. SumOver(f, A) = f[x] + SumOver(f, B)
    BY <1>3, <2>1, SumTake
  <2>5. IsFiniteSet(S \ B) /\ x \in S \ B /\ (S \ B) \ {x} = S \ A /\ f[x] \in Int
    BY <1>3, <2>1, FS_Subset
  <2>6. SumOver(f, S \ B) = f[x] + SumOver(f, S \ A)
    BY <2>5, SumTake
  <2>7. IsFiniteSet(B) /\ B \subseteq S
    BY <1>3, FS_Subset
  <2>8. SumOver(f, B) \in Int
    BY <2>7, SumInt
  <2>9. SumOver(f, S) # SumOver(f, A) + SumOver(f, S \ A)
    BY <1>2
  <2> HIDE DEF B
  <2> QED
    BY <1>4, <2>3, <2>4, <2>5, <2>6, <2>8, <2>9
<1> QED
  BY <1>5, <1>6

\* Where every row of a table sums to zero, so do the sums of its columns.
LEMMA SumGrid ==
  ASSUME NEW g, NEW R, NEW C, IsFiniteSet(R), IsFiniteSet(C),
         \A i \in R : \A c \in C : g[i][c] \in Int,
         \A i \in R : SumOver(g[i], C) = 0
  PROVE  SumOver([c \in C |-> SumOver([i \in R |-> g[i][c]], R)], C) = 0
<1> DEFINE Col(A) == [c \in C |-> SumOver([i \in A |-> g[i][c]], A)]
           T == {A \in SUBSET R : SumOver(Col(A), C) # 0}
<1>1. SUFFICES ASSUME T # {} PROVE FALSE
  OBVIOUS
<1>2. PICK A \in T : \A B \in T : ~ (B \subseteq A /\ B # A)
  <2>1. T \subseteq SUBSET R
    OBVIOUS
  <2> HIDE DEF T
  <2> QED
    BY <1>1, <2>1, SmallestSubset
<1>3. CASE A = {}
  <2>1. \A c \in C : Col(A)[c] = 0
    BY <1>3, SumEmpty
  <2>2. SumOver(Col(A), C) = 0
    <3> HIDE DEF Col
    <3> QED
      BY <2>1, SumZero
  <2> QED
    BY <1>2, <2>2
<1>4. CASE A # {}
  <2>1. PICK x \in A : TRUE
    BY <1>4
  <2> DEFINE B == A \ {x}
  <2>2. IsFiniteSet(A) /\ IsFiniteSet(B) /\ x \in R /\ A \subseteq R
    BY <2>1, FS_Subset
  <2>3. SumOver(Col(B), C) = 0
    <3>1. B \in SUBSET R /\ B \subseteq A /\ B # A
      BY <2>1
    <3> HIDE DEF B, Col
    <3> QED
      BY <1>2, <3>1
  <2>4. ASSUME NEW c \in C
        PROVE  /\ Col(B)[c] \in Int /\ g[x][c] \in Int
               /\ Col(A)[c] = g[x][c] + Col(B)[c]
    <3> DEFINE f == [i \in A |-> g[i][c]]  h == [i \in B |-> g[i][c]]
    <3>1. \A i \in A : f[i] \in Int
      BY <2>2
    <3>2. SumOver(f, A) = f[x] + SumOver(f, B)
      <4> HIDE DEF f
      <4> QED
        BY <2>1, <2>2, <3>1, SumTake
    <3>3. \A i \in B : f[i] = h[i] /\ h[i] \in Int
      BY <2>2
    <3>4. SumOver(f, B) = SumOver(h, B) /\ SumOver(h, B) \in Int
      <4> HIDE DEF f, h, B
      <4> QED
        BY <2>2, <3>3, SumAgree, SumInt
    <3>5. Col(A)[c] = SumOver(f, A) /\ Col(B)[c] = SumOver(h, B) /\ f[x] = g[x][c]
      BY <2>1
    <3> QED
      BY <2>2, <3>2, <3>4, <3>5
  <2>5. SumOver(Col(A), C) = SumOver(g[x], C) + SumOver(Col(B), C)
    <3> HIDE DEF Col, B
    <3> QED
      BY <2>4, SumPlus
  <2> QED
    BY <1>2, <2>2, <2>3, <2>5
<1> QED
  BY <1>3, <1>4

\* Opposite numbers have the opposite sum.
LEMMA SumNegated ==
  ASSUME NEW f, NEW g, NEW S, IsFiniteSet(S), \A x \in S : f[x] \in Int /\ g[x] = - f[x]
  PROVE  SumOver(g, S) = 0 - SumOver(f, S)
<1> DEFINE h == [x \in S |-> 0]
<1>1. \A x \in S : h[x] = 0 /\ f[x] \in Int /\ g[x] \in Int /\ h[x] = f[x] + g[x]
  OBVIOUS
<1> HIDE DEF h
<1>2. SumOver(h, S) = 0 /\ SumOver(h, S) = SumOver(f, S) + SumOver(g, S)
  BY <1>1, SumZero, SumPlus
<1>3. SumOver(f, S) \in Int /\ SumOver(g, S) \in Int
  BY <1>1, SumInt
<1> QED
  BY <1>2, <1>3

\* The last number of a run taken out of its sum.
LEMMA SumTakeLast ==
  ASSUME NEW m \in Nat \ {0}, NEW f, \A i \in 1 .. m : f[i] \in Int
  PROVE  SumOver(f, 1 .. m) = f[m] + SumOver(f, 1 .. (m - 1))
<1> DEFINE S == 1 .. m
<1>1. IsFiniteSet(S)
  BY FS_Interval
<1>2. m \in S /\ S \ {m} = 1 .. (m - 1) /\ \A i \in S : f[i] \in Int
  OBVIOUS
<1> HIDE DEF S
<1>3. SumOver(f, S) = f[m] + SumOver(f, S \ {m})
  BY <1>1, <1>2, SumTake
<1> QED
  BY <1>2, <1>3 DEF S

\* The sum of the steps from one value to the next is the whole way.
LEMMA SumTelescope ==
  ASSUME NEW n \in Nat, NEW g, NEW f, \A i \in 0 .. n : g[i] \in Int,
         \A i \in 1 .. n : f[i] = g[i] - g[i - 1]
  PROVE  SumOver(f, 1 .. n) = g[n] - g[0]
<1> DEFINE Good(m) == SumOver(f, 1 .. m) = g[m] - g[0]
           T == {A \in SUBSET (1 .. n) : \E m \in 0 .. n : A = 1 .. m /\ ~ Good(m)}
<1>1. CASE T = {}
  <2>1. n \in 0 .. n /\ 1 .. n \in SUBSET (1 .. n)
    OBVIOUS
  <2>2. Good(n)
    <3> HIDE DEF Good
    <3> QED
      BY <1>1, <2>1
  <2> QED
    BY <2>2
<1>2. CASE T # {}
  <2> DEFINE D == 1 .. n
  <2>1. IsFiniteSet(D) /\ T \subseteq SUBSET D
    BY FS_Interval
  <2>2. PICK A \in T : \A B \in T : ~ (B \subseteq A /\ B # A)
    <3> HIDE DEF T, D
    <3> QED
      BY <1>2, <2>1, SmallestSubset
  <2>3. PICK m \in 0 .. n : A = 1 .. m /\ ~ Good(m)
    BY <2>2
  <2>4. CASE m = 0
    <3>1. 1 .. m = {} /\ g[0] \in Int
      BY <2>4
    <3>2. SumOver(f, 1 .. m) = 0
      BY <3>1, SumEmpty
    <3>3. g[m] - g[0] = 0
      BY <2>4, <3>1
    <3> QED
      BY <2>3, <3>2, <3>3
  <2>5. CASE m # 0
    <3>1. /\ m - 1 \in 0 .. n /\ 1 .. (m - 1) \subseteq A /\ m \in A /\ m \notin 1 .. (m - 1)
          /\ (1 .. m) \ {m} = 1 .. (m - 1) /\ 1 .. (m - 1) \in SUBSET (1 .. n)
          /\ m \in 1 .. n /\ 1 .. m \subseteq 1 .. n
      BY <2>3, <2>5
    <3>2. 1 .. (m - 1) # A
      BY <3>1
    <3>3. Good(m - 1)
      <4>1. 1 .. (m - 1) \notin T
        <5> HIDE DEF T
        <5> QED
          BY <2>2, <3>1, <3>2
      <4> HIDE DEF Good
      <4> QED
        BY <3>1, <4>1
    <3>4. /\ \A i \in 1 .. n : f[i] \in Int
          /\ g[m] \in Int /\ g[m - 1] \in Int /\ g[0] \in Int /\ f[m] = g[m] - g[m - 1]
      <4>1. ASSUME NEW i \in 1 .. n PROVE f[i] \in Int
        <5>1. i \in 0 .. n /\ i - 1 \in 0 .. n
          OBVIOUS
        <5>2. g[i] \in Int /\ g[i - 1] \in Int
          BY <5>1
        <5> QED
          BY <5>2
      <4>2. m \in 0 .. n /\ m - 1 \in 0 .. n /\ 0 \in 0 .. n
        BY <3>1
      <4>3. g[m] \in Int /\ g[m - 1] \in Int /\ g[0] \in Int
        BY <4>2
      <4> QED
        BY <3>1, <4>1, <4>3
    <3>5. SumOver(f, 1 .. m) = f[m] + SumOver(f, 1 .. (m - 1))
      <4>1. m \in Nat \ {0} /\ \A i \in 1 .. m : f[i] \in Int
        BY <2>5, <3>1, <3>4
      <4> QED
        BY <4>1, SumTakeLast
    <3>6. SumOver(f, 1 .. m) = f[m] + (g[m - 1] - g[0])
      BY <3>3, <3>5
    <3>7. Good(m)
      BY <3>4, <3>6
    <3> QED
      BY <2>3, <3>7
  <2> QED
    BY <2>4, <2>5
<1> QED
  BY <1>1, <1>2
=============================================================================
