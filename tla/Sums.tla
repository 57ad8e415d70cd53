---------------------------------- MODULE Sums ----------------------------------
(***************************************************************************)
(* Lemmas about sums over finite sets, such as the value of a set of coins *)
(* and the work of a chain.  The induction theorems of the library take a  *)
(* predicate as a parameter; here an induction is made by hand, from a     *)
(* smallest counterexample (SmallestOf).  A sum is the value of a function *)
(* that adds the weights of all subsets one by one (Adds): such functions  *)
(* exist, and agree where they overlap.                                    *)
(***************************************************************************)
EXTENDS FiniteSetsExt, FiniteSetTheorems, WellFoundedInduction, TLAPS

(* The element a sum is continued with. *)
Some(s) == CHOOSE x \in s : TRUE

(* g adds the weights of the subsets of S one by one. *)
Adds(g, S, w) == g = [s \in SUBSET S |-> IF s = {} THEN 0 ELSE w[Some(s)] + g[s \ {Some(s)}]]

(* The sum of the weights w of the members of S. *)
WeightOf(w, S) == MapThenSumSet(LAMBDA c : w[c], S)

(* A set of numbers has a least one. *)
LEMMA LeastNumber ==
    ASSUME NEW T, T \subseteq Nat, T # {}
    PROVE  \E n \in T : \A m \in T : n <= m
<1> DEFINE R == OpToRel(<, Nat)
<1>1. \E n \in T : \A m \in T : ~(<<m, n>> \in R)
  <2> HIDE DEF R
  <2>1. IsWellFoundedOn(R, Nat)
    BY NatLessThanWellFounded DEF R
  <2> QED  BY <2>1, WFMin
<1>2. PICK n \in T : \A m \in T : ~(<<m, n>> \in R)
  BY <1>1
<1>3. ASSUME NEW m \in T PROVE n <= m
  <2>1. m \in Nat /\ n \in Nat
    OBVIOUS
  <2>2. ~(m < n)
    BY <1>2, <2>1 DEF OpToRel
  <2> QED  BY <2>1, <2>2
<1> QED  BY <1>3

(* Of the finite sets with a property, one is a smallest. *)
LEMMA SmallestOf ==
    ASSUME NEW E, E # {}, \A P \in E : IsFiniteSet(P)
    PROVE  \E P \in E : \A Q \in E : Cardinality(P) <= Cardinality(Q)
<1> DEFINE N == {Cardinality(P) : P \in E}
<1>1. N \subseteq Nat /\ N # {}
  BY FS_CardinalityType
<1>2. PICK n \in N : \A m \in N : n <= m
  <2> HIDE DEF N
  <2> QED  BY <1>1, LeastNumber
<1>3. PICK P \in E : n = Cardinality(P)
  OBVIOUS
<1> QED  BY <1>2, <1>3

(* A set without the element it is added up from next. *)
LEMMA OneLeft ==
    ASSUME NEW s, s # {}, IsFiniteSet(s)
    PROVE  /\ Some(s) \in s /\ s \ {Some(s)} \subseteq s /\ IsFiniteSet(s \ {Some(s)})
           /\ Cardinality(s) \in Nat /\ Cardinality(s \ {Some(s)}) = Cardinality(s) - 1
<1>1. Some(s) \in s
  BY DEF Some
<1> QED  BY <1>1, FS_RemoveElement, FS_CardinalityType

(* The weights of the subsets of a finite set can be added one by one. *)
LEMMA AddsExists ==
    ASSUME NEW S, IsFiniteSet(S), NEW w
    PROVE  \E g : Adds(g, S, w)
<1> DEFINE D(n) == {t \in SUBSET S : Cardinality(t) <= n}
<1> DEFINE Body(g, s) == IF s = {} THEN 0 ELSE w[Some(s)] + g[s \ {Some(s)}]
<1> DEFINE Part(g, n) == g = [s \in D(n) |-> Body(g, s)]
<1> DEFINE Bad == {n \in Nat : ~\E g : Part(g, n)}
<1>1. ASSUME NEW s \in SUBSET S PROVE IsFiniteSet(s) /\ Cardinality(s) \in Nat
  BY FS_Subset, FS_CardinalityType
<1>2. Bad = {}
  <2> SUFFICES ASSUME Bad # {} PROVE FALSE
    OBVIOUS
  <2>1. PICK n \in Bad : \A m \in Bad : n <= m
    <3>1. Bad \subseteq Nat
      OBVIOUS
    <3> HIDE DEF Bad
    <3> QED  BY <3>1, LeastNumber
  <2>2. n \in Nat /\ ~\E g : Part(g, n)
    OBVIOUS
  <2>3. CASE n = 0
    <3> DEFINE g == [s \in D(n) |-> 0]
    <3>1. \A s \in D(n) : s = {}
      BY <1>1, <2>3, FS_EmptySet
    <3>2. Part(g, n)
      BY <3>1
    <3> QED  BY <2>2, <3>2
  <2>4. CASE n # 0
    <3>1. n - 1 \in Nat /\ ~(n <= n - 1)
      BY <2>2, <2>4
    <3>2. n - 1 \notin Bad
      BY <2>1, <3>1
    <3>3. PICK g : Part(g, n - 1)
      BY <3>1, <3>2
    <3> DEFINE h == [s \in D(n) |-> Body(g, s)]
    <3>4. ASSUME NEW t \in D(n - 1) PROVE t \in D(n) /\ h[t] = g[t]
      <4>1. t \in D(n)
        BY <1>1, <2>2
      <4>2. h[t] = Body(g, t)
        BY <4>1
      <4>3. g[t] = Body(g, t)
        BY <3>3
      <4> QED  BY <4>1, <4>2, <4>3
    <3>5. ASSUME NEW s \in D(n) PROVE h[s] = Body(h, s)
      <4>1. CASE s = {}
        BY <4>1
      <4>2. CASE s # {}
        <5>1. s \ {Some(s)} \in D(n - 1)
          BY <1>1, <2>2, <4>2, OneLeft
        <5>2. h[s \ {Some(s)}] = g[s \ {Some(s)}]
          BY <3>4, <5>1
        <5> QED  BY <4>2, <5>2
      <4> QED  BY <4>1, <4>2
    <3>6. Part(h, n)
      BY <3>5
    <3> QED  BY <2>2, <3>6
  <2> QED  BY <2>3, <2>4
<1> DEFINE k == Cardinality(S)
<1>3. k \in Nat
  BY FS_CardinalityType
<1>4. PICK g : Part(g, k)
  BY <1>2, <1>3
<1>5. D(k) = SUBSET S
  <2>1. ASSUME NEW t \in SUBSET S PROVE Cardinality(t) <= k
    BY FS_Subset
  <2> QED  BY <2>1
<1>6. Adds(g, S, w)
  BY <1>4, <1>5 DEF Adds
<1> QED  BY <1>6

(* There is one way to do it, and for a subset it is a part of it. *)
LEMMA AddsAgree ==
    ASSUME NEW S, IsFiniteSet(S), NEW w, NEW g, Adds(g, S, w),
           NEW T \in SUBSET S, NEW v, NEW h, Adds(h, T, v), \A x \in T : v[x] = w[x]
    PROVE  \A s \in SUBSET T : g[s] = h[s]
<1> DEFINE E == {s \in SUBSET T : g[s] # h[s]}
<1> SUFFICES ASSUME E # {} PROVE FALSE
  OBVIOUS
<1>1. \A s \in E : IsFiniteSet(s)
  BY FS_Subset
<1>2. PICK s \in E : \A t \in E : Cardinality(s) <= Cardinality(t)
  <2> HIDE DEF E
  <2> QED  BY <1>1, SmallestOf
<1>3. s \in SUBSET T /\ s \in SUBSET S /\ IsFiniteSet(s)
  BY <1>1
<1>4. s # {}
  <2>1. g[{}] = 0 /\ h[{}] = 0
    BY DEF Adds
  <2> QED  BY <2>1
<1> DEFINE x == Some(s)
<1> DEFINE r == s \ {x}
<1>5. x \in s /\ Cardinality(s) \in Nat /\ Cardinality(r) = Cardinality(s) - 1
  BY <1>3, <1>4, OneLeft
<1>6. r \notin E
  BY <1>2, <1>5
<1>7. g[r] = h[r]
  BY <1>3, <1>6
<1>8. g[s] = w[x] + g[r]
  BY <1>3, <1>4 DEF Adds
<1>9. h[s] = v[x] + h[r]
  BY <1>3, <1>4 DEF Adds
<1> QED  BY <1>3, <1>5, <1>7, <1>8, <1>9

(* A sum is what adding one by one gives, *)
LEMMA WeightIs ==
    ASSUME NEW S, IsFiniteSet(S), NEW w
    PROVE  \E g : Adds(g, S, w) /\ WeightOf(w, S) = g[S]
<1> DEFINE iter == CHOOSE g : Adds(g, S, w)
<1>1. Adds(iter, S, w)
  BY AddsExists
<1>2. WeightOf(w, S) = iter[S]
  BY DEF WeightOf, MapThenSumSet, MapThenFoldSet, Adds, Some
<1> QED  BY <1>1, <1>2

(* for the set and for its subsets. *)
LEMMA WeightAgrees ==
    ASSUME NEW S, IsFiniteSet(S), NEW w, NEW g, Adds(g, S, w), NEW T \in SUBSET S
    PROVE  WeightOf(w, T) = g[T]
<1>1. IsFiniteSet(T)
  BY FS_Subset
<1>2. PICK h : Adds(h, T, w) /\ WeightOf(w, T) = h[T]
  BY <1>1, WeightIs
<1>3. g[T] = h[T]
  BY <1>2, AddsAgree
<1> QED  BY <1>2, <1>3

(* A sum is zero or one weight and the sum of the rest. *)
LEMMA WeightNext ==
    ASSUME NEW S, IsFiniteSet(S), NEW w
    PROVE  /\ WeightOf(w, {}) = 0
           /\ S # {} => WeightOf(w, S) = w[Some(S)] + WeightOf(w, S \ {Some(S)})
<1>1. PICK g : Adds(g, S, w)
  BY AddsExists
<1>2. WeightOf(w, {}) = g[{}] /\ WeightOf(w, S) = g[S] /\ WeightOf(w, S \ {Some(S)}) = g[S \ {Some(S)}]
  BY <1>1, WeightAgrees
<1>3. g[{}] = 0
  BY <1>1 DEF Adds
<1>4. S # {} => g[S] = w[Some(S)] + g[S \ {Some(S)}]
  BY <1>1 DEF Adds
<1> QED  BY <1>2, <1>3, <1>4

(* Equal weights have equal sums. *)
LEMMA WeightSame ==
    ASSUME NEW S, IsFiniteSet(S), NEW w, NEW v, \A x \in S : v[x] = w[x]
    PROVE  WeightOf(v, S) = WeightOf(w, S)
<1>1. PICK g : Adds(g, S, w) /\ WeightOf(w, S) = g[S]
  BY WeightIs
<1>2. PICK h : Adds(h, S, v) /\ WeightOf(v, S) = h[S]
  BY WeightIs
<1>3. g[S] = h[S]
  BY <1>1, <1>2, AddsAgree
<1> QED  BY <1>1, <1>2, <1>3

(* A sum of numbers is a number, of naturals a natural. *)
LEMMA WeightType ==
    ASSUME NEW S, IsFiniteSet(S), NEW w
    PROVE  /\ (\A x \in S : w[x] \in Int) => WeightOf(w, S) \in Int
           /\ (\A x \in S : w[x] \in Nat) => WeightOf(w, S) \in Nat
<1> SUFFICES ASSUME NEW N \in {Int, Nat}, \A x \in S : w[x] \in N PROVE WeightOf(w, S) \in N
  OBVIOUS
<1> DEFINE E == {s \in SUBSET S : WeightOf(w, s) \notin N}
<1> SUFFICES ASSUME E # {} PROVE FALSE
  OBVIOUS
<1>1. \A s \in E : IsFiniteSet(s)
  BY FS_Subset
<1>2. PICK s \in E : \A t \in E : Cardinality(s) <= Cardinality(t)
  <2> HIDE DEF E
  <2> QED  BY <1>1, SmallestOf
<1>3. s \in SUBSET S /\ IsFiniteSet(s) /\ WeightOf(w, s) \notin N
  BY <1>1
<1>4. s # {}
  BY <1>3, WeightNext
<1> DEFINE r == s \ {Some(s)}
<1>5. Some(s) \in S /\ r \in SUBSET S /\ Cardinality(s) \in Nat /\ Cardinality(r) = Cardinality(s) - 1
  BY <1>3, <1>4, OneLeft
<1>6. r \notin E
  BY <1>2, <1>5
<1>7. WeightOf(w, r) \in N /\ w[Some(s)] \in N
  BY <1>5, <1>6
<1>8. WeightOf(w, s) = w[Some(s)] + WeightOf(w, r)
  BY <1>3, <1>4, WeightNext
<1> QED  BY <1>3, <1>7, <1>8

(* Whichever element is taken out first. *)
LEMMA WeightRemove ==
    ASSUME NEW S, IsFiniteSet(S), NEW w, \A x \in S : w[x] \in Int, NEW y \in S
    PROVE  WeightOf(w, S) = w[y] + WeightOf(w, S \ {y})
<1> DEFINE E == {s \in SUBSET S : \E z \in s : WeightOf(w, s) # w[z] + WeightOf(w, s \ {z})}
<1> SUFFICES ASSUME E # {} PROVE FALSE
  OBVIOUS
<1>1. \A s \in E : IsFiniteSet(s)
  BY FS_Subset
<1>2. PICK s \in E : \A t \in E : Cardinality(s) <= Cardinality(t)
  <2> HIDE DEF E
  <2> QED  BY <1>1, SmallestOf
<1>3. PICK z \in s : WeightOf(w, s) # w[z] + WeightOf(w, s \ {z})
  OBVIOUS
<1>4. s \in SUBSET S /\ IsFiniteSet(s) /\ s # {}
  BY <1>1
<1> DEFINE c == Some(s)
<1>5. /\ c \in s /\ IsFiniteSet(s \ {c}) /\ IsFiniteSet(s \ {z}) /\ Cardinality(s) \in Nat
      /\ Cardinality(s \ {c}) = Cardinality(s) - 1 /\ Cardinality(s \ {z}) = Cardinality(s) - 1
  BY <1>4, OneLeft, FS_RemoveElement
<1>6. s \ {c} \notin E /\ s \ {z} \notin E
  BY <1>2, <1>5
<1>7. WeightOf(w, s) = w[c] + WeightOf(w, s \ {c})
  BY <1>4, WeightNext
<1>8. z # c
  BY <1>3, <1>7
<1>9. WeightOf(w, s \ {c}) = w[z] + WeightOf(w, (s \ {c}) \ {z})
  BY <1>4, <1>6, <1>8
<1>10. WeightOf(w, s \ {z}) = w[c] + WeightOf(w, (s \ {z}) \ {c})
  BY <1>4, <1>5, <1>6, <1>8
<1> DEFINE r == (s \ {c}) \ {z}
<1>11. (s \ {z}) \ {c} = r /\ IsFiniteSet(r) /\ r \subseteq S
  BY <1>4, FS_Subset
<1>12. WeightOf(w, r) \in Int /\ w[c] \in Int /\ w[z] \in Int
  BY <1>4, <1>5, <1>11, WeightType
<1>13. WeightOf(w, s \ {c}) = w[z] + WeightOf(w, r) /\ WeightOf(w, s \ {z}) = w[c] + WeightOf(w, r)
  BY <1>9, <1>10, <1>11
<1> HIDE DEF r, c
<1>14. w[c] + (w[z] + WeightOf(w, r)) = w[z] + (w[c] + WeightOf(w, r))
  BY <1>12
<1> QED  BY <1>3, <1>7, <1>13, <1>14

(* A new member adds its weight. *)
LEMMA WeightAdd ==
    ASSUME NEW S, IsFiniteSet(S), NEW w, NEW y, y \notin S, \A x \in S \cup {y} : w[x] \in Int
    PROVE  WeightOf(w, S \cup {y}) = WeightOf(w, S) + w[y]
<1> DEFINE T == S \cup {y}
<1>1. IsFiniteSet(T) /\ y \in T /\ T \ {y} = S
  BY FS_AddElement
<1>2. \A x \in T : w[x] \in Int
  OBVIOUS
<1> HIDE DEF T
<1>3. WeightOf(w, T) = w[y] + WeightOf(w, S)
  BY <1>1, <1>2, WeightRemove
<1>4. WeightOf(w, S) \in Int /\ w[y] \in Int
  BY <1>1, <1>2, WeightType
<1> QED  BY <1>3, <1>4 DEF T

(* The weights of two sets that share nothing. *)
LEMMA WeightUnion ==
    ASSUME NEW S, IsFiniteSet(S), NEW T, IsFiniteSet(T), S \cap T = {},
           NEW w, \A x \in S \cup T : w[x] \in Int
    PROVE  WeightOf(w, S \cup T) = WeightOf(w, S) + WeightOf(w, T)
<1> DEFINE E == {t \in SUBSET T : WeightOf(w, S \cup t) # WeightOf(w, S) + WeightOf(w, t)}
<1> SUFFICES ASSUME E # {} PROVE FALSE
  OBVIOUS
<1>1. \A s \in E : IsFiniteSet(s)
  BY FS_Subset
<1>2. PICK s \in E : \A t \in E : Cardinality(s) <= Cardinality(t)
  <2> HIDE DEF E
  <2> QED  BY <1>1, SmallestOf
<1>3. s \in SUBSET T /\ IsFiniteSet(s) /\ WeightOf(w, S \cup s) # WeightOf(w, S) + WeightOf(w, s)
  BY <1>1
<1>4. WeightOf(w, S) \in Int
  BY WeightType
<1>5. s # {}
  <2> SUFFICES ASSUME s = {} PROVE FALSE
    OBVIOUS
  <2>1. S \cup s = S /\ WeightOf(w, s) = 0
    BY WeightNext
  <2> QED  BY <1>3, <1>4, <2>1
<1> DEFINE x == Some(s)
<1> DEFINE r == s \ {x}
<1>6. x \in s /\ r \in SUBSET T /\ IsFiniteSet(r) /\ Cardinality(s) \in Nat /\ Cardinality(r) = Cardinality(s) - 1
  BY <1>3, <1>5, OneLeft
<1>7. r \notin E
  BY <1>2, <1>6
<1>8. WeightOf(w, S \cup r) = WeightOf(w, S) + WeightOf(w, r)
  BY <1>6, <1>7
<1>9. WeightOf(w, s) = w[x] + WeightOf(w, r)
  BY <1>3, <1>5, WeightNext
<1>10. x \in T /\ x \notin S \cup r
  BY <1>3, <1>6
<1>11. IsFiniteSet(S \cup r) /\ (S \cup r) \cup {x} = S \cup s
  BY <1>6, FS_Union
<1> HIDE DEF r, x
<1>12. \A y \in (S \cup r) \cup {x} : w[y] \in Int
  BY <1>6, <1>10
<1>13. WeightOf(w, (S \cup r) \cup {x}) = WeightOf(w, S \cup r) + w[x]
  BY <1>10, <1>11, <1>12, WeightAdd
<1>14. WeightOf(w, r) \in Int /\ w[x] \in Int
  BY <1>6, <1>10, WeightType
<1>15. (WeightOf(w, S) + WeightOf(w, r)) + w[x] = WeightOf(w, S) + (w[x] + WeightOf(w, r))
  BY <1>4, <1>14
<1> QED  BY <1>3, <1>8, <1>9, <1>11, <1>13, <1>15

(* A sum of naturals is that of a part and that of the rest. *)
LEMMA WeightPart ==
    ASSUME NEW S, IsFiniteSet(S), NEW w, \A x \in S : w[x] \in Nat, NEW T \in SUBSET S
    PROVE  WeightOf(w, T) \in Nat /\ WeightOf(w, S \ T) \in Nat /\ WeightOf(w, S) = WeightOf(w, T) + WeightOf(w, S \ T)
<1> DEFINE R == S \ T
<1>1. IsFiniteSet(T) /\ IsFiniteSet(R) /\ T \cap R = {} /\ T \cup R = S
  BY FS_Subset
<1>2. \A x \in T \cup R : w[x] \in Int
  OBVIOUS
<1> HIDE DEF R
<1>3. WeightOf(w, T \cup R) = WeightOf(w, T) + WeightOf(w, R)
  BY <1>1, <1>2, WeightUnion
<1>4. (\A x \in T : w[x] \in Nat) /\ (\A x \in R : w[x] \in Nat)
  BY <1>1
<1>5. WeightOf(w, T) \in Nat /\ WeightOf(w, R) \in Nat
  BY <1>1, <1>4, WeightType
<1> QED  BY <1>1, <1>3, <1>5 DEF R

(* As many images as elements at most. *)
LEMMA ImageSmall ==
    ASSUME NEW S, IsFiniteSet(S), NEW f
    PROVE  IsFiniteSet({f[x] : x \in S}) /\ Cardinality({f[x] : x \in S}) <= Cardinality(S)
<1> DEFINE T == {f[x] : x \in S}
<1> DEFINE g == [x \in S |-> f[x]]
<1>1. g \in Surjection(S, T)
  BY DEF Surjection
<1> HIDE DEF g, T
<1>2. IsFiniteSet(T) /\ Cardinality(T) <= Cardinality(S)
  BY <1>1, FS_Surjection
<1> QED  BY <1>2 DEF T

(* The same, with what it needs as one condition. *)
Addable(S, y, w) == IsFiniteSet(S) /\ y \notin S /\ \A x \in S \cup {y} : w[x] \in Int

LEMMA WeightAddTo ==
    ASSUME NEW S, NEW w, NEW y, Addable(S, y, w)
    PROVE  WeightOf(w, S \cup {y}) = WeightOf(w, S) + w[y]
<1>1. IsFiniteSet(S) /\ y \notin S /\ \A x \in S \cup {y} : w[x] \in Int
  BY DEF Addable
<1> QED  BY <1>1, WeightAdd

OneToOne(f, S) == \A x, y \in S : f[x] = f[y] => x = y

(* A sum does not depend on the names of what is added. *)
LEMMA WeightImage ==
    ASSUME NEW S, IsFiniteSet(S), NEW w, \A x \in S : w[x] \in Int,
           NEW f, OneToOne(f, S),
           NEW v, \A x \in S : v[f[x]] = w[x]
    PROVE  WeightOf(v, {f[x] : x \in S}) = WeightOf(w, S)
<1> DEFINE Im(s) == {f[x] : x \in s}
<1> DEFINE E == {s \in SUBSET S : WeightOf(v, Im(s)) # WeightOf(w, s)}
<1> SUFFICES ASSUME E # {} PROVE FALSE
  OBVIOUS
<1>1. \A s \in E : IsFiniteSet(s)
  BY FS_Subset
<1>2. PICK s \in E : \A t \in E : Cardinality(s) <= Cardinality(t)
  <2> HIDE DEF E
  <2> QED  BY <1>1, SmallestOf
<1>3. s \in SUBSET S /\ IsFiniteSet(s) /\ WeightOf(v, Im(s)) # WeightOf(w, s)
  BY <1>1
<1>4. s # {}
  <2> SUFFICES ASSUME s = {} PROVE FALSE
    OBVIOUS
  <2>1. Im(s) = {}
    OBVIOUS
  <2>2. WeightOf(v, {}) = 0 /\ WeightOf(w, {}) = 0
    BY FS_EmptySet, WeightNext
  <2> QED  BY <1>3, <2>1, <2>2
<1> DEFINE x == Some(s)
<1> DEFINE r == s \ {x}
<1>5. x \in s /\ x \in S /\ r \in SUBSET S /\ IsFiniteSet(r) /\ Cardinality(s) \in Nat /\ Cardinality(r) = Cardinality(s) - 1
  BY <1>3, <1>4, OneLeft
<1>6. r \notin E
  BY <1>2, <1>5
<1>7. WeightOf(v, Im(r)) = WeightOf(w, r)
  BY <1>5, <1>6
<1>8. WeightOf(w, s) = w[x] + WeightOf(w, r)
  BY <1>3, <1>4, WeightNext
<1> HIDE DEF x
<1>9. f[x] \notin Im(r) /\ Im(s) = Im(r) \cup {f[x]}
  BY <1>3, <1>5 DEF OneToOne
<1>10. IsFiniteSet(Im(r))
  BY <1>5, ImageSmall
<1>11. \A y \in Im(r) \cup {f[x]} : v[y] \in Int
  BY <1>5
<1>12. WeightOf(v, Im(r) \cup {f[x]}) = WeightOf(v, Im(r)) + v[f[x]]
  <2> DEFINE T == Im(r)
  <2> DEFINE z == f[x]
  <2> HIDE DEF T, z
  <2>1. IsFiniteSet(T) /\ z \notin T /\ \A y \in T \cup {z} : v[y] \in Int
    BY <1>9, <1>10, <1>11 DEF T, z
  <2>2. Addable(T, z, v)
    BY ONLY <2>1 DEF Addable
  <2>3. WeightOf(v, T \cup {z}) = WeightOf(v, T) + v[z]
    BY ONLY <2>2, WeightAddTo
  <2> QED  BY <2>3 DEF T, z
<1>13. v[f[x]] = w[x] /\ w[x] \in Int /\ WeightOf(w, r) \in Int
  BY <1>5, WeightType
<1>14. WeightOf(v, Im(s)) = WeightOf(v, Im(r) \cup {f[x]})
  BY <1>9
<1>15. WeightOf(v, Im(s)) = WeightOf(w, r) + w[x]
  BY <1>7, <1>12, <1>13, <1>14
<1>16. WeightOf(w, r) + w[x] = w[x] + WeightOf(w, r)
  BY <1>13
<1> QED  BY <1>3, <1>8, <1>15, <1>16
=============================================================================
