-------------------------- MODULE RainArchive_proofs --------------------------
(***************************************************************************)
(* Proofs about RainArchive, for any lengths of the periods that divide one*)
(* another, any queue and any outages: the accumulators are the sums of the*)
(* minute records, and what the archive holds stays there for a cycle of   *)
(* file names.                                                             *)
(***************************************************************************)
EXTENDS RainArchive, FiniteSetTheorems, WellFoundedInduction, TLAPS

-----------------------------------------------------------------------------
(* Sums over finite sets.  SumFunctionOnSet chooses an order in which to add;*)
(* the facts below say that it does not matter.  Each is shown by looking at *)
(* a smallest set for which it would fail.                                   *)

Rest(f, g, s) ==
  IF s = {} THEN 0 ELSE f[CHOOSE x \in s : TRUE] + g[s \ {CHOOSE x \in s : TRUE}]
Adds(f, g, S) == g = [s \in SUBSET S |-> Rest(f, g, s)]

LEMMA Smallest ==
  ASSUME NEW S, IsFiniteSet(S), NEW C \in SUBSET (SUBSET S), C # {}
  PROVE  \E T \in C : IsFiniteSet(T) /\ \A U \in C : U \subseteq T => U = T
<1>1. /\ IsWellFoundedOn(StrictSubsetOrdering(S), FiniteSubsetsOf(S))
      /\ C \subseteq FiniteSubsetsOf(S)
  BY FS_StrictSubsetOrderingWellFounded, FS_Subset DEF FiniteSubsetsOf
<1>2. PICK T \in C : \A U \in C : ~(<<U, T>> \in StrictSubsetOrdering(S))
  BY <1>1, WFMin
<1>3. ASSUME NEW U \in C, U \subseteq T
      PROVE  U = T
  <2>1. U \in SUBSET S /\ T \in SUBSET S
    OBVIOUS
  <2> QED
    BY <1>2, <1>3, <2>1 DEF StrictSubsetOrdering
<1> QED
  BY <1>2, <1>3, FS_Subset

\* Two ways of adding agree on what both add.
LEMMA AddsAgree ==
  ASSUME NEW f, NEW g, NEW h, NEW A, NEW B, IsFiniteSet(A), Adds(f, g, A), Adds(f, h, B)
  PROVE  \A s \in SUBSET A : s \subseteq B => g[s] = h[s]
<1> DEFINE C == {s \in SUBSET A : s \subseteq B /\ g[s] # h[s]}
<1>1. SUFFICES ASSUME C # {} PROVE FALSE
  OBVIOUS
<1>2. PICK T \in C : \A U \in C : U \subseteq T => U = T
  <2>1. C \in SUBSET (SUBSET A)
    OBVIOUS
  <2> HIDE DEF C
  <2> QED
    BY <1>1, <2>1, Smallest
<1>3. g[T] = Rest(f, g, T) /\ h[T] = Rest(f, h, T) /\ g[T] # h[T]
  BY DEF Adds
<1>4. T # {}
  BY <1>3 DEF Rest
<1> DEFINE c == CHOOSE x \in T : TRUE
<1>5. c \in T
  BY <1>4
<1>6. g[T \ {c}] = h[T \ {c}]
  BY <1>2, <1>5
<1> QED
  BY <1>3, <1>4, <1>6 DEF Rest

Adding(f, S) == CHOOSE g : Adds(f, g, S)

LEMMA SumIs ==
  ASSUME NEW f, NEW S
  PROVE  SumFunctionOnSet(f, S) = Adding(f, S)[S]
BY DEF SumFunctionOnSet, FoldFunctionOnSet, MapThenFoldSet, Adding, Adds, Rest

\* There is a way of adding over any finite set.
LEMMA AddsExists ==
  ASSUME NEW f, NEW S, IsFiniteSet(S)
  PROVE  \E g : Adds(f, g, S)
<1> DEFINE C == {s \in SUBSET S : ~ \E g : Adds(f, g, s)}
<1>1. SUFFICES ASSUME C # {} PROVE FALSE
  OBVIOUS
<1>2. PICK T \in C : IsFiniteSet(T) /\ \A U \in C : U \subseteq T => U = T
  <2>1. C \in SUBSET (SUBSET S)
    OBVIOUS
  <2> HIDE DEF C
  <2> QED
    BY <1>1, <2>1, Smallest
<1>3. \A s \in SUBSET T : s # T => Adds(f, Adding(f, s), s)
  <2>1. ASSUME NEW s \in SUBSET T, s # T PROVE \E g : Adds(f, g, s)
    BY <1>2, <2>1
  <2> QED
    BY <2>1 DEF Adding
<1> DEFINE total(s) == IF s = {} THEN 0
                       ELSE f[CHOOSE x \in s : TRUE]
                              + Adding(f, s \ {CHOOSE x \in s : TRUE})[s \ {CHOOSE x \in s : TRUE}]
           g == [s \in SUBSET T |-> total(s)]
<1>4. ASSUME NEW s \in SUBSET T PROVE total(s) = Rest(f, g, s)
  <2>1. CASE s = {}
    BY <2>1 DEF Rest
  <2>2. CASE s # {}
    <3> DEFINE r == s \ {CHOOSE x \in s : TRUE}
    <3>1. r \in SUBSET T /\ r # T /\ (CHOOSE x \in s : TRUE) \in s
      BY <2>2
    <3>2. Adds(f, Adding(f, r), r)
      BY <1>3, <3>1
    <3>3. Adding(f, r)[r] = Rest(f, Adding(f, r), r)
      BY <3>2 DEF Adds
    <3>4. g[r] = total(r)
      BY <3>1
    <3>5. total(r) = Adding(f, r)[r]
      <4>1. CASE r = {}
        BY <3>3, <4>1 DEF Rest
      <4>2. CASE r # {}
        <5> DEFINE q == r \ {CHOOSE x \in r : TRUE}
        <5>1. q \in SUBSET T /\ q # T /\ q \in SUBSET q /\ q \subseteq r
          BY <3>1, <4>2
        <5>2. Adds(f, Adding(f, q), q) /\ IsFiniteSet(q)
          BY <1>2, <1>3, <5>1, FS_Subset
        <5> HIDE DEF q
        <5>3. Adding(f, q)[q] = Adding(f, r)[q]
          BY <3>2, <5>1, <5>2, AddsAgree
        <5> QED
          BY <3>3, <4>2, <5>3 DEF Rest, q
      <4> QED
        BY <4>1, <4>2
    <3>6. total(s) = f[CHOOSE x \in s : TRUE] + Adding(f, r)[r]
      BY <2>2
    <3> HIDE DEF g, total
    <3> QED
      BY <2>2, <3>4, <3>5, <3>6 DEF Rest
  <2> QED
    BY <2>1, <2>2
<1>5. Adds(f, g, T)
  <2> HIDE DEF total
  <2>1. \A s \in SUBSET T : total(s) = Rest(f, g, s)
    BY <1>4
  <2> QED
    BY <2>1 DEF Adds
<1> QED
  BY <1>2, <1>5

LEMMA SumEmpty == \A f : SumFunctionOnSet(f, {}) = 0
<1> TAKE f
<1>1. Adds(f, Adding(f, {}), {})
  BY AddsExists, FS_EmptySet DEF Adding
<1>2. Adding(f, {})[{}] = Rest(f, Adding(f, {}), {})
  BY <1>1 DEF Adds
<1> QED
  BY <1>2, SumIs DEF Rest

\* The element it chooses first ...
LEMMA SumFirst ==
  ASSUME NEW f, NEW S, IsFiniteSet(S), S # {}
  PROVE  LET c == CHOOSE x \in S : TRUE
         IN  c \in S /\ SumFunctionOnSet(f, S) = f[c] + SumFunctionOnSet(f, S \ {c})
<1> DEFINE c == CHOOSE x \in S : TRUE
           r == S \ {c}
<1>1. c \in S
  OBVIOUS
<1>2. IsFiniteSet(r) /\ r \in SUBSET r /\ r \subseteq S
  BY FS_Subset
<1>3. Adds(f, Adding(f, S), S) /\ Adds(f, Adding(f, r), r)
  <2> HIDE DEF r
  <2> QED
    BY <1>2, AddsExists DEF Adding
<1>4. Adding(f, S)[S] = f[c] + Adding(f, S)[r]
  BY <1>3 DEF Adds, Rest
<1>5. Adding(f, S)[r] = Adding(f, r)[r]
  <2> HIDE DEF r
  <2> QED
    BY <1>2, <1>3, AddsAgree
<1> QED
  BY <1>1, <1>4, <1>5, SumIs

LEMMA SumSome ==
  ASSUME NEW f, NEW S, IsFiniteSet(S), S # {}
  PROVE  \E c \in S : SumFunctionOnSet(f, S) = f[c] + SumFunctionOnSet(f, S \ {c})
BY SumFirst

LEMMA SumNat ==
  ASSUME NEW f, NEW S, IsFiniteSet(S), \A x \in S : f[x] \in Nat
  PROVE  SumFunctionOnSet(f, S) \in Nat
<1> DEFINE C == {s \in SUBSET S : SumFunctionOnSet(f, s) \notin Nat}
<1>1. SUFFICES ASSUME C # {} PROVE FALSE
  OBVIOUS
<1>2. PICK T \in C : IsFiniteSet(T) /\ \A U \in C : U \subseteq T => U = T
  <2>1. C \in SUBSET (SUBSET S)
    OBVIOUS
  <2> HIDE DEF C
  <2> QED
    BY <1>1, <2>1, Smallest
<1>3. T # {}
  BY SumEmpty
<1>4. PICK c \in T : SumFunctionOnSet(f, T) = f[c] + SumFunctionOnSet(f, T \ {c})
  BY <1>2, <1>3, SumSome
<1>5. SumFunctionOnSet(f, T \ {c}) \in Nat
  BY <1>2
<1> QED
  BY <1>4, <1>5

\* ... may be any.
LEMMA SumTake ==
  ASSUME NEW f, NEW S, IsFiniteSet(S), \A x \in S : f[x] \in Nat, NEW x \in S
  PROVE  /\ SumFunctionOnSet(f, S) = f[x] + SumFunctionOnSet(f, S \ {x})
         /\ SumFunctionOnSet(f, S \ {x}) \in Nat
<1> DEFINE Wrong(s, e) == SumFunctionOnSet(f, s) # f[e] + SumFunctionOnSet(f, s \ {e})
           C == {s \in SUBSET S : \E e \in s : Wrong(s, e)}
<1>1. SUFFICES ASSUME C # {} PROVE FALSE
  BY SumNat, FS_Subset
<1>2. PICK T \in C : IsFiniteSet(T) /\ \A U \in C : U \subseteq T => U = T
  <2>1. C \in SUBSET (SUBSET S)
    OBVIOUS
  <2> HIDE DEF C
  <2> QED
    BY <1>1, <2>1, Smallest
<1>3. PICK e \in T : Wrong(T, e)
  OBVIOUS
<1>4. PICK c \in T : SumFunctionOnSet(f, T) = f[c] + SumFunctionOnSet(f, T \ {c})
  BY <1>2, <1>3, SumSome
<1>5. c # e
  BY <1>3, <1>4
<1>6. SumFunctionOnSet(f, T \ {c}) = f[e] + SumFunctionOnSet(f, (T \ {c}) \ {e})
  <2>1. T \ {c} \notin C /\ T \ {c} \in SUBSET S
    BY <1>2
  <2> QED
    BY <1>5, <2>1
<1>7. SumFunctionOnSet(f, T \ {e}) = f[c] + SumFunctionOnSet(f, (T \ {e}) \ {c})
  <2>1. T \ {e} \notin C /\ T \ {e} \in SUBSET S
    BY <1>2
  <2> QED
    BY <1>5, <2>1
<1>8. (T \ {c}) \ {e} = (T \ {e}) \ {c}
  OBVIOUS
<1>9. SumFunctionOnSet(f, (T \ {e}) \ {c}) \in Nat /\ f[c] \in Nat /\ f[e] \in Nat
  <2>1. IsFiniteSet((T \ {e}) \ {c}) /\ \A y \in (T \ {e}) \ {c} : f[y] \in Nat
    BY <1>2, FS_Subset
  <2> QED
    BY <2>1, SumNat
<1>10. \A a, b, z \in Nat : a + (b + z) = b + (a + z)
  OBVIOUS
<1>11. SumFunctionOnSet(f, T) = f[e] + SumFunctionOnSet(f, T \ {e})
  BY <1>4, <1>6, <1>7, <1>8, <1>9, <1>10
<1> QED
  BY <1>3, <1>11

LEMMA SumSame ==
  ASSUME NEW f, NEW g, NEW S, IsFiniteSet(S), \A x \in S : f[x] = g[x]
  PROVE  SumFunctionOnSet(f, S) = SumFunctionOnSet(g, S)
<1> DEFINE C == {s \in SUBSET S : SumFunctionOnSet(f, s) # SumFunctionOnSet(g, s)}
<1>1. SUFFICES ASSUME C # {} PROVE FALSE
  OBVIOUS
<1>2. PICK T \in C : IsFiniteSet(T) /\ \A U \in C : U \subseteq T => U = T
  <2>1. C \in SUBSET (SUBSET S)
    OBVIOUS
  <2> HIDE DEF C
  <2> QED
    BY <1>1, <2>1, Smallest
<1>3. T # {}
  BY SumEmpty
<1> DEFINE c == CHOOSE x \in T : TRUE
<1>4. /\ c \in T
      /\ SumFunctionOnSet(f, T) = f[c] + SumFunctionOnSet(f, T \ {c})
      /\ SumFunctionOnSet(g, T) = g[c] + SumFunctionOnSet(g, T \ {c})
  BY <1>2, <1>3, SumFirst
<1>5. SumFunctionOnSet(f, T \ {c}) = SumFunctionOnSet(g, T \ {c})
  BY <1>2, <1>4
<1> QED
  BY <1>4, <1>5

LEMMA SumZero ==
  ASSUME NEW f, NEW S, IsFiniteSet(S), \A x \in S : f[x] = 0
  PROVE  SumFunctionOnSet(f, S) = 0
<1> DEFINE C == {s \in SUBSET S : SumFunctionOnSet(f, s) # 0}
<1>1. SUFFICES ASSUME C # {} PROVE FALSE
  OBVIOUS
<1>2. PICK T \in C : IsFiniteSet(T) /\ \A U \in C : U \subseteq T => U = T
  <2>1. C \in SUBSET (SUBSET S)
    OBVIOUS
  <2> HIDE DEF C
  <2> QED
    BY <1>1, <2>1, Smallest
<1>3. T # {}
  BY SumEmpty
<1>4. PICK c \in T : SumFunctionOnSet(f, T) = f[c] + SumFunctionOnSet(f, T \ {c})
  BY <1>2, <1>3, SumSome
<1>5. SumFunctionOnSet(f, T \ {c}) = 0
  BY <1>2
<1> QED
  BY <1>4, <1>5

\* Elements without a value may be left out.
LEMMA SumDrop ==
  ASSUME NEW f, NEW S, IsFiniteSet(S), NEW D \in SUBSET S,
         \A x \in S : f[x] \in Nat, \A x \in S \ D : f[x] = 0
  PROVE  SumFunctionOnSet(f, S) = SumFunctionOnSet(f, D)
<1> DEFINE C == {s \in SUBSET S : SumFunctionOnSet(f, s) # SumFunctionOnSet(f, s \cap D)}
<1>1. SUFFICES ASSUME C # {} PROVE FALSE
  <2>1. S \cap D = D /\ S \notin C
    BY <1>1
  <2> QED
    BY <2>1
<1>2. PICK T \in C : IsFiniteSet(T) /\ \A U \in C : U \subseteq T => U = T
  <2>1. C \in SUBSET (SUBSET S)
    OBVIOUS
  <2> HIDE DEF C
  <2> QED
    BY <1>1, <2>1, Smallest
<1>3. T # {}
  BY SumEmpty
<1>4. PICK c \in T : SumFunctionOnSet(f, T) = f[c] + SumFunctionOnSet(f, T \ {c})
  BY <1>2, <1>3, SumSome
<1>5. SumFunctionOnSet(f, T \ {c}) = SumFunctionOnSet(f, (T \ {c}) \cap D)
  BY <1>2
<1>6. IsFiniteSet(T \cap D) /\ \A x \in T \cap D : f[x] \in Nat
  BY <1>2, FS_Subset
<1>7. CASE c \in D
  <2>1. (T \ {c}) \cap D = (T \cap D) \ {c} /\ c \in T \cap D
    BY <1>7
  <2>2. SumFunctionOnSet(f, T \cap D) = f[c] + SumFunctionOnSet(f, (T \cap D) \ {c})
    BY <1>6, <2>1, SumTake
  <2> QED
    BY <1>4, <1>5, <2>1, <2>2
<1>8. CASE c \notin D
  <2>1. (T \ {c}) \cap D = T \cap D /\ f[c] = 0
    BY <1>8
  <2>2. SumFunctionOnSet(f, T \cap D) \in Nat
    BY <1>6, SumNat
  <2> QED
    BY <1>4, <1>5, <2>1, <2>2
<1> QED
  BY <1>7, <1>8

LEMMA SumAdd ==
  ASSUME NEW f, NEW g, NEW h, NEW S, IsFiniteSet(S),
         \A x \in S : g[x] \in Nat /\ h[x] \in Nat /\ f[x] = g[x] + h[x]
  PROVE  SumFunctionOnSet(f, S) = SumFunctionOnSet(g, S) + SumFunctionOnSet(h, S)
<1> DEFINE Wrong(s) == SumFunctionOnSet(f, s) # SumFunctionOnSet(g, s) + SumFunctionOnSet(h, s)
           C == {s \in SUBSET S : Wrong(s)}
<1>1. SUFFICES ASSUME C # {} PROVE FALSE
  OBVIOUS
<1>2. PICK T \in C : IsFiniteSet(T) /\ \A U \in C : U \subseteq T => U = T
  <2>1. C \in SUBSET (SUBSET S)
    OBVIOUS
  <2> HIDE DEF C
  <2> QED
    BY <1>1, <2>1, Smallest
<1>3. T # {}
  <2>1. ~Wrong({})
    BY SumEmpty
  <2> QED
    BY <1>2, <2>1
<1>4. PICK c : c \in T
  BY <1>3
<1>5. T \subseteq S /\ c \in S /\ \A x \in T : g[x] \in Nat /\ h[x] \in Nat /\ f[x] \in Nat
  BY <1>2, <1>4
<1> DEFINE r == T \ {c}
<1>6. ~Wrong(r)
  <2>1. r \in SUBSET S /\ r \subseteq T /\ r # T
    BY <1>4, <1>5
  <2> QED
    BY <1>2, <2>1
<1>7. /\ SumFunctionOnSet(f, T) = f[c] + SumFunctionOnSet(f, r)
      /\ SumFunctionOnSet(g, T) = g[c] + SumFunctionOnSet(g, r)
      /\ SumFunctionOnSet(h, T) = h[c] + SumFunctionOnSet(h, r)
      /\ SumFunctionOnSet(f, r) \in Nat /\ SumFunctionOnSet(g, r) \in Nat
      /\ SumFunctionOnSet(h, r) \in Nat
  BY <1>2, <1>4, <1>5, SumTake
<1>8. f[c] = g[c] + h[c] /\ g[c] \in Nat /\ h[c] \in Nat
  BY <1>5
<1>9. Wrong(T)
  BY <1>2
<1> HIDE DEF r, C
<1> QED
  BY <1>6, <1>7, <1>8, <1>9

\* The same sum with every index moved by k.
Moved(S, k) == {x + k : x \in S}
Indices(S) == S \in SUBSET Int

LEMMA MovedTake ==
  ASSUME NEW k \in Int, NEW S \in SUBSET Int, NEW c \in S
  PROVE  Moved(S \ {c}, k) = Moved(S, k) \ {c + k} /\ c + k \in Moved(S, k)
<1>1. ASSUME NEW y
      PROVE  y \in Moved(S \ {c}, k) <=> y \in Moved(S, k) \ {c + k}
  <2>1. y \in Moved(S \ {c}, k) <=> \E x \in S : x # c /\ y = x + k
    BY DEF Moved
  <2>2. y \in Moved(S, k) \ {c + k} <=> \E x \in S : y = x + k /\ x + k # c + k
    BY DEF Moved
  <2> QED
    BY <2>1, <2>2
<1>2. c + k \in Moved(S, k)
  BY DEF Moved
<1> QED
  BY <1>1, <1>2

LEMMA MovedFinite ==
  ASSUME NEW k \in Int, NEW S, Indices(S), IsFiniteSet(S)
  PROVE  IsFiniteSet(Moved(S, k))
<1> DEFINE C == {s \in SUBSET S : ~IsFiniteSet(Moved(s, k))}
<1>1. SUFFICES ASSUME C # {} PROVE FALSE
  OBVIOUS
<1>2. PICK T \in C : IsFiniteSet(T) /\ \A U \in C : U \subseteq T => U = T
  <2>1. C \in SUBSET (SUBSET S)
    OBVIOUS
  <2> HIDE DEF C
  <2> QED
    BY <1>1, <2>1, Smallest
<1>3. Moved({}, k) = {}
  BY DEF Moved
<1>4. PICK c \in T : TRUE
  BY <1>2, <1>3, FS_EmptySet
<1>5. Moved(T \ {c}, k) = Moved(T, k) \ {c + k} /\ c + k \in Moved(T, k)
  BY MovedTake DEF Indices
<1>6. IsFiniteSet(Moved(T \ {c}, k))
  BY <1>2, <1>4
<1>7. Moved(T, k) = (Moved(T, k) \ {c + k}) \cup {c + k}
  BY <1>5
<1> QED
  BY <1>2, <1>5, <1>6, <1>7, FS_AddElement

LEMMA SumShift ==
  ASSUME NEW f, NEW g, NEW k \in Int, NEW S, Indices(S), IsFiniteSet(S),
         \A x \in S : f[x] \in Nat /\ g[x + k] = f[x]
  PROVE  SumFunctionOnSet(g, Moved(S, k)) = SumFunctionOnSet(f, S)
<1> DEFINE C == {s \in SUBSET S : SumFunctionOnSet(g, Moved(s, k)) # SumFunctionOnSet(f, s)}
<1>1. SUFFICES ASSUME C # {} PROVE FALSE
  OBVIOUS
<1>2. PICK T \in C : IsFiniteSet(T) /\ \A U \in C : U \subseteq T => U = T
  <2>1. C \in SUBSET (SUBSET S)
    OBVIOUS
  <2> HIDE DEF C
  <2> QED
    BY <1>1, <2>1, Smallest
<1>3. T # {}
  <2>1. Moved({}, k) = {}
    BY DEF Moved
  <2> QED
    BY <1>2, <2>1, SumEmpty
<1>4. PICK c \in T : SumFunctionOnSet(f, T) = f[c] + SumFunctionOnSet(f, T \ {c})
  BY <1>2, <1>3, SumSome
<1>5. SumFunctionOnSet(g, Moved(T \ {c}, k)) = SumFunctionOnSet(f, T \ {c})
  BY <1>2
<1>6. Moved(T \ {c}, k) = Moved(T, k) \ {c + k} /\ c + k \in Moved(T, k)
  BY MovedTake DEF Indices
<1>7. IsFiniteSet(Moved(T, k)) /\ \A y \in Moved(T, k) : g[y] \in Nat
  <2>1. Indices(T)
    BY DEF Indices
  <2>2. \A y \in Moved(T, k) : g[y] \in Nat
    BY DEF Moved
  <2> QED
    BY <1>2, <2>1, <2>2, MovedFinite
<1>8. SumFunctionOnSet(g, Moved(T, k)) = g[c + k] + SumFunctionOnSet(g, Moved(T, k) \ {c + k})
  BY <1>6, <1>7, SumTake
<1>9. g[c + k] = f[c]
  BY <1>4
<1>10. SumFunctionOnSet(g, Moved(T, k)) = SumFunctionOnSet(f, T)
  BY <1>4, <1>5, <1>6, <1>8, <1>9
<1> QED
  BY <1>10

-----------------------------------------------------------------------------
(* Periods: minutes divided by the lengths of the periods                  *)

LEMMA DivMod ==
  ASSUME NEW a \in Nat, NEW M \in Nat \ {0}
  PROVE  a \div M \in Nat /\ a % M \in 0..M - 1 /\ a = (a \div M) * M + (a % M)
OBVIOUS

LEMMA Divide ==
  ASSUME NEW q \in Nat, NEW i \in Nat, NEW M \in Nat \ {0}, i < M
  PROVE  (q * M + i) \div M = q /\ (q * M + i) % M = i
OBVIOUS

LEMMA DivideWhole ==
  ASSUME NEW q \in Nat, NEW M \in Nat \ {0}
  PROVE  (q * M) \div M = q /\ (q * M) % M = 0
OBVIOUS

\* The next minute is in the same period, or begins the next.
LEMMA NextMinute ==
  ASSUME NEW a \in Nat, NEW M \in Nat \ {0}
  PROVE  \/ /\ (a + 1) % M # 0 /\ (a + 1) % M = (a % M) + 1
            /\ (a + 1) \div M = a \div M
         \/ /\ (a + 1) % M = 0 /\ a % M = M - 1
            /\ (a + 1) \div M = (a \div M) + 1
<1> DEFINE q == a \div M
           i == a % M
<1>1. q \in Nat /\ i \in 0..M - 1 /\ a = q * M + i
  BY DivMod
<1> HIDE DEF q, i
<1>2. CASE i + 1 < M
  <2> DEFINE j == i + 1
  <2>1. j \in Nat /\ j < M /\ j # 0 /\ a + 1 = q * M + j
    BY <1>1, <1>2
  <2> HIDE DEF j
  <2>2. (q * M + j) \div M = q /\ (q * M + j) % M = j
    BY <1>1, <2>1, Divide
  <2> QED
    BY <2>1, <2>2 DEF q, i, j
<1>3. CASE i + 1 >= M
  <2> DEFINE r == q + 1
  <2>1. r \in Nat /\ i = M - 1 /\ a + 1 = r * M
    BY <1>1, <1>3
  <2> HIDE DEF r
  <2>2. (r * M) \div M = r /\ (r * M) % M = 0
    BY <2>1, DivideWhole
  <2> QED
    BY <2>1, <2>2 DEF q, i, r
<1> QED
  BY <1>1, <1>2, <1>3

\* A minute within a period of k shorter ones.
LEMMA Within ==
  ASSUME NEW t \in Nat, NEW k \in Nat \ {0}, NEW M \in Nat \ {0}
  PROVE  /\ (t % (k * M)) \div M = (t \div M) % k
         /\ (t % (k * M)) % M = t % M
<1> DEFINE q == t \div M
           i == t % M
           Q == q \div k
           j == q % k
           B == k * M
           r == j * M + i
<1>1. q \in Nat /\ i \in 0..M - 1 /\ t = q * M + i
  BY DivMod
<1>2. Q \in Nat /\ j \in 0..k - 1 /\ q = Q * k + j
  <2> HIDE DEF q
  <2> QED
    BY <1>1, DivMod
<1> HIDE DEF q, i, Q, j
<1>3. j * M \in Nat /\ j * M + M <= k * M
  <2>1. j + 1 <= k /\ (j + 1) * M = j * M + M /\ (j + 1) * M <= k * M
    BY <1>2
  <2> QED
    BY <1>2, <2>1
<1>4. B \in Nat \ {0} /\ r \in Nat /\ r < B
  BY <1>1, <1>3
<1>5. t = Q * B + r
  <2>1. (Q * k + j) * M = Q * (k * M) + j * M
    BY <1>2
  <2>2. Q * (k * M) \in Nat
    BY <1>2, <1>4
  <2> QED
    BY <1>1, <1>2, <1>3, <2>1, <2>2
<1>6. t % B = r
  <2> HIDE DEF B, r
  <2> QED
    BY <1>2, <1>4, <1>5, Divide
<1>7. r \div M = j /\ r % M = i
  BY <1>1, <1>2, Divide
<1> HIDE DEF B, r
<1>8. (t % B) \div M = j /\ (t % B) % M = i
  BY <1>6, <1>7
<1> QED
  BY <1>8 DEF B, j, q, i

LEMMA Changes ==
  ASSUME NEW q \in Nat, NEW k \in Nat \ {0}, k >= 2
  PROVE  (q + 1) % k # q % k
<1>1. (q + 1) % k = (q % k) + 1 \/ ((q + 1) % k = 0 /\ q % k = k - 1)
  BY NextMinute
<1>2. q % k \in 0..k - 1
  BY DivMod
<1> DEFINE i == q % k
           j == (q + 1) % k
<1>3. i \in 0..k - 1 /\ (j = i + 1 \/ (j = 0 /\ i = k - 1))
  BY <1>1, <1>2
<1> HIDE DEF i, j
<1>4. j # i
  BY <1>3
<1> QED
  BY <1>4 DEF i, j

\* A field of the date changes when the period it counts begins.
LEMMA FieldChanges ==
  ASSUME NEW a \in Nat, NEW k \in Nat, k >= 2, NEW M \in Nat \ {0}
  PROVE  ((a + 1) % (k * M)) \div M # (a % (k * M)) \div M <=> (a + 1) % M = 0
<1> DEFINE q == a \div M
           b == a + 1
<1>1. b \in Nat /\ q \in Nat /\ k \in Nat \ {0}
  BY DivMod
<1> HIDE DEF b
<1>2. (b % (k * M)) \div M = (b \div M) % k /\ (a % (k * M)) \div M = q % k
  BY <1>1, Within
<1>3. CASE (a + 1) % M # 0
  BY <1>2, <1>3, NextMinute DEF b
<1>4. CASE (a + 1) % M = 0
  <2>1. b \div M = q + 1
    BY <1>4, NextMinute DEF b
  <2> HIDE DEF q
  <2>2. (q + 1) % k # q % k
    BY <1>1, Changes
  <2> QED
    BY <1>2, <1>4, <2>1, <2>2 DEF b
<1> QED
  BY <1>3, <1>4

\* One length is a multiple of another.
LEMMA Multiple ==
  ASSUME NEW L \in Nat \ {0}, NEW M \in Nat \ {0}, L % M = 0
  PROVE  \E k \in Nat \ {0} : L = k * M /\ (L > M => k >= 2)
<1> DEFINE k == L \div M
<1>1. k \in Nat /\ L = k * M + 0
  BY DivMod
<1> HIDE DEF k
<1>2. k # 0 /\ (L > M => k # 1)
  BY <1>1
<1> QED
  BY <1>1, <1>2

LEMMA Lengths ==
  /\ TenLen \in Nat \ {0} /\ HourLen \in Nat \ {0} /\ DayLen \in Nat \ {0}
  /\ MonthLen \in Nat \ {0} /\ YearLen \in Nat \ {0}
  /\ DayLen % HourLen = 0 /\ DayLen > HourLen
  /\ MonthLen % DayLen = 0 /\ MonthLen > DayLen
  /\ YearLen % MonthLen = 0 /\ YearLen > MonthLen
  /\ \A p \in Periods : Length[p] \in Nat \ {0}
  /\ Length["ten"] = TenLen /\ Length["hour"] = HourLen /\ Length["day"] = DayLen
  /\ Length["month"] = MonthLen /\ Length["year"] = YearLen /\ Length["yesterday"] = DayLen
BY RainArchiveAssumption DEF Length, Periods, Running

LEMMA ConstantsAre ==
  /\ TenLen \in Nat \ {0} /\ HourLen \in Nat \ {0} /\ YearLen \in Nat \ {0}
  /\ HourLen % TenLen = 0 /\ MaxYearLen \in Nat /\ YearLen <= MaxYearLen
  /\ Cycle \in Nat \ {0} /\ SectorSlots \in Nat \ {0} /\ QueueLen \in Nat \ {0}
  /\ LeftOver \subseteq Nat
  /\ StartAt \in Nat /\ DayLen < StartAt /\ Cycle * YearLen <= StartAt
  /\ LastMinute \in Nat /\ StartAt <= LastMinute
  /\ MaxOutage \in Nat /\ MaxRain \in Nat /\ MaxPowerLosses \in Nat
  /\ MaxSdErrors \in Nat /\ MaxErases \in Nat
BY RainArchiveAssumption

\* schedule_process closes a period in the minute that begins the next one.
LEMMA ClosesWhen ==
  ASSUME NEW p \in Running, NEW o \in Nat
  PROVE  Closes(p, o, o + 1) <=> (o + 1) % Length[p] = 0
<1>1. CASE p = "ten"
  BY <1>1, Lengths DEF Closes
<1>2. CASE p = "hour"
  <2>1. PICK k \in Nat \ {0} : DayLen = k * HourLen /\ k >= 2
    BY Lengths, Multiple
  <2> QED
    BY <1>2, <2>1, Lengths, FieldChanges DEF Closes, Hour
<1>3. CASE p = "day"
  <2>1. PICK k \in Nat \ {0} : MonthLen = k * DayLen /\ k >= 2
    BY Lengths, Multiple
  <2> QED
    BY <1>3, <2>1, Lengths, FieldChanges DEF Closes, Day
<1>4. CASE p = "month"
  <2>1. PICK k \in Nat \ {0} : YearLen = k * MonthLen /\ k >= 2
    BY Lengths, Multiple
  <2> QED
    BY <1>4, <2>1, Lengths, FieldChanges DEF Closes, Month
<1>5. CASE p = "year"
  <2>1. o \div YearLen \in Nat
    BY Lengths, DivMod
  <2> QED
    BY <1>5, <2>1, Lengths, NextMinute DEF Closes, Year
<1> QED
  BY <1>1, <1>2, <1>3, <1>4, <1>5 DEF Running

-----------------------------------------------------------------------------
(* The inductive invariant                                                 *)

\* What a card with the files f holds of minute t, and of the minutes in S.
ContentIn(f, t) ==
  LET n == Slot(t)[1]  i == Slot(t)[2]
  IN  IF i \in DOMAIN f[n] /\ f[n][i].t = t THEN f[n][i].rain ELSE 0
FiledIn(f, S) == SumFunctionOnSet([t \in S |-> ContentIn(f, t)], S)

\* The rain in the records of a sequence, of minutes in S.
Carried(s, S) == SumFunctionOnSet([i \in DOMAIN s |-> s[i].rain], {i \in DOMAIN s : s[i].t \in S})

FileType(f) ==
  /\ DOMAIN f = Names
  /\ \A n \in Names : /\ DOMAIN f[n] \subseteq 1..YearLen
                      /\ \A i \in DOMAIN f[n] : f[n][i] \in [t : Nat, rain : Nat]

ClockInv ==
  /\ now \in Nat /\ readAt \in Nat /\ old \in Nat
  /\ StartAt <= readAt /\ readAt <= now /\ StartAt <= old /\ old <= now /\ now <= LastMinute
  /\ pc \in {"boot", "delay", "run"} /\ (pc = "run" => now - old <= 1)

RamInv ==
  /\ min \in Nat /\ acc \in [Periods -> Nat] /\ report \in [{"ten", "hour", "day"} -> Nat]
  /\ queue \in Seq(Record) /\ Len(queue) <= QueueLen
  /\ held \in Seq(Record) /\ Len(held) <= 1

CardInv ==
  /\ FileType(file) /\ DOMAIN fileLen = Names
  /\ \A n \in Names : /\ fileLen[n] \in 0..MaxYearLen + 1
                      /\ \A i \in DOMAIN file[n] : i < fileLen[n]

MenuInv ==
  /\ erase = [step |-> erase.step, acc |-> erase.acc] /\ erase.step \in {"idle", "erased", "read"}
  /\ DOMAIN erase.acc \subseteq Periods /\ \A p \in DOMAIN erase.acc : erase.acc[p] \in Nat

HistoryInv ==
  /\ whole \in [Periods -> BOOLEAN] /\ missed \in [Periods -> Nat]
  /\ rained \in 0..MaxRain /\ powerLosses \in 0..MaxPowerLosses
  /\ sdErrors \in 0..MaxSdErrors /\ erases \in 0..MaxErases

\* Until DUALPORT_TASK scans there is nothing to log and nothing to erase.
IdleInv ==
  /\ pc # "run" => /\ held = <<>> /\ queue = <<>> /\ min = 0 /\ erase.step = "idle"
                   /\ \A p \in Periods : missed[p] = 0
  /\ pc = "boot" => \A p \in Periods : ~whole[p]

\* The records on the path are in the order of their minutes, none of them to come.
PathInv ==
  \A i \in DOMAIN Path : /\ StartAt <= Path[i].t /\ Path[i].t <= old
                         /\ \A j \in DOMAIN Path : i < j => Path[i].t < Path[j].t

\* A record in the archive is in the slot of its minute, which is over and before
\* those on the path.
FileInv ==
  \A n \in Names : \A i \in DOMAIN file[n] :
    file[n][i].t > 0 => /\ Slot(file[n][i].t) = <<n, i>>
                        /\ file[n][i].t <= old
                        /\ Path # <<>> => file[n][i].t < Path[1].t

\* The rain of the minute has rained.
RainInv == min <= rained

\* What calculate_rain read is what the archive holds.
RestoredInv ==
  pc = "delay" => \A p \in Periods : whole[p] => acc[p] = FiledIn(file, Minutes(p, readAt))

\* What the accumulator p makes up of the archive, the path and what was lost.
Made(p) ==
  FiledIn(file, Minutes(p, old)) + Carried(Path, Minutes(p, old)) + missed[p]
    + (IF p = "yesterday" THEN 0 ELSE min)

BooksInv == pc = "run" => \A p \in Periods : whole[p] => acc[p] = Made(p)

IInv ==
  /\ ClockInv /\ RamInv /\ CardInv /\ MenuInv /\ HistoryInv /\ IdleInv
  /\ PathInv /\ FileInv /\ RainInv /\ RestoredInv /\ BooksInv

-----------------------------------------------------------------------------
(* Minutes of a period                                                     *)

LEMMA BeginIs ==
  ASSUME NEW p \in Periods, NEW t \in Nat
  PROVE  /\ Begin(p, t) \in Nat /\ Begin(p, t) <= t /\ t < Begin(p, t) + Length[p]
         /\ Begin(p, t) = (t \div Length[p]) * Length[p]
         /\ Length[p] \in Nat \ {0}
<1>1. PICK L \in Nat \ {0} : L = Length[p]
  BY Lengths
<1> DEFINE q == t \div L
           i == t % L
<1>2. q \in Nat /\ i \in 0..L - 1 /\ t = q * L + i
  BY DivMod
<1>3. Begin(p, t) = t - i
  BY <1>1 DEF Begin
<1> HIDE DEF q, i
<1>4. q * L \in Nat
  BY <1>2
<1>5. Begin(p, t) = q * L
  BY <1>2, <1>3, <1>4
<1> QED
  BY <1>1, <1>2, <1>4, <1>5 DEF q

LEMMA BeginTurn ==
  ASSUME NEW p \in Periods, NEW o \in Nat
  PROVE  /\ (o + 1) % Length[p] # 0 => Begin(p, o + 1) = Begin(p, o)
         /\ (o + 1) % Length[p] = 0 =>
              Begin(p, o + 1) = o + 1 /\ Begin(p, o) + Length[p] = o + 1
<1>1. PICK L \in Nat \ {0} : L = Length[p]
  BY Lengths
<1>2. Begin(p, o) = o - (o % L) /\ Begin(p, o + 1) = (o + 1) - ((o + 1) % L)
  BY <1>1 DEF Begin
<1>3. o % L \in 0..L - 1
  BY DivMod
<1>4. CASE (o + 1) % L # 0
  <2>1. (o + 1) % L = (o % L) + 1
    BY <1>4, NextMinute
  <2> QED
    BY <1>1, <1>2, <1>3, <1>4, <2>1
<1>5. CASE (o + 1) % L = 0
  <2>1. o % L = L - 1
    BY <1>5, NextMinute
  <2> QED
    BY <1>1, <1>2, <1>3, <1>5, <2>1
<1> QED
  BY <1>4, <1>5

\* The first day begins before the clock is set.
LEMMA DayOf ==
  ASSUME NEW t \in Nat, t >= DayLen
  PROVE  Begin("yesterday", t) = Begin("day", t) /\ Begin("day", t) >= DayLen
<1>1. Begin("yesterday", t) = Begin("day", t) /\ "day" \in Periods
  BY Lengths DEF Begin, Periods, Running
<1>2. Begin("day", t) \in Nat /\ t < Begin("day", t) + DayLen
      /\ Begin("day", t) = (t \div DayLen) * DayLen
  BY <1>1, BeginIs, Lengths
<1>3. t \div DayLen \in Nat /\ DayLen \in Nat \ {0}
  BY Lengths, DivMod
<1>4. t \div DayLen # 0
  BY <1>2, <1>3
<1> DEFINE q == t \div DayLen
<1>5. q >= 1 => q * DayLen >= DayLen
  <2> HIDE DEF q
  <2> QED
    BY <1>3 DEF q
<1> QED
  BY <1>1, <1>2, <1>3, <1>4, <1>5

LEMMA After ==
  ASSUME NEW a \in Nat, NEW b \in Nat
  PROVE  /\ (a + 1)..b \in SUBSET (Nat \ {0}) /\ IsFiniteSet((a + 1)..b)
         /\ \A m \in Int : m \in (a + 1)..b <=> a < m /\ m <= b
<1>1. a + 1 \in Int /\ b \in Int
  OBVIOUS
<1>2. IsFiniteSet((a + 1)..b)
  BY <1>1, FS_Interval
<1> QED
  BY <1>2

LEMMA MinutesAre ==
  ASSUME NEW p \in Periods, NEW t \in Nat, t >= DayLen
  PROVE  /\ Minutes(p, t) \in SUBSET (Nat \ {0}) /\ IsFiniteSet(Minutes(p, t))
         /\ p # "yesterday" => \A m \in Int :
              m \in Minutes(p, t) <=> Begin(p, t) < m /\ m <= Begin(p, t) + Length[p]
         /\ p = "yesterday" => \A m \in Int :
              m \in Minutes(p, t) <=> Begin("day", t) - DayLen < m /\ m <= Begin("day", t)
<1>1. Begin(p, t) \in Nat /\ Length[p] \in Nat \ {0} /\ DayLen \in Nat \ {0}
  BY BeginIs, Lengths
<1>2. Begin("yesterday", t) = Begin("day", t) /\ Begin("day", t) >= DayLen
      /\ Begin("day", t) \in Nat
  BY DayOf, BeginIs DEF Periods, Running
<1>3. CASE p = "yesterday"
  <2>1. Minutes(p, t) = (Begin("day", t) - DayLen + 1)..Begin("day", t)
    BY <1>2, <1>3 DEF Minutes
  <2>2. Begin("day", t) - DayLen \in Nat
    BY <1>1, <1>2
  <2> QED
    BY <1>2, <1>3, <2>1, <2>2, After
<1>4. CASE p # "yesterday"
  <2>1. Minutes(p, t) = (Begin(p, t) + 1)..(Begin(p, t) + Length[p])
    BY <1>4 DEF Minutes
  <2>2. Begin(p, t) + Length[p] \in Nat
    BY <1>1
  <2> QED
    BY <1>1, <1>4, <2>1, <2>2, After
<1> QED
  BY <1>3, <1>4

\* A new minute in the same period, and one that begins the next.
LEMMA MinutesStay ==
  ASSUME NEW p \in Running, NEW o \in Nat, o >= DayLen, ~Closes(p, o, o + 1)
  PROVE  Minutes(p, o + 1) = Minutes(p, o) /\ o + 1 \in Minutes(p, o)
<1>1. Begin(p, o + 1) = Begin(p, o) /\ p \in Periods /\ p # "yesterday"
  BY ClosesWhen, BeginTurn DEF Periods, Running
<1>2. o + 1 \in Nat /\ Begin(p, o + 1) <= o + 1 /\ o + 1 < Begin(p, o + 1) + Length[p]
      /\ Begin(p, o) <= o /\ Begin(p, o) \in Nat
  BY <1>1, BeginIs
<1>3. o + 1 \in Minutes(p, o)
  <2>1. \A m \in Int : m \in Minutes(p, o) <=> Begin(p, o) < m /\ m <= Begin(p, o) + Length[p]
    BY <1>1, MinutesAre
  <2> QED
    BY <1>1, <1>2, <2>1, Lengths
<1> QED
  BY <1>1, <1>3 DEF Minutes

LEMMA MinutesTurn ==
  ASSUME NEW p \in Running, NEW o \in Nat, o >= DayLen, Closes(p, o, o + 1)
  PROVE  /\ \A m \in Minutes(p, o + 1) : m > o + 1
         /\ o + 1 \in Minutes(p, o)
<1>1. Begin(p, o + 1) = o + 1 /\ Begin(p, o) + Length[p] = o + 1
      /\ p \in Periods /\ p # "yesterday"
  BY ClosesWhen, BeginTurn DEF Periods, Running
<1>2. o + 1 \in Nat /\ o + 1 >= DayLen /\ Begin(p, o) \in Nat /\ Begin(p, o) <= o
  BY <1>1, BeginIs, Lengths
<1>3. \A m \in Minutes(p, o + 1) : m \in Int
  BY <1>1, <1>2, MinutesAre
<1> QED
  BY <1>1, <1>2, <1>3, MinutesAre

LEMMA YesterdayStays ==
  ASSUME NEW o \in Nat, o >= DayLen, ~Closes("day", o, o + 1)
  PROVE  /\ Minutes("yesterday", o + 1) = Minutes("yesterday", o)
         /\ o + 1 \notin Minutes("yesterday", o)
<1>1. "day" \in Running /\ "day" \in Periods /\ "yesterday" \in Periods /\ o + 1 \in Nat
      /\ o + 1 >= DayLen
  BY Lengths DEF Periods, Running
<1>2. Begin("day", o + 1) = Begin("day", o) /\ Begin("day", o) <= o /\ Begin("day", o) \in Nat
  BY <1>1, ClosesWhen, BeginTurn, BeginIs
<1>3. Begin("yesterday", o + 1) = Begin("day", o) /\ Begin("yesterday", o) = Begin("day", o)
  BY <1>1, <1>2, DayOf
<1>4. o + 1 \notin Minutes("yesterday", o)
  BY <1>1, <1>2, MinutesAre
<1> QED
  BY <1>3, <1>4 DEF Minutes

LEMMA YesterdayTurns ==
  ASSUME NEW o \in Nat, o >= DayLen, Closes("day", o, o + 1)
  PROVE  Minutes("yesterday", o + 1) = Minutes("day", o)
<1>1. "day" \in Running /\ "day" \in Periods /\ o + 1 \in Nat /\ o + 1 >= DayLen
  BY Lengths DEF Periods, Running
<1>2. Begin("day", o + 1) = o + 1 /\ Begin("day", o) + DayLen = o + 1 /\ Begin("day", o) \in Nat
  BY <1>1, ClosesWhen, BeginTurn, BeginIs, Lengths
<1>3. Begin("yesterday", o + 1) = o + 1
  BY <1>1, <1>2, DayOf
<1>4. (o + 1) - DayLen + 1 = Begin("day", o) + 1 /\ DayLen \in Nat
  BY <1>2, Lengths
<1> QED
  BY <1>2, <1>3, <1>4, Lengths DEF Minutes

-----------------------------------------------------------------------------
(* The records on the path                                                 *)

LEMMA CarriedSets ==
  ASSUME NEW s \in Seq(Record), NEW S
  PROVE  LET f == [i \in DOMAIN s |-> s[i].rain]
             D == {i \in DOMAIN s : s[i].t \in S}
         IN  /\ IsFiniteSet(D) /\ D \subseteq 1..Len(s)
             /\ \A i \in D : f[i] = s[i].rain /\ f[i] \in Nat
             /\ Carried(s, S) = SumFunctionOnSet(f, D)
             /\ Carried(s, S) \in Nat
<1> DEFINE f == [i \in DOMAIN s |-> s[i].rain]
           D == {i \in DOMAIN s : s[i].t \in S}
<1>1. Len(s) \in Nat /\ DOMAIN s = 1..Len(s) /\ \A i \in 1..Len(s) : s[i] \in Record
  OBVIOUS
<1>2. IsFiniteSet(D) /\ D \subseteq 1..Len(s)
  <2>1. IsFiniteSet(1..Len(s))
    BY <1>1, FS_Interval
  <2>2. D \in SUBSET (1..Len(s))
    BY <1>1
  <2> QED
    BY <2>1, <2>2, FS_Subset
<1>3. \A i \in D : f[i] = s[i].rain /\ f[i] \in Nat
  BY <1>1 DEF Record
<1>4. Carried(s, S) = SumFunctionOnSet(f, D)
  BY DEF Carried
<1>5. SumFunctionOnSet(f, D) \in Nat
  <2> HIDE DEF f, D
  <2> QED
    BY <1>2, <1>3, SumNat
<1> QED
  BY <1>2, <1>3, <1>4, <1>5

LEMMA CarriedEmpty == \A S : Carried(<<>>, S) = 0
<1> TAKE S
<1>1. {i \in DOMAIN <<>> : <<>>[i].t \in S} = {}
  OBVIOUS
<1> QED
  BY <1>1, SumEmpty DEF Carried

LEMMA CarriedNone ==
  ASSUME NEW s \in Seq(Record), NEW S, \A i \in DOMAIN s : s[i].t \notin S
  PROVE  Carried(s, S) = 0
<1>1. {i \in DOMAIN s : s[i].t \in S} = {}
  OBVIOUS
<1> QED
  BY <1>1, SumEmpty DEF Carried

\* A record more, at the end of the path.
LEMMA CarriedAppend ==
  ASSUME NEW s \in Seq(Record), NEW r \in Record, NEW S
  PROVE  Carried(Append(s, r), S) = Carried(s, S) + (IF r.t \in S THEN r.rain ELSE 0)
<1> DEFINE n == Len(s) + 1
           z == Append(s, r)
           f == [i \in DOMAIN s |-> s[i].rain]
           D == {i \in DOMAIN s : s[i].t \in S}
           g == [i \in DOMAIN z |-> z[i].rain]
           E == {i \in DOMAIN z : z[i].t \in S}
<1>1. /\ z \in Seq(Record) /\ n \in Nat /\ DOMAIN z = 1..n /\ z[n] = r
      /\ DOMAIN s = 1..Len(s) /\ Len(s) \in Nat /\ \A i \in 1..Len(s) : z[i] = s[i]
  OBVIOUS
<1>2. /\ IsFiniteSet(D) /\ D \subseteq 1..Len(s) /\ \A i \in D : f[i] = s[i].rain /\ f[i] \in Nat
      /\ Carried(s, S) = SumFunctionOnSet(f, D) /\ Carried(s, S) \in Nat
  BY CarriedSets
<1>3. /\ IsFiniteSet(E) /\ \A i \in E : g[i] = z[i].rain /\ g[i] \in Nat
      /\ Carried(z, S) = SumFunctionOnSet(g, E)
  <2> HIDE DEF z
  <2> QED
    BY <1>1, CarriedSets
<1>4. E = IF r.t \in S THEN D \cup {n} ELSE D
  BY <1>1
<1>5. n \notin D
  BY <1>1
<1>6. \A i \in D : g[i] = f[i]
  BY <1>1, <1>2
<1>7. r.t \in S => g[n] = r.rain
  BY <1>1
<1>11. Carried(Append(s, r), S) = Carried(z, S)
  OBVIOUS
<1> HIDE DEF f, g, D, E, z, n
<1>8. SumFunctionOnSet(g, D) = SumFunctionOnSet(f, D)
  BY <1>2, <1>6, SumSame
<1>9. CASE r.t \in S
  <2>1. n \in E /\ E \ {n} = D
    BY <1>4, <1>5, <1>9
  <2>2. SumFunctionOnSet(g, E) = g[n] + SumFunctionOnSet(g, E \ {n}) /\ g[n] \in Nat
    BY <1>3, <2>1, SumTake
  <2> QED
    <3>1. g[n] = r.rain /\ SumFunctionOnSet(g, E \ {n}) = Carried(s, S)
      BY <1>2, <1>7, <1>8, <1>9, <2>1
    <3>2. Carried(Append(s, r), S) = r.rain + Carried(s, S)
      BY <1>3, <1>11, <2>2, <3>1
    <3>3. r.rain \in Nat /\ Carried(s, S) \in Nat
      BY <1>2, <2>2, <3>1
    <3>4. r.rain + Carried(s, S) = Carried(s, S) + r.rain
      BY <3>3
    <3> QED
      BY <1>9, <3>2, <3>4
<1>10. CASE r.t \notin S
  BY <1>2, <1>3, <1>4, <1>8, <1>10, <1>11
<1> QED
  BY <1>9, <1>10

\* A record less, at its head.
LEMMA CarriedTail ==
  ASSUME NEW s \in Seq(Record), s # <<>>, NEW S
  PROVE  /\ Carried(s, S) = (IF s[1].t \in S THEN s[1].rain ELSE 0) + Carried(Tail(s), S)
         /\ Carried(Tail(s), S) \in Nat
<1> DEFINE z == Tail(s)
           f == [i \in DOMAIN s |-> s[i].rain]
           D == {i \in DOMAIN s : s[i].t \in S}
           g == [i \in DOMAIN z |-> z[i].rain]
           E == {i \in DOMAIN z : z[i].t \in S}
           k == 1
<1>1. /\ z \in Seq(Record) /\ Len(s) \in Nat /\ Len(z) = Len(s) - 1 /\ Len(s) >= 1
      /\ DOMAIN s = 1..Len(s) /\ DOMAIN z = 1..Len(z) /\ \A i \in 1..Len(z) : z[i] = s[i + 1]
  OBVIOUS
<1>2. /\ IsFiniteSet(D) /\ \A i \in D : f[i] = s[i].rain /\ f[i] \in Nat
      /\ Carried(s, S) = SumFunctionOnSet(f, D)
  BY CarriedSets
<1>3. /\ IsFiniteSet(E) /\ E \subseteq 1..Len(z) /\ \A i \in E : g[i] = z[i].rain /\ g[i] \in Nat
      /\ Carried(z, S) = SumFunctionOnSet(g, E) /\ Carried(z, S) \in Nat
  <2> HIDE DEF z
  <2> QED
    BY <1>1, CarriedSets
<1>4. D \ {1} = Moved(E, k)
  <2>1. ASSUME NEW i \in D, i # 1 PROVE i \in Moved(E, k)
    <3>1. i - 1 \in 1..Len(z) /\ z[i - 1] = s[i] /\ (i - 1) + 1 = i
      BY <1>1, <2>1
    <3>2. i - 1 \in E
      BY <1>1, <3>1
    <3> QED
      BY <3>1, <3>2 DEF Moved
  <2>2. ASSUME NEW i \in E PROVE i + 1 \in D /\ i + 1 # 1
    BY <1>1
  <2> HIDE DEF D, E
  <2> QED
    BY <2>1, <2>2 DEF Moved
<1>5. \A i \in E : g[i] \in Nat /\ f[i + k] = g[i]
  BY <1>1, <1>3
<1>6. Indices(E)
  BY <1>1 DEF Indices
<1>7. s[1].t \in S <=> 1 \in D
  BY <1>1
<1>11. Carried(Tail(s), S) = Carried(z, S) /\ k \in Int
  OBVIOUS
<1> HIDE DEF f, g, D, E, z, k
<1>8. SumFunctionOnSet(f, Moved(E, k)) = SumFunctionOnSet(g, E)
  BY ZenonT(30), <1>3, <1>5, <1>6, <1>11, SumShift
<1>9. CASE 1 \in D
  <2>1. SumFunctionOnSet(f, D) = f[1] + SumFunctionOnSet(f, D \ {1})
    BY <1>2, <1>9, SumTake
  <2> QED
    BY <1>2, <1>3, <1>4, <1>7, <1>8, <1>9, <1>11, <2>1
<1>10. CASE 1 \notin D
  <2>1. D \ {1} = D
    BY <1>10
  <2> QED
    <3>1. Carried(s, S) = Carried(Tail(s), S)
      BY <1>2, <1>3, <1>4, <1>8, <1>11, <2>1
    <3>2. Carried(Tail(s), S) \in Nat
      BY <1>3, <1>11
    <3> QED
      BY <1>7, <1>10, <3>1, <3>2
<1> QED
  BY <1>9, <1>10

\* The path as loggingTask and DUALPORT_TASK change it.
LEMMA PathIs ==
  ASSUME held \in Seq(Record), queue \in Seq(Record)
  PROVE  Path \in Seq(Record) /\ Len(Path) = Len(held) + Len(queue) /\ DOMAIN Path = 1..Len(Path)
BY DEF Path

LEMMA PathTaken ==
  ASSUME held = <<>>, queue \in Seq(Record), queue # <<>>
  PROVE  <<Head(queue)>> \o Tail(queue) = Path
BY DEF Path

LEMMA PathDropped ==
  ASSUME held \in Seq(Record), queue \in Seq(Record), held # <<>>, Len(held) <= 1
  PROVE  Path # <<>> /\ Path[1] = held[1] /\ <<>> \o queue = Tail(Path)
<1>1. Len(held) = 1 /\ Len(Path) = 1 + Len(queue) /\ Path \in Seq(Record)
  <2>1. Len(held) \in Nat /\ Len(held) # 0
    OBVIOUS
  <2>2. \A n \in Nat : n # 0 /\ n <= 1 => n = 1
    OBVIOUS
  <2>3. Len(held) = 1
    BY <2>1, <2>2
  <2> QED
    BY <2>3, PathIs
<1>2. Path # <<>> /\ Path[1] = held[1]
  BY <1>1 DEF Path
<1>3. \A i \in 1..Len(queue) : Path[i + 1] = queue[i]
  BY <1>1 DEF Path
<1>4. Tail(Path) \in Seq(Record) /\ Len(Tail(Path)) = Len(queue)
      /\ \A i \in 1..Len(queue) : Tail(Path)[i] = Path[i + 1]
  BY <1>1, <1>2
<1>5. Tail(Path) = queue
  BY <1>3, <1>4
<1> QED
  BY <1>2, <1>5

LEMMA PathAppended ==
  ASSUME held \in Seq(Record), queue \in Seq(Record), NEW r \in Record
  PROVE  held \o Append(queue, r) = Append(Path, r)
BY DEF Path

-----------------------------------------------------------------------------
(* Slots of the archive and the minutes they are for                       *)

LEMMA NamesAre == /\ Cycle \in Nat \ {0} /\ YearLen \in Nat \ {0} /\ Cycle * YearLen \in Nat
                  /\ Names \subseteq Nat /\ \A y \in Nat : Name(y) \in Names
                  /\ \A n \in Names : Name(n) = n
<1>1. Cycle \in Nat \ {0} /\ YearLen \in Nat \ {0} /\ Cycle * YearLen \in Nat
  BY Lengths, ConstantsAre
<1>2. \A y \in Nat : Name(y) \in Names
  BY <1>1, DivMod DEF Name, Names
<1>3. \A n \in Names : Name(n) = n
  <2> TAKE n \in Names
  <2>1. n \in Nat /\ n < Cycle /\ 0 \in Nat /\ 0 * Cycle + n = n
    BY <1>1 DEF Names
  <2> QED
    BY <1>1, <2>1, Divide DEF Name
<1> QED
  BY <1>1, <1>2, <1>3 DEF Names

LEMMA SlotStamp ==
  ASSUME NEW y \in Nat, NEW i \in 1..YearLen
  PROVE  /\ Slot(Stamp(y, i)) = <<Name(y), i>>
         /\ Stamp(y, i) \in Nat \ {0} /\ Name(y) \in Names
<1>1. YearLen \in Nat \ {0} /\ Name(y) \in Names
  BY NamesAre
<1>2. y * YearLen \in Nat /\ i \in Nat
  BY <1>1
<1>3. Stamp(y, i) \in Nat \ {0}
  BY <1>1, <1>2 DEF Stamp
<1>4. CASE i < YearLen
  <2>1. (y * YearLen + i) \div YearLen = y /\ (y * YearLen + i) % YearLen = i
    BY <1>1, <1>2, <1>4, Divide
  <2>2. i # 0
    OBVIOUS
  <2> QED
    BY <1>1, <1>3, <2>1, <2>2 DEF Slot, Stamp, Year
<1>5. CASE i = YearLen
  <2> DEFINE z == y + 1
  <2>1. Stamp(y, i) = z * YearLen /\ z \in Nat /\ z - 1 = y
    BY <1>1, <1>2, <1>5 DEF Stamp
  <2> HIDE DEF z
  <2>2. (z * YearLen) \div YearLen = z /\ (z * YearLen) % YearLen = 0
    BY <1>1, <2>1, DivideWhole
  <2> QED
    BY <1>1, <1>3, <1>5, <2>1, <2>2 DEF Slot, Year
<1> QED
  BY <1>1, <1>4, <1>5

LEMMA StampSlot ==
  ASSUME NEW t \in Nat \ {0}
  PROVE  \E y \in Nat, i \in 1..YearLen : Slot(t) = <<Name(y), i>> /\ t = Stamp(y, i)
<1>1. YearLen \in Nat \ {0}
  BY Lengths
<1> DEFINE q == t \div YearLen
           r == t % YearLen
<1>2. q \in Nat /\ r \in 0..YearLen - 1 /\ t = q * YearLen + r
  BY <1>1, DivMod
<1> HIDE DEF q, r
<1>3. CASE r # 0
  <2>1. r \in 1..YearLen /\ t = Stamp(q, r)
    BY <1>1, <1>2, <1>3 DEF Stamp
  <2> QED
    BY <1>2, <2>1, SlotStamp
<1>4. CASE r = 0
  <2>1. q # 0
    BY <1>1, <1>2, <1>4
  <2> DEFINE y == q - 1
  <2>2. y \in Nat /\ q = y + 1
    BY <1>2, <2>1
  <2> HIDE DEF y
  <2>3. YearLen \in 1..YearLen /\ t = Stamp(y, YearLen)
    BY <1>1, <1>2, <1>4, <2>2 DEF Stamp
  <2> QED
    BY <2>2, <2>3, SlotStamp
<1> QED
  BY <1>3, <1>4

\* Years of one name are a cycle apart.
LEMMA NamesRepeat ==
  ASSUME NEW y \in Nat, NEW z \in Nat, Name(y) = Name(z), y < z
  PROVE  y + Cycle <= z
<1>1. Cycle \in Nat \ {0}
  BY NamesAre
<1> DEFINE a == y \div Cycle
           b == z \div Cycle
           r == y % Cycle
<1>2. a \in Nat /\ b \in Nat /\ r \in 0..Cycle - 1 /\ y = a * Cycle + r /\ z = b * Cycle + r
  <2>1. a \in Nat /\ y % Cycle \in 0..Cycle - 1 /\ y = a * Cycle + (y % Cycle)
    BY <1>1, DivMod
  <2>2. b \in Nat /\ z % Cycle \in 0..Cycle - 1 /\ z = b * Cycle + (z % Cycle)
    BY <1>1, DivMod
  <2>3. y % Cycle = z % Cycle
    BY DEF Name
  <2> QED
    BY <2>1, <2>2, <2>3
<1> HIDE DEF a, b, r
<1>3. a < b
  <2> SUFFICES ASSUME b <= a PROVE FALSE
    BY <1>2
  <2>1. b * Cycle <= a * Cycle /\ b * Cycle \in Nat /\ a * Cycle \in Nat
    BY <1>1, <1>2
  <2> QED
    BY <1>1, <1>2, <2>1
<1>4. a + 1 <= b /\ (a + 1) * Cycle <= b * Cycle /\ (a + 1) * Cycle = a * Cycle + Cycle
  BY <1>1, <1>2, <1>3
<1>5. a * Cycle \in Nat /\ b * Cycle \in Nat
  BY <1>1, <1>2
<1> QED
  BY <1>1, <1>2, <1>4, <1>5

\* So are the minutes of one slot.
LEMMA SlotsRepeat ==
  ASSUME NEW u \in Nat \ {0}, NEW t \in Nat \ {0}, Slot(u) = Slot(t), u < t
  PROVE  u + Cycle * YearLen <= t
<1>1. Cycle \in Nat \ {0} /\ YearLen \in Nat \ {0}
  BY NamesAre
<1>2. PICK y \in Nat, i \in 1..YearLen : Slot(u) = <<Name(y), i>> /\ u = Stamp(y, i)
  BY StampSlot
<1>3. PICK z \in Nat, j \in 1..YearLen : Slot(t) = <<Name(z), j>> /\ t = Stamp(z, j)
  BY StampSlot
<1>4. Name(y) = Name(z) /\ i = j
  <2>1. <<Name(y), i>>[1] = <<Name(z), j>>[1] /\ <<Name(y), i>>[2] = <<Name(z), j>>[2]
    BY <1>2, <1>3
  <2> QED
    BY <2>1
<1>5. y * YearLen \in Nat /\ z * YearLen \in Nat /\ i \in Nat
  BY <1>1
<1>6. u = y * YearLen + i /\ t = z * YearLen + i
  BY <1>2, <1>3, <1>4 DEF Stamp
<1>7. y < z
  <2> SUFFICES ASSUME z <= y PROVE FALSE
    OBVIOUS
  <2>1. z * YearLen <= y * YearLen
    BY <1>1
  <2> QED
    BY <1>5, <1>6, <2>1
<1>8. y + Cycle <= z
  BY <1>4, <1>7, NamesRepeat
<1>9. (y + Cycle) * YearLen <= z * YearLen /\ (y + Cycle) * YearLen = y * YearLen + Cycle * YearLen
  BY <1>1, <1>8
<1>10. Cycle * YearLen \in Nat
  BY <1>1
<1> QED
  BY <1>5, <1>6, <1>9, <1>10

LEMMA ContentStamp ==
  ASSUME NEW f, NEW y \in Nat, NEW i \in 1..YearLen
  PROVE  ContentIn(f, Stamp(y, i))
           = IF i \in DOMAIN f[Name(y)] /\ f[Name(y)][i].t = Stamp(y, i)
             THEN f[Name(y)][i].rain ELSE 0
BY SlotStamp DEF ContentIn

LEMMA ContentNat ==
  ASSUME NEW f, FileType(f), NEW t \in Nat \ {0}
  PROVE  ContentIn(f, t) \in Nat
<1>1. PICK y \in Nat, i \in 1..YearLen : Slot(t) = <<Name(y), i>> /\ Name(y) \in Names
  BY StampSlot, NamesAre
<1> DEFINE n == Name(y)
<1>2. Slot(t)[1] = n /\ Slot(t)[2] = i /\ n \in Names
  BY <1>1
<1> HIDE DEF n
<1>3. i \in DOMAIN f[n] => f[n][i].rain \in Nat
  BY <1>2 DEF FileType
<1> QED
  BY <1>2, <1>3 DEF ContentIn

LEMMA FiledNat ==
  ASSUME NEW f, FileType(f), NEW S \in SUBSET (Nat \ {0}), IsFiniteSet(S)
  PROVE  FiledIn(f, S) \in Nat
<1> DEFINE c == [t \in S |-> ContentIn(f, t)]
<1>1. \A t \in S : c[t] \in Nat
  BY ContentNat
<1>2. FiledIn(f, S) = SumFunctionOnSet(c, S)
  BY DEF FiledIn
<1> HIDE DEF c
<1> QED
  BY <1>1, <1>2, SumNat

LEMMA FiledSame ==
  ASSUME NEW f, NEW g, NEW S, IsFiniteSet(S), \A t \in S : ContentIn(f, t) = ContentIn(g, t)
  PROVE  FiledIn(f, S) = FiledIn(g, S)
<1> DEFINE c == [t \in S |-> ContentIn(f, t)]
           d == [t \in S |-> ContentIn(g, t)]
<1>1. \A t \in S : c[t] = d[t]
  OBVIOUS
<1>2. FiledIn(f, S) = SumFunctionOnSet(c, S) /\ FiledIn(g, S) = SumFunctionOnSet(d, S)
  BY DEF FiledIn
<1> HIDE DEF c, d
<1> QED
  BY <1>1, <1>2, SumSame

LEMMA FiledNone ==
  ASSUME NEW f, NEW S, IsFiniteSet(S), \A t \in S : ContentIn(f, t) = 0
  PROVE  FiledIn(f, S) = 0
<1> DEFINE c == [t \in S |-> ContentIn(f, t)]
<1>1. \A t \in S : c[t] = 0
  OBVIOUS
<1>2. FiledIn(f, S) = SumFunctionOnSet(c, S)
  BY DEF FiledIn
<1> HIDE DEF c
<1> QED
  BY <1>1, <1>2, SumZero

\* A minute more in the archive.
LEMMA FiledMore ==
  ASSUME NEW f, NEW g, FileType(f), FileType(g), NEW S \in SUBSET (Nat \ {0}), IsFiniteSet(S),
         NEW t, ContentIn(f, t) = 0,
         \A u \in S : u # t => ContentIn(f, u) = ContentIn(g, u)
  PROVE  FiledIn(g, S) = FiledIn(f, S) + (IF t \in S THEN ContentIn(g, t) ELSE 0)
<1> DEFINE c == [u \in S |-> ContentIn(f, u)]
           d == [u \in S |-> ContentIn(g, u)]
<1>1. FiledIn(f, S) = SumFunctionOnSet(c, S) /\ FiledIn(g, S) = SumFunctionOnSet(d, S)
  BY DEF FiledIn
<1>2. \A u \in S : c[u] \in Nat /\ d[u] \in Nat /\ (u # t => c[u] = d[u])
  BY ContentNat
<1>3. t \in S => c[t] = 0 /\ d[t] = ContentIn(g, t)
  OBVIOUS
<1>4. FiledIn(f, S) \in Nat
  BY FiledNat
<1> HIDE DEF c, d
<1>5. CASE t \in S
  <2>1. SumFunctionOnSet(c, S) = c[t] + SumFunctionOnSet(c, S \ {t})
        /\ SumFunctionOnSet(c, S \ {t}) \in Nat
    BY <1>2, <1>5, SumTake
  <2>2. SumFunctionOnSet(d, S) = d[t] + SumFunctionOnSet(d, S \ {t})
    BY <1>2, <1>5, SumTake
  <2>3. SumFunctionOnSet(c, S \ {t}) = SumFunctionOnSet(d, S \ {t})
    <3>1. IsFiniteSet(S \ {t}) /\ \A u \in S \ {t} : c[u] = d[u]
      BY <1>2, FS_Subset
    <3> QED
      BY <3>1, SumSame
  <2>4. d[t] \in Nat
    BY <1>2, <1>5
  <2>5. FiledIn(f, S) = SumFunctionOnSet(c, S \ {t})
    BY <1>1, <1>3, <1>5, <2>1
  <2>6. FiledIn(g, S) = d[t] + FiledIn(f, S)
    BY <1>1, <2>2, <2>3, <2>5
  <2>7. d[t] + FiledIn(f, S) = FiledIn(f, S) + d[t]
    BY <1>4, <2>4
  <2> QED
    BY <1>3, <1>5, <2>6, <2>7
<1>6. CASE t \notin S
  <2>1. SumFunctionOnSet(c, S) = SumFunctionOnSet(d, S)
    <3>1. \A u \in S : c[u] = d[u]
      BY <1>2, <1>6
    <3> QED
      BY <3>1, SumSame
  <2> QED
    BY <1>1, <1>4, <1>6, <2>1
<1> QED
  BY <1>5, <1>6

\* Filed is FiledIn of the card.
LEMMA SumsAreTheSame ==
  /\ \A S : Filed(S) = FiledIn(file, S)
  /\ \A S : OnTheWay(S) = Carried(Path, S)
BY DEF Filed, FiledIn, Content, ContentIn, OnTheWay, Carried

\* A card that has lost some slots.
LEMMA WithoutSlots ==
  ASSUME NEW lost, NEW g, g = Without(lost)
  PROVE  /\ DOMAIN g = Names
         /\ \A n \in Names : \A i : i \in DOMAIN g[n] <=> i \in DOMAIN file[n] /\ <<n, i>> \notin lost
         /\ \A n \in Names : \A i \in DOMAIN g[n] : g[n][i] = file[n][i]
BY DEF Without

LEMMA WithoutIs ==
  ASSUME FileType(file), NEW lost, NEW g, g = Without(lost)
  PROVE  /\ FileType(g)
         /\ \A n \in Names : \A i : i \in DOMAIN g[n] <=> i \in DOMAIN file[n] /\ <<n, i>> \notin lost
         /\ \A n \in Names : \A i \in DOMAIN g[n] : g[n][i] = file[n][i]
         /\ \A t \in Nat \ {0} :
              ContentIn(g, t) = IF Slot(t) \in lost THEN 0 ELSE ContentIn(file, t)
<1>1. /\ DOMAIN g = Names
      /\ \A n \in Names : \A i : i \in DOMAIN g[n] <=> i \in DOMAIN file[n] /\ <<n, i>> \notin lost
      /\ \A n \in Names : \A i \in DOMAIN g[n] : g[n][i] = file[n][i]
  BY WithoutSlots
<1>2. FileType(g)
  BY <1>1 DEF FileType
<1>3. ASSUME NEW t \in Nat \ {0}
      PROVE  ContentIn(g, t) = IF Slot(t) \in lost THEN 0 ELSE ContentIn(file, t)
  <2>1. PICK y \in Nat, i \in 1..YearLen : Slot(t) = <<Name(y), i>> /\ Name(y) \in Names
    BY StampSlot, NamesAre
  <2> QED
    BY <1>1, <2>1 DEF ContentIn
<1> QED
  BY <1>1, <1>2, <1>3

LEMMA FiledSplit ==
  ASSUME FileType(file), NEW lost, NEW g, g = Without(lost),
         NEW S \in SUBSET (Nat \ {0}), IsFiniteSet(S)
  PROVE  /\ FiledIn(file, S) = FiledIn(g, S) + FiledIn(file, {m \in S : Slot(m) \in lost})
         /\ FiledIn(g, S) \in Nat
         /\ FiledIn(file, {m \in S : Slot(m) \in lost}) \in Nat
<1> DEFINE D == {m \in S : Slot(m) \in lost}
           c == [t \in S |-> ContentIn(file, t)]
           d == [t \in S |-> ContentIn(g, t)]
           e == [t \in S |-> IF Slot(t) \in lost THEN ContentIn(file, t) ELSE 0]
           h == [t \in D |-> ContentIn(file, t)]
<1>1. FileType(g)
  BY WithoutIs
<1>2. \A t \in S : c[t] \in Nat /\ d[t] \in Nat /\ e[t] \in Nat /\ c[t] = d[t] + e[t]
  <2> TAKE t \in S
  <2>1. ContentIn(file, t) \in Nat /\ ContentIn(g, t) \in Nat
    BY <1>1, ContentNat
  <2>2. ContentIn(g, t) = IF Slot(t) \in lost THEN 0 ELSE ContentIn(file, t)
    BY WithoutIs
  <2> QED
    BY <2>1, <2>2
<1>3. D \in SUBSET S /\ D \in SUBSET (Nat \ {0}) /\ IsFiniteSet(D)
  BY FS_Subset
<1>4. (\A t \in S \ D : e[t] = 0) /\ (\A t \in D : e[t] = h[t])
  OBVIOUS
<1>5. /\ FiledIn(file, S) = SumFunctionOnSet(c, S) /\ FiledIn(g, S) = SumFunctionOnSet(d, S)
      /\ FiledIn(file, D) = SumFunctionOnSet(h, D)
  BY DEF FiledIn
<1>6. FiledIn(g, S) \in Nat /\ FiledIn(file, D) \in Nat
  BY <1>1, <1>3, FiledNat
<1> HIDE DEF c, d, e, h, D
<1>7. SumFunctionOnSet(c, S) = SumFunctionOnSet(d, S) + SumFunctionOnSet(e, S)
  <2>1. PICK T : T = S
    OBVIOUS
  <2>2. /\ IsFiniteSet(T)
        /\ \A x \in T : d[x] \in Nat /\ e[x] \in Nat /\ c[x] = d[x] + e[x]
    BY <1>2, <2>1
  <2>3. SumFunctionOnSet(c, T) = SumFunctionOnSet(d, T) + SumFunctionOnSet(e, T)
    BY <2>2, SumAdd
  <2> QED
    BY <2>1, <2>3
<1>8. SumFunctionOnSet(e, S) = SumFunctionOnSet(e, D)
  BY <1>2, <1>3, <1>4, SumDrop
<1>9. SumFunctionOnSet(e, D) = SumFunctionOnSet(h, D)
  BY <1>3, <1>4, SumSame
<1> QED
  BY <1>5, <1>6, <1>7, <1>8, <1>9 DEF D

-----------------------------------------------------------------------------
(* The invariant is kept by every action                                   *)

LEMMA Figures ==
  ASSUME IInv
  PROVE  /\ Path \in Seq(Record) /\ old \in Nat /\ old >= DayLen /\ old <= LastMinute
         /\ \A S : Carried(Path, S) \in Nat
         /\ min \in Nat /\ rained \in Nat
         /\ \A p \in Periods :
              /\ acc[p] \in Nat /\ missed[p] \in Nat
              /\ Minutes(p, old) \in SUBSET (Nat \ {0}) /\ IsFiniteSet(Minutes(p, old))
              /\ FiledIn(file, Minutes(p, old)) \in Nat
<1>1. /\ held \in Seq(Record) /\ queue \in Seq(Record)
      /\ acc \in [Periods -> Nat] /\ missed \in [Periods -> Nat] /\ FileType(file)
      /\ min \in Nat /\ rained \in 0..MaxRain /\ old \in Nat /\ StartAt <= old
      /\ old <= now /\ now <= LastMinute /\ now \in Nat
  BY DEF IInv, ClockInv, RamInv, CardInv, HistoryInv
<1>2. StartAt \in Nat /\ DayLen < StartAt /\ MaxRain \in Nat /\ LastMinute \in Nat
  BY ConstantsAre
<1>3. old >= DayLen /\ old <= LastMinute /\ rained \in Nat
  BY <1>1, <1>2, Lengths
<1>4. Path \in Seq(Record)
  BY <1>1, PathIs
<1>5. \A S : Carried(Path, S) \in Nat
  BY <1>4, CarriedSets
<1>6. ASSUME NEW p \in Periods
      PROVE  /\ acc[p] \in Nat /\ missed[p] \in Nat
             /\ Minutes(p, old) \in SUBSET (Nat \ {0}) /\ IsFiniteSet(Minutes(p, old))
             /\ FiledIn(file, Minutes(p, old)) \in Nat
  <2>1. Minutes(p, old) \in SUBSET (Nat \ {0}) /\ IsFiniteSet(Minutes(p, old))
    BY <1>1, <1>3, MinutesAre
  <2>2. FiledIn(file, Minutes(p, old)) \in Nat
    BY <1>1, <2>1, FiledNat
  <2> QED
    BY <1>1, <2>1, <2>2
<1> QED
  BY <1>1, <1>3, <1>4, <1>5, <1>6

LEMMA StutterKeeps == IInv /\ UNCHANGED vars => IInv'
<1> SUFFICES ASSUME IInv, UNCHANGED vars PROVE IInv'
  OBVIOUS
<1> USE DEF vars, ram, card, books, bounds
<1>1. Path' = Path
  BY DEF Path
<1>2. ClockInv' /\ RamInv' /\ CardInv' /\ MenuInv' /\ HistoryInv' /\ IdleInv'
  BY DEF IInv, ClockInv, RamInv, CardInv, MenuInv, HistoryInv, IdleInv
<1>3. PathInv' /\ FileInv' /\ RainInv'
  BY <1>1 DEF IInv, PathInv, FileInv, RainInv
<1>4. RestoredInv' /\ BooksInv'
  BY <1>1 DEF IInv, RestoredInv, BooksInv, Made
<1> QED
  BY <1>2, <1>3, <1>4 DEF IInv

LEMMA ClockKeeps == IInv /\ Clock => IInv'
<1> SUFFICES ASSUME IInv, Clock PROVE IInv'
  OBVIOUS
<1> USE DEF Clock, ram, card, books, bounds
<1>1. Path' = Path
  BY DEF Path
<1>2. ClockInv'
  BY ConstantsAre DEF IInv, ClockInv
<1>3. RamInv' /\ CardInv' /\ MenuInv' /\ HistoryInv' /\ IdleInv'
  BY DEF IInv, RamInv, CardInv, MenuInv, HistoryInv, IdleInv
<1>4. PathInv' /\ FileInv' /\ RainInv'
  BY <1>1 DEF IInv, PathInv, FileInv, RainInv
<1>5. RestoredInv' /\ BooksInv'
  BY <1>1 DEF IInv, RestoredInv, BooksInv, Made
<1> QED
  BY <1>2, <1>3, <1>4, <1>5 DEF IInv

LEMMA LogTakeKeeps == IInv /\ LogTake => IInv'
<1> SUFFICES ASSUME IInv, LogTake PROVE IInv'
  OBVIOUS
<1> USE DEF LogTake, card, books, bounds
<1>1. queue \in Seq(Record) /\ queue # <<>> /\ Len(queue) <= QueueLen
  BY DEF IInv, RamInv
<1>2. /\ Head(queue) \in Record /\ Tail(queue) \in Seq(Record)
      /\ Len(Tail(queue)) = Len(queue) - 1 /\ Len(queue) \in Nat
  BY <1>1
<1>3. Path' = Path
  BY <1>1, PathTaken DEF Path
<1>4. ClockInv' /\ CardInv' /\ MenuInv' /\ HistoryInv' /\ IdleInv'
  BY <1>1 DEF IInv, ClockInv, CardInv, MenuInv, HistoryInv, IdleInv
<1>5. RamInv'
  <2>1. held' \in Seq(Record) /\ Len(held') = 1
    BY <1>2
  <2>2. queue' \in Seq(Record) /\ Len(queue') <= QueueLen
    BY <1>1, <1>2, ConstantsAre
  <2> QED
    BY <2>1, <2>2 DEF IInv, RamInv
<1>6. PathInv' /\ FileInv' /\ RainInv'
  BY <1>3 DEF IInv, PathInv, FileInv, RainInv
<1>7. RestoredInv' /\ BooksInv'
  BY <1>3 DEF IInv, RestoredInv, BooksInv, Made
<1> QED
  BY <1>4, <1>5, <1>6, <1>7 DEF IInv

LEMMA SecProcessKeeps == IInv /\ SecProcess => IInv'
<1> SUFFICES ASSUME IInv, SecProcess PROVE IInv'
  OBVIOUS
<1> USE DEF SecProcess, card, books
<1>1. Path' = Path
  BY DEF Path
<1>2. ClockInv' /\ CardInv' /\ MenuInv'
  BY DEF IInv, ClockInv, CardInv, MenuInv
<1>3. RamInv' /\ HistoryInv' /\ IdleInv'
  <2>1. rained' \in 0..MaxRain
    BY ConstantsAre DEF IInv, HistoryInv
  <2> QED
    BY <2>1 DEF IInv, RamInv, HistoryInv, IdleInv
<1>4. PathInv' /\ FileInv'
  BY <1>1 DEF IInv, PathInv, FileInv
<1>5. RainInv'
  BY Figures DEF IInv, RainInv
<1>6. RestoredInv'
  BY DEF RestoredInv
<1>7. BooksInv'
  <2>1. ASSUME NEW p \in Periods, whole[p]
        PROVE  acc'[p] = Made(p)'
    <3>1. acc[p] = Made(p)
      BY <2>1 DEF IInv, BooksInv
    <3>2. acc'[p] = IF p \in Running THEN acc[p] + 1 ELSE acc[p]
      OBVIOUS
    <3>3. p # "yesterday" <=> p \in Running
      BY DEF Periods, Running
    <3>4. PICK a, b, c \in Nat : /\ a = FiledIn(file, Minutes(p, old))
                               /\ b = Carried(Path, Minutes(p, old)) /\ c = missed[p]
      BY Figures
    <3>5. Made(p) = a + b + c + (IF p = "yesterday" THEN 0 ELSE min)
      BY <3>4 DEF Made
    <3>6. Made(p)' = a + b + c + (IF p = "yesterday" THEN 0 ELSE min + 1)
      BY <1>1, <3>4 DEF Made
    <3>7. min \in Nat
      BY Figures
    <3> QED
      BY <3>1, <3>2, <3>3, <3>5, <3>6, <3>7
  <2> QED
    BY <2>1 DEF BooksInv
<1> QED
  BY <1>2, <1>3, <1>4, <1>5, <1>6, <1>7 DEF IInv

\* The records that are left are in their slots still.
LEMMA FileLess ==
  ASSUME IInv, NEW lost, file' = Without(lost), old' \in Nat, old <= old',
         Path' # <<>> => /\ Path # <<>> /\ Path[1].t \in Nat /\ Path'[1].t \in Nat
                         /\ Path[1].t <= Path'[1].t
  PROVE  FileInv'
<1>1. FileType(file) /\ old \in Nat
  BY DEF IInv, CardInv, ClockInv
<1>3. \A m \in Names : \A j \in DOMAIN file'[m] :
         j \in DOMAIN file[m] /\ file'[m][j] = file[m][j]
  <2> DEFINE g == file'
  <2>1. g = Without(lost)
    OBVIOUS
  <2> HIDE DEF g
  <2>2. ASSUME NEW m \in Names, NEW j \in DOMAIN g[m]
        PROVE  j \in DOMAIN file[m] /\ g[m][j] = file[m][j]
    <3>1. \A o \in Names : /\ \A i : i \in DOMAIN g[o] <=> i \in DOMAIN file[o] /\ <<o, i>> \notin lost
                           /\ \A i \in DOMAIN g[o] : g[o][i] = file[o][i]
      BY <2>1, WithoutSlots
    <3> QED
      BY <3>1
  <2> QED
    BY <2>2 DEF g
<1>2. ASSUME NEW n \in Names, NEW i \in DOMAIN file'[n], file'[n][i].t > 0
      PROVE  /\ Slot(file'[n][i].t) = <<n, i>> /\ file'[n][i].t <= old'
             /\ Path' # <<>> => file'[n][i].t < Path'[1].t
  <2>1. i \in DOMAIN file[n] /\ file'[n][i] = file[n][i]
    BY <1>3
  <2>2. file[n][i].t \in Nat
    BY <1>1, <2>1 DEF FileType
  <2>3. /\ Slot(file[n][i].t) = <<n, i>> /\ file[n][i].t <= old
        /\ Path # <<>> => file[n][i].t < Path[1].t
    BY <1>2, <2>1 DEF IInv, FileInv
  <2> DEFINE t == file[n][i].t
  <2>4. t \in Nat /\ t <= old /\ (Path # <<>> => t < Path[1].t)
    BY <2>2, <2>3
  <2> HIDE DEF t
  <2>5. t <= old' /\ (Path' # <<>> => t < Path'[1].t)
    BY <1>1, <2>4
  <2> QED
    BY <2>1, <2>3, <2>5 DEF t
<1> QED
  BY <1>2 DEF FileInv

LEMMA CardLess ==
  ASSUME CardInv, NEW lost, file' = Without(lost), fileLen' = fileLen
  PROVE  CardInv'
BY WithoutIs DEF CardInv

LEMMA PowerLossKeeps == IInv /\ PowerLoss => IInv'
<1> SUFFICES ASSUME IInv, PowerLoss PROVE IInv'
  OBVIOUS
<1> USE DEF PowerLoss, card
<1>1. Path' = <<>>
  BY DEF Path
<1>2. ClockInv' /\ old' >= old /\ old' \in Nat /\ old \in Nat
  <2>1. /\ now \in Nat /\ StartAt <= now /\ now <= LastMinute /\ old <= now /\ old \in Nat
        /\ MaxOutage \in Nat /\ LastMinute \in Nat /\ StartAt \in Nat
    BY ConstantsAre DEF IInv, ClockInv
  <2>2. now' \in Nat /\ now <= now' /\ now' <= LastMinute
    BY <2>1
  <2> QED
    BY <2>1, <2>2 DEF ClockInv
<1>3. MenuInv' /\ IdleInv' /\ BooksInv' /\ RestoredInv' /\ PathInv'
  BY <1>1 DEF IInv, MenuInv, IdleInv, BooksInv, RestoredInv, PathInv
<1>4. RamInv'
  <2>1. <<>> \in Seq(Record) /\ Len(<<>>) = 0 /\ QueueLen >= 0
    BY ConstantsAre
  <2>2. report' \in [{"ten", "hour", "day"} -> Nat]
    BY DEF IInv, RamInv
  <2> QED
    BY <2>1, <2>2 DEF RamInv
<1>5. HistoryInv'
  BY ConstantsAre DEF IInv, HistoryInv
<1>6. CardInv' /\ FileInv'
  BY <1>1, <1>2, CardLess, FileLess DEF IInv
<1>7. RainInv'
  BY Figures DEF RainInv
<1> QED
  BY <1>2, <1>3, <1>4, <1>5, <1>6, <1>7 DEF IInv

LEMMA AwsStartKeeps == IInv /\ AwsStart => IInv'
<1> SUFFICES ASSUME IInv, AwsStart PROVE IInv'
  OBVIOUS
<1> USE DEF AwsStart, card, bounds
<1>1. Path' = <<>> /\ Path = <<>> /\ min = 0 /\ (\A p \in Periods : missed[p] = 0)
  BY DEF Path, IInv, IdleInv
<1>2. ClockInv' /\ old' >= old /\ old' \in Nat /\ old \in Nat
  BY ConstantsAre DEF IInv, ClockInv
<1>3. CardInv' /\ MenuInv' /\ RamInv' /\ IdleInv' /\ RestoredInv' /\ PathInv' /\ RainInv'
  BY <1>1 DEF IInv, CardInv, MenuInv, RamInv, IdleInv, RestoredInv, PathInv, RainInv
<1>4. HistoryInv'
  BY DEF IInv, HistoryInv
<1>5. FileInv'
  <2>1. ASSUME NEW n \in Names, NEW i \in DOMAIN file[n], file[n][i].t > 0
        PROVE  Slot(file[n][i].t) = <<n, i>> /\ file[n][i].t <= old'
    <3>1. Slot(file[n][i].t) = <<n, i>> /\ file[n][i].t <= old
      BY <2>1 DEF IInv, FileInv
    <3>2. file[n][i].t \in Nat
      BY DEF IInv, CardInv, FileType
    <3> QED
      BY <1>2, <3>1, <3>2
  <2> QED
    BY <1>1, <2>1 DEF FileInv
<1>6. BooksInv'
  <2>1. ASSUME NEW p \in Periods, whole'[p]
        PROVE  acc'[p] = Made(p)'
    <3>1. whole[p] /\ Begin(p, readAt) = Begin(p, now)
      BY <2>1
    <3>2. acc[p] = FiledIn(file, Minutes(p, readAt))
      BY <3>1 DEF IInv, RestoredInv
    <3>3. Minutes(p, readAt) = Minutes(p, now)
      BY <3>1 DEF Minutes
    <3>4. Carried(<<>>, Minutes(p, now)) = 0
      BY CarriedEmpty
    <3>5. Made(p)' = FiledIn(file, Minutes(p, now)) + 0 + 0 + 0
      BY <1>1, <3>4 DEF Made
    <3>6. acc[p] \in Nat
      BY Figures
    <3> QED
      BY <3>2, <3>3, <3>5, <3>6
  <2> QED
    BY <2>1 DEF BooksInv
<1> QED
  BY <1>2, <1>3, <1>4, <1>5, <1>6 DEF IInv

\* The record that loggingTask holds is the oldest.
LEMMA Oldest ==
  ASSUME IInv, held # <<>>
  PROVE  /\ Path # <<>> /\ Path[1] = held[1] /\ held[1] \in Record /\ pc = "run"
         /\ <<>> \o queue = Tail(Path) /\ Tail(Path) \in Seq(Record)
         /\ StartAt <= held[1].t /\ held[1].t <= old
         /\ \A i \in DOMAIN Tail(Path) :
              /\ StartAt <= Tail(Path)[i].t /\ Tail(Path)[i].t <= old /\ held[1].t < Tail(Path)[i].t
              /\ \A j \in DOMAIN Tail(Path) : i < j => Tail(Path)[i].t < Tail(Path)[j].t
<1>1. held \in Seq(Record) /\ queue \in Seq(Record) /\ Len(held) <= 1 /\ Path \in Seq(Record)
  BY Figures DEF IInv, RamInv
<1>2. Path # <<>> /\ Path[1] = held[1] /\ <<>> \o queue = Tail(Path)
  BY <1>1, PathDropped
<1>3. /\ Len(Path) \in Nat /\ Len(Path) >= 1 /\ DOMAIN Path = 1..Len(Path)
      /\ Tail(Path) \in Seq(Record) /\ Path[1] \in Record
  BY <1>1, <1>2
<1>4. ASSUME NEW i \in DOMAIN Tail(Path)
      PROVE  i \in Nat \ {0} /\ i + 1 \in DOMAIN Path /\ Tail(Path)[i] = Path[i + 1]
  BY <1>1, <1>2, <1>3
<1>5. 1 \in DOMAIN Path
  BY <1>3
<1>6. pc = "run"
  BY DEF IInv, ClockInv, IdleInv
<1>7. ASSUME NEW i \in DOMAIN Tail(Path)
      PROVE  /\ StartAt <= Tail(Path)[i].t /\ Tail(Path)[i].t <= old
             /\ held[1].t < Tail(Path)[i].t
             /\ \A j \in DOMAIN Tail(Path) : i < j => Tail(Path)[i].t < Tail(Path)[j].t
  <2>1. StartAt <= Path[i + 1].t /\ Path[i + 1].t <= old /\ Path[1].t < Path[i + 1].t
    BY <1>4, <1>5 DEF IInv, PathInv
  <2>2. ASSUME NEW j \in DOMAIN Tail(Path), i < j
        PROVE  Path[i + 1].t < Path[j + 1].t
    <3>1. i + 1 \in DOMAIN Path /\ j + 1 \in DOMAIN Path /\ i + 1 < j + 1
      BY <1>4, <2>2
    <3> QED
      BY <3>1 DEF IInv, PathInv
  <2> QED
    BY <1>2, <1>4, <2>1, <2>2
<1>8. StartAt <= Path[1].t /\ Path[1].t <= old
  BY <1>5 DEF IInv, PathInv
<1> QED
  BY <1>2, <1>3, <1>6, <1>7, <1>8

\* The slots that lose their contents take their rain out of the archive.
LEMMA FiledLess ==
  ASSUME IInv, NEW lost, file' = Without(lost), NEW p \in Periods
  PROVE  LET S == Minutes(p, old)
             D == {m \in S : Slot(m) \in lost}
         IN  /\ FiledIn(file, S) = FiledIn(file', S) + FiledIn(file, D)
             /\ FiledIn(file, D) \in Nat /\ FiledIn(file', S) \in Nat
<1> DEFINE S == Minutes(p, old)
           g == file'
           D == {m \in S : Slot(m) \in lost}
<1>1. FileType(file) /\ g = Without(lost)
  BY DEF IInv, CardInv
<1>2. S \in SUBSET (Nat \ {0}) /\ IsFiniteSet(S)
  BY Figures
<1> HIDE DEF S, g
<1>3. /\ FiledIn(file, S) = FiledIn(g, S) + FiledIn(file, D)
      /\ FiledIn(g, S) \in Nat
      /\ FiledIn(file, D) \in Nat
  BY <1>1, <1>2, FiledSplit
<1> QED
  BY <1>3 DEF S, g

LEMMA ErrorsWithin ==
  ASSUME HistoryInv
  PROVE  /\ sdErrors' \in {sdErrors, sdErrors + 1} /\ sdErrors' <= MaxSdErrors
              => sdErrors' \in 0..MaxSdErrors
         /\ sdErrors < MaxSdErrors /\ sdErrors' = sdErrors + 1
              => sdErrors' \in 0..MaxSdErrors
<1>1. MaxSdErrors \in Nat /\ sdErrors \in 0..MaxSdErrors
  BY ConstantsAre DEF HistoryInv
<1> QED
  BY <1>1

\* A failed write leaves the file as long as it was, or makes it reach its slot.
LEMMA FailedLength ==
  ASSUME IInv, LogFail
  PROVE  /\ DOMAIN fileLen' = Names
         /\ \A n \in Names :
              /\ fileLen[n] \in 0..MaxYearLen + 1 /\ fileLen'[n] \in 0..MaxYearLen + 1
              /\ fileLen[n] <= fileLen'[n]
              /\ fileLen'[n] = fileLen[n] \/ fileLen'[n] <= YearLen
<1>1. DOMAIN fileLen = Names /\ \A n \in Names : fileLen[n] \in 0..MaxYearLen + 1
  BY DEF IInv, CardInv
<1>2. held[1].t \in Nat \ {0}
  BY Oldest DEF LogFail, Record
<1>3. PICK y \in Nat, i \in 1..YearLen : Slot(held[1].t) = <<Name(y), i>>
  BY <1>2, StampSlot
<1>4. fileLen' \in {fileLen, [fileLen EXCEPT ![Name(y)] = IF @ > i THEN @ ELSE i]}
  BY <1>3 DEF LogFail
<1>5. YearLen \in Nat /\ MaxYearLen \in Nat /\ YearLen <= MaxYearLen
  BY Lengths, ConstantsAre
<1>6. DOMAIN fileLen' = Names
  BY <1>1, <1>4
<1>7. ASSUME NEW n \in Names
      PROVE  fileLen'[n] = fileLen[n] \/ (fileLen[n] <= i /\ fileLen'[n] = i)
  <2>1. fileLen[n] \in Nat
    BY <1>1
  <2> QED
    BY <1>1, <1>4, <2>1
<1> QED
  BY <1>1, <1>5, <1>6, <1>7

LEMMA LogFailKeeps == IInv /\ LogFail => IInv'
<1> SUFFICES ASSUME IInv, LogFail PROVE IInv'
  OBVIOUS
<1> USE DEF LogFail, card
<1>1. Path' = Tail(Path)
  BY Oldest DEF Path
<1> DEFINE t == held[1].t
           v == held[1].rain
<1>2. t \in 1..LastMinute /\ v \in Nat /\ t \in Nat
  <2>1. t \in 1..LastMinute /\ v \in Nat
    BY Oldest DEF Record
  <2> HIDE DEF t
  <2> QED
    BY <2>1
<1>3. PICK lost \in Damage :
         /\ file' = Without(lost)
         /\ missed' = [p \in Periods |->
                          Credited(missed, t, old, v)[p]
                            + Filed({m \in Minutes(p, old) : Slot(m) \in lost})]
  OBVIOUS
<1> DEFINE D(p) == {m \in Minutes(p, old) : Slot(m) \in lost}
<1>4. ClockInv' /\ MenuInv' /\ RestoredInv' /\ RamInv' /\ IdleInv' /\ PathInv'
  <2>1. ClockInv' /\ MenuInv' /\ RestoredInv'
    BY Oldest DEF IInv, ClockInv, MenuInv, RestoredInv
  <2>2. <<>> \in Seq(Record) /\ Len(<<>>) = 0
    OBVIOUS
  <2> QED
    BY <1>1, <2>1, <2>2, Oldest DEF IInv, RamInv, IdleInv, PathInv
<1>5. ASSUME NEW p \in Periods
      PROVE  /\ missed'[p] = missed[p] + (IF t \in Minutes(p, old) THEN v ELSE 0)
                               + FiledIn(file, D(p))
             /\ FiledIn(file, Minutes(p, old)) = FiledIn(file', Minutes(p, old))
                                                   + FiledIn(file, D(p))
             /\ FiledIn(file, D(p)) \in Nat /\ FiledIn(file', Minutes(p, old)) \in Nat
  <2> DEFINE S == Minutes(p, old)
  <2>2. missed[p] \in Nat
    BY Figures
  <2>3. /\ FiledIn(file, S) = FiledIn(file', S) + FiledIn(file, D(p))
        /\ FiledIn(file', S) \in Nat /\ FiledIn(file, D(p)) \in Nat
    BY <1>3, FiledLess
  <2> HIDE DEF S
  <2>4. Credited(missed, t, old, v)[p] = missed[p] + (IF t \in S THEN v ELSE 0)
    BY <2>2 DEF Credited, S
  <2>5. missed'[p] = Credited(missed, t, old, v)[p] + FiledIn(file, D(p))
    BY <1>3, SumsAreTheSame
  <2> QED
    BY <2>3, <2>4, <2>5 DEF S
<1> HIDE DEF D
<1>6. HistoryInv'
  <2>1. sdErrors' \in 0..MaxSdErrors
    BY ErrorsWithin DEF IInv
  <2>2. missed' \in [Periods -> Nat]
    <3>3. \A p \in Periods : missed[p] \in Nat
      BY Figures
    <3> HIDE DEF LogFail, t, v
    <3>2. ASSUME NEW p \in Periods PROVE missed'[p] \in Nat
      <4>1. PICK x, y, z \in Nat : /\ x = missed[p] /\ z = FiledIn(file, D(p))
                                  /\ y = IF t \in Minutes(p, old) THEN v ELSE 0
        BY <1>2, <1>5, <3>3
      <4>2. missed'[p] = x + y + z
        BY <1>5, <4>1
      <4> QED
        BY <4>2
    <3>1. PICK f : missed' = [p \in Periods |-> f[p]]
      BY <1>3
    <3> QED
      BY <3>1, <3>2
  <2> QED
    BY <2>1, <2>2 DEF IInv, HistoryInv
<1>7. CardInv' /\ FileInv'
  <2>1. CardInv'
    <3>1. /\ FileType(file')
          /\ \A n \in Names : \A i \in DOMAIN file'[n] : i \in DOMAIN file[n]
      BY <1>3, WithoutIs DEF IInv, CardInv
    <3>2. /\ DOMAIN fileLen' = Names
          /\ \A n \in Names : /\ fileLen[n] \in Nat /\ fileLen'[n] \in 0..MaxYearLen + 1
                               /\ fileLen[n] <= fileLen'[n]
      BY FailedLength
    <3>3. \A n \in Names : \A i \in DOMAIN file[n] : i \in Nat /\ i < fileLen[n]
      BY DEF IInv, CardInv, FileType
    <3>4. ASSUME NEW n \in Names, NEW i \in DOMAIN file'[n] PROVE i < fileLen'[n]
      <4>1. i \in Nat /\ i < fileLen[n] /\ fileLen[n] \in Nat /\ fileLen[n] <= fileLen'[n]
            /\ fileLen'[n] \in 0..MaxYearLen + 1
        BY <3>1, <3>2, <3>3
      <4>2. MaxYearLen \in Nat
        BY ConstantsAre
      <4> QED
        BY <4>1, <4>2
    <3> QED
      BY <3>1, <3>2, <3>4 DEF CardInv
  <2>2. Path[1].t \in Nat /\ old \in Nat /\ old' = old
    BY <1>2, Oldest, Figures
  <2>3. ASSUME Path' # <<>>
        PROVE  Path # <<>> /\ Path'[1].t \in Nat /\ Path[1].t <= Path'[1].t
    <3>1. /\ Path # <<>> /\ Path[1] = held[1] /\ Tail(Path) \in Seq(Record)
          /\ \A i \in DOMAIN Tail(Path) : held[1].t < Tail(Path)[i].t
      BY Oldest
    <3> HIDE DEF LogFail
    <3>2. PICK z : z = Tail(Path)
      OBVIOUS
    <3>3. 1 \in DOMAIN z /\ z[1] \in Record /\ t < z[1].t
      BY <1>1, <2>3, <3>1, <3>2
    <3>4. z[1].t \in Nat
      BY <3>3 DEF Record
    <3> QED
      BY <1>1, <1>2, <3>1, <3>2, <3>3, <3>4
  <2> QED
    BY <1>3, <2>1, <2>2, <2>3, FileLess
<1>8. \A S : /\ Carried(Path, S) = (IF t \in S THEN v ELSE 0) + Carried(Tail(Path), S)
             /\ Carried(Tail(Path), S) \in Nat
  <2> TAKE S
  <2> QED
    BY Oldest, CarriedTail, Figures
<1>9. RainInv'
  BY DEF IInv, RainInv
<1>10. BooksInv'
  <2>1. ASSUME NEW p \in Periods, whole[p]
        PROVE  acc[p] = Made(p)'
    <3>1. acc[p] = Made(p)
      BY <2>1, Oldest DEF IInv, BooksInv
    <3>2. PICK a, c, m, b, d \in Nat : /\ a = FiledIn(file', Minutes(p, old))
                                       /\ b = Carried(Tail(Path), Minutes(p, old))
                                       /\ c = missed[p] /\ m = IF p = "yesterday" THEN 0 ELSE min
                                       /\ d = FiledIn(file, D(p))
      BY <1>5, <1>8, Figures
    <3>3. PICK x \in Nat : x = IF t \in Minutes(p, old) THEN v ELSE 0
      BY <1>2
    <3>4. /\ Carried(Path, Minutes(p, old)) = x + b /\ missed'[p] = c + x + d
          /\ FiledIn(file, Minutes(p, old)) = a + d
      BY <1>5, <1>8, <3>2, <3>3
    <3>5. Made(p) = (a + d) + (x + b) + c + m
      BY <3>2, <3>4 DEF Made
    <3>6. Made(p)' = a + b + (c + x + d) + m
      BY <1>1, <3>2, <3>4 DEF Made
    <3> QED
      BY <3>1, <3>5, <3>6
  <2> QED
    BY <2>1 DEF BooksInv
<1> QED
  BY <1>4, <1>6, <1>7, <1>9, <1>10 DEF IInv

\* A minute of a period is not a cycle of years old.
LEMMA Recent ==
  ASSUME NEW p \in Periods, NEW t \in Nat, t >= DayLen, NEW m \in Minutes(p, t)
  PROVE  t < m + Cycle * YearLen
<1>1. /\ Cycle \in Nat \ {0} /\ YearLen \in Nat \ {0} /\ Cycle * YearLen \in Nat
      /\ DayLen \in Nat \ {0} /\ MonthLen \in Nat \ {0} /\ "day" \in Periods
  BY NamesAre, Lengths DEF Periods, Running
<1>2. YearLen <= Cycle * YearLen
  BY <1>1
<1>3. 2 * DayLen <= YearLen /\ Length[p] <= YearLen
  <2>1. PICK k \in Nat \ {0} : MonthLen = k * DayLen /\ k >= 2
    BY Lengths, Multiple
  <2>2. 2 * DayLen <= k * DayLen
    BY <1>1, <2>1
  <2>3. HourLen <= DayLen /\ TenLen <= HourLen
    <3>5. TenLen \in Nat \ {0} /\ HourLen \in Nat \ {0} /\ HourLen % TenLen = 0
      BY ConstantsAre
    <3>1. PICK l \in Nat \ {0} : HourLen = l * TenLen /\ (HourLen > TenLen => l >= 2)
      BY <3>5, Multiple
    <3>2. l - 1 \in Nat /\ TenLen \in Nat /\ (l - 1) * TenLen \in Nat
      BY <3>1, Lengths
    <3>4. l * TenLen = (l - 1) * TenLen + TenLen
      BY <3>1, <3>2
    <3> QED
      BY <3>1, <3>2, <3>4, Lengths
  <2>4. p \in {"ten", "hour", "day", "month", "year", "yesterday"}
    BY DEF Periods, Running
  <2>5. Length[p] \in {TenLen, HourLen, DayLen, MonthLen, YearLen}
    BY <2>4, Lengths
  <2>6. /\ TenLen \in Nat /\ HourLen \in Nat /\ MonthLen < YearLen /\ DayLen < MonthLen
    BY Lengths
  <2> QED
    BY <1>1, <2>1, <2>2, <2>3, <2>5, <2>6
<1>4. m \in Nat
  BY MinutesAre
<1>5. CASE p # "yesterday"
  <2>1. Begin(p, t) < m /\ Begin(p, t) \in Nat /\ t < Begin(p, t) + Length[p]
        /\ Length[p] \in Nat
    BY <1>4, <1>5, MinutesAre, BeginIs
  <2> QED
    BY <1>1, <1>2, <1>3, <1>4, <2>1
<1>6. CASE p = "yesterday"
  <2>1. Begin("day", t) - DayLen < m
    BY <1>4, <1>6, MinutesAre
  <2>2. Begin("day", t) \in Nat /\ t < Begin("day", t) + DayLen
    BY <1>1, BeginIs, Lengths
  <2> QED
    BY <1>1, <1>2, <1>3, <1>4, <2>1, <2>2
<1> QED
  BY <1>5, <1>6

\* One slot written.
PutIn(f, n, i, r) ==
  [f EXCEPT ![n] = [k \in DOMAIN @ \cup {i} |-> IF k = i THEN r ELSE @[k]]]

LEMMA FileWritten ==
  ASSUME NEW f, FileType(f), NEW y \in Nat, NEW i \in 1..YearLen,
         NEW r \in [t : Nat, rain : Nat], r.t = Stamp(y, i),
         NEW g, g = PutIn(f, Name(y), i, r)
  PROVE  /\ FileType(g)
         /\ i \in DOMAIN g[Name(y)] /\ g[Name(y)][i] = r
         /\ \A z \in Names : \A j :
              (z # Name(y) \/ j # i) => /\ j \in DOMAIN g[z] <=> j \in DOMAIN f[z]
                                        /\ j \in DOMAIN f[z] => g[z][j] = f[z][j]
         /\ ContentIn(g, r.t) = r.rain
         /\ \A u \in Nat \ {0} : Slot(u) # Slot(r.t) => ContentIn(f, u) = ContentIn(g, u)
<1> DEFINE n == Name(y)
<1>1. n \in Names /\ DOMAIN f = Names /\ DOMAIN g = Names
  BY NamesAre DEF FileType, PutIn
<1> HIDE DEF n
<1>2. g[n] = [k \in DOMAIN f[n] \cup {i} |-> IF k = i THEN r ELSE f[n][k]]
  BY <1>1 DEF PutIn, n
<1>3. \A z \in Names : z # n => g[z] = f[z]
  BY <1>1 DEF PutIn, n
<1>4. i \in DOMAIN g[n] /\ g[n][i] = r
  BY <1>2
<1>5. ASSUME NEW z \in Names, NEW j, z # n \/ j # i
      PROVE  /\ j \in DOMAIN g[z] <=> j \in DOMAIN f[z]
             /\ j \in DOMAIN f[z] => g[z][j] = f[z][j]
  BY <1>2, <1>3, <1>5
<1>6. FileType(g)
  BY <1>1, <1>2, <1>3 DEF FileType
<1>7. ContentIn(g, r.t) = r.rain
  BY <1>4, ContentStamp DEF n
<1>8. ASSUME NEW u \in Nat \ {0}, Slot(u) # Slot(r.t)
      PROVE  ContentIn(f, u) = ContentIn(g, u)
  <2>1. PICK z \in Nat, j \in 1..YearLen : Slot(u) = <<Name(z), j>> /\ Name(z) \in Names
    BY StampSlot, NamesAre
  <2>2. Slot(r.t) = <<n, i>>
    BY SlotStamp DEF n
  <2>3. Name(z) # n \/ j # i
    BY <1>8, <2>1, <2>2
  <2> QED
    BY <1>5, <2>1, <2>3 DEF ContentIn
<1> QED
  BY <1>4, <1>5, <1>6, <1>7, <1>8 DEF n

LEMMA LogWriteKeeps == IInv /\ LogWrite => IInv'
<1> SUFFICES ASSUME IInv, LogWrite PROVE IInv'
  OBVIOUS
<1> USE DEF LogWrite, books, bounds
<1> DEFINE r == held[1]
<1>1. Path' = Tail(Path) /\ Tail(Path) \in Seq(Record) /\ Path[1] = r /\ Path # <<>>
  BY Oldest DEF Path
<1>2. /\ r \in [t : Nat, rain : Nat] /\ r.t \in Nat \ {0} /\ r.rain \in Nat
      /\ r.t <= old /\ pc = "run"
  BY Oldest DEF Record
<1>3. PICK y \in Nat, i \in 1..YearLen : Slot(r.t) = <<Name(y), i>> /\ r.t = Stamp(y, i)
  BY <1>2, StampSlot
<1> DEFINE n == Name(y)
<1>4. n \in Names
  BY NamesAre
<1>5. /\ file' = [file EXCEPT ![n] = [k \in DOMAIN @ \cup {i} |-> IF k = i THEN r ELSE @[k]]]
      /\ fileLen' = [fileLen EXCEPT ![n] = IF @ > i THEN @ ELSE i + 1]
  BY <1>3 DEF Written
<1>6. FileType(file)
  BY DEF IInv, CardInv
<1>7. /\ FileType(file')
      /\ i \in DOMAIN file'[n] /\ file'[n][i] = r
      /\ \A z \in Names : \A j :
           (z # n \/ j # i) => /\ j \in DOMAIN file'[z] <=> j \in DOMAIN file[z]
                               /\ j \in DOMAIN file[z] => file'[z][j] = file[z][j]
      /\ ContentIn(file', r.t) = r.rain
      /\ \A u \in Nat \ {0} : Slot(u) # Slot(r.t) => ContentIn(file, u) = ContentIn(file', u)
  <2> HIDE DEF r, LogWrite
  <2> DEFINE g == file'
  <2>1. g = PutIn(file, Name(y), i, r)
    BY <1>5 DEF PutIn
  <2> HIDE DEF g
  <2>2. /\ FileType(g)
        /\ i \in DOMAIN g[Name(y)] /\ g[Name(y)][i] = r
        /\ \A z \in Names : \A j :
             (z # Name(y) \/ j # i) => /\ j \in DOMAIN g[z] <=> j \in DOMAIN file[z]
                                       /\ j \in DOMAIN file[z] => g[z][j] = file[z][j]
        /\ ContentIn(g, r.t) = r.rain
        /\ \A u \in Nat \ {0} : Slot(u) # Slot(r.t) => ContentIn(file, u) = ContentIn(g, u)
    BY <1>2, <1>3, <1>6, <2>1, FileWritten
  <2> QED
    BY <2>2 DEF g
<1> HIDE DEF n, r
<1>8. /\ DOMAIN fileLen' = Names
      /\ \A z \in Names : z # n => fileLen'[z] = fileLen[z]
      /\ fileLen'[n] = IF fileLen[n] > i THEN fileLen[n] ELSE i + 1
  BY <1>4, <1>5 DEF IInv, CardInv
<1>9. ClockInv' /\ MenuInv' /\ HistoryInv' /\ RestoredInv' /\ RainInv'
  <2>1. sdErrors' \in 0..MaxSdErrors
    BY ErrorsWithin DEF IInv
  <2> QED
    BY <1>2, <2>1 DEF IInv, ClockInv, MenuInv, HistoryInv, RestoredInv, RainInv
<1>10. RamInv' /\ IdleInv' /\ PathInv'
  <2>1. <<>> \in Seq(Record) /\ Len(<<>>) = 0
    OBVIOUS
  <2> QED
    BY SMTT(30), <1>1, <2>1, Oldest DEF IInv, RamInv, IdleInv, PathInv
<1>11. CardInv'
  <2>1. ASSUME NEW z \in Names
        PROVE  fileLen'[z] \in 0..MaxYearLen + 1 /\ \A j \in DOMAIN file'[z] : j < fileLen'[z]
    <3>1. fileLen[z] \in 0..MaxYearLen + 1 /\ \A j \in DOMAIN file[z] : j < fileLen[z]
      BY DEF IInv, CardInv
    <3>2. CASE z # n
      BY <1>7, <1>8, <3>1, <3>2
    <3>3. CASE z = n
      <4>1. fileLen'[n] \in 0..MaxYearLen + 1 /\ i < fileLen'[n] /\ fileLen[n] <= fileLen'[n]
        <5>1. YearLen \in Nat /\ MaxYearLen \in Nat /\ YearLen <= MaxYearLen
          BY Lengths, ConstantsAre
        <5> QED
          BY <1>8, <3>1, <3>3, <5>1
      <4>2. ASSUME NEW j \in DOMAIN file'[n] PROVE j < fileLen'[n]
        <5>1. CASE j = i
          BY <4>1, <5>1
        <5>2. CASE j # i
          <6>1. j \in DOMAIN file[n] /\ j < fileLen[n]
            BY <1>7, <3>1, <3>3, <5>2
          <6>2. j \in Nat
            BY <1>4, <1>6, <6>1 DEF FileType
          <6>3. fileLen[n] \in Nat /\ fileLen'[n] \in Nat
            BY <3>1, <3>3, <4>1
          <6> QED
            BY <4>1, <6>1, <6>2, <6>3
        <5> QED
          BY <5>1, <5>2
      <4> QED
        BY <3>3, <4>1, <4>2
    <3> QED
      BY <3>2, <3>3
  <2> QED
    BY <1>7, <1>8, <2>1 DEF CardInv
<1>12. FileInv'
  <2>1. ASSUME NEW z \in Names, NEW j \in DOMAIN file'[z], file'[z][j].t > 0
        PROVE  /\ Slot(file'[z][j].t) = <<z, j>> /\ file'[z][j].t <= old
               /\ Tail(Path) # <<>> => file'[z][j].t < Tail(Path)[1].t
    <3>1. Tail(Path) # <<>> => r.t < Tail(Path)[1].t /\ Tail(Path)[1].t \in Nat
      <4>1. Tail(Path) # <<>> => 1 \in DOMAIN Tail(Path) /\ Tail(Path)[1] \in Record
        BY <1>1
      <4>2. \A q \in Record : q.t \in Nat
        BY DEF Record
      <4> QED
        BY <4>1, <4>2, Oldest DEF r
    <3>2. CASE z = n /\ j = i
      BY <1>2, <1>3, <1>7, <3>1, <3>2 DEF n
    <3>3. CASE z # n \/ j # i
      <4>1. j \in DOMAIN file[z] /\ file'[z][j] = file[z][j]
        BY <1>7, <3>3
      <4>2. Slot(file[z][j].t) = <<z, j>> /\ file[z][j].t <= old /\ file[z][j].t < r.t
        BY <1>1, <2>1, <4>1 DEF IInv, FileInv
      <4>3. file[z][j].t \in Nat
        BY <1>6, <4>1 DEF FileType
      <4>4. \A a, b, c \in Nat : a < b /\ b < c => a < c
        OBVIOUS
      <4> QED
        BY <1>2, <3>1, <4>1, <4>2, <4>3, <4>4
    <3> QED
      BY <3>2, <3>3
  <2> QED
    BY <1>1, <2>1 DEF FileInv
<1>13. \A S : /\ Carried(Path, S) = (IF r.t \in S THEN r.rain ELSE 0) + Carried(Tail(Path), S)
              /\ Carried(Tail(Path), S) \in Nat
  <2> TAKE S
  <2> QED
    BY <1>1, CarriedTail, Figures
<1>14. ASSUME i \in DOMAIN file[n], file[n][i].t > 0
       PROVE  file[n][i].t < r.t /\ Slot(file[n][i].t) = Slot(r.t)
  BY <1>1, <1>3, <1>4, <1>14 DEF IInv, FileInv, n
<1>15. ContentIn(file, r.t) = 0
  <2>1. i \in DOMAIN file[n] => file[n][i].t # r.t
    BY <1>2, <1>14
  <2> QED
    BY <1>3, <2>1 DEF ContentIn, n
<1>16. ASSUME NEW p \in Periods, NEW u \in Minutes(p, old), u # r.t
       PROVE  ContentIn(file, u) = ContentIn(file', u)
  <2>1. u \in Nat \ {0} /\ old \in Nat /\ old >= DayLen
    BY Figures
  <2>2. CASE Slot(u) # Slot(r.t)
    BY <1>7, <2>1, <2>2
  <2>3. CASE Slot(u) = Slot(r.t)
    <3>1. ContentIn(file', u) = 0
      BY <1>3, <1>7, <1>16, <2>3 DEF ContentIn, n
    <3>2. ASSUME i \in DOMAIN file[n], file[n][i].t = u
          PROVE  FALSE
      <4>1. u < r.t
        BY <1>14, <2>1, <3>2
      <4>2. u + Cycle * YearLen <= r.t
        BY <1>2, <2>1, <2>3, <4>1, SlotsRepeat
      <4>3. old < u + Cycle * YearLen
        BY <2>1, Recent
      <4>4. Cycle * YearLen \in Nat
        BY NamesAre
      <4> QED
        BY <1>2, <2>1, <4>2, <4>3, <4>4
    <3>3. ContentIn(file, u) = 0
      BY <1>3, <2>3, <3>2 DEF ContentIn, n
    <3> QED
      BY <3>1, <3>3
  <2> QED
    BY <2>2, <2>3
<1>17. BooksInv'
  <2>1. ASSUME NEW p \in Periods, whole[p]
        PROVE  acc[p] = Made(p)'
    <3> DEFINE S == Minutes(p, old)
               g == file'
               t == r.t
               v == r.rain
    <3>1. acc[p] = Made(p)
      BY <1>2, <2>1 DEF IInv, BooksInv
    <3>2. PICK a, c, m, b \in Nat : /\ a = FiledIn(file, S) /\ b = Carried(Tail(Path), S)
                                    /\ c = missed[p] /\ m = IF p = "yesterday" THEN 0 ELSE min
      BY <1>13, Figures
    <3>3. PICK x \in Nat : x = IF t \in S THEN v ELSE 0
      BY <1>2
    <3>4. Carried(Path, S) = x + b
      BY <1>13, <3>2, <3>3
    <3>5. FiledIn(g, S) = a + x
      <4>1. S \in SUBSET (Nat \ {0}) /\ IsFiniteSet(S)
        BY Figures
      <4>2. FileType(g) /\ ContentIn(g, t) = v /\ ContentIn(file, t) = 0
            /\ \A u \in S : u # t => ContentIn(file, u) = ContentIn(g, u)
        BY <1>7, <1>15, <1>16
      <4> HIDE DEF S, t, g, v
      <4>3. FiledIn(g, S) = FiledIn(file, S) + (IF t \in S THEN ContentIn(g, t) ELSE 0)
        BY <1>6, <4>1, <4>2, FiledMore
      <4> QED
        BY <3>2, <3>3, <4>2, <4>3
    <3>6. Made(p) = a + (x + b) + c + m
      BY <3>2, <3>4 DEF Made
    <3>7. Made(p)' = (a + x) + b + c + m
      BY <1>1, <3>2, <3>5 DEF Made
    <3> QED
      BY <3>1, <3>6, <3>7
  <2> QED
    BY <2>1 DEF BooksInv
<1> QED
  BY <1>9, <1>10, <1>11, <1>12, <1>17 DEF IInv

\* What a new minute does: r is the rain of its last second, k what its record
\* takes along, lost what a full queue costs.
TurnIs(r, k, lost) ==
  /\ k + lost = min + r /\ (Len(queue) = QueueLen => k = 0) /\ (Len(queue) # QueueLen => lost = 0)
  /\ rained' = rained + r /\ rained + r <= MaxRain
  /\ \A S : Carried(Path', S) = Carried(Path, S) + (IF now \in S THEN k ELSE 0)
  /\ Path' = Path \/ Path' = Append(Path, [t |-> now, rain |-> k])
  /\ \A p \in Running :
       /\ acc'[p] = IF Closes(p, old, now) THEN 0 ELSE acc[p] + r
       /\ missed'[p] = (IF Closes(p, old, now) THEN 0 ELSE missed[p])
                         + (IF now \in Minutes(p, now) THEN lost ELSE 0)
       /\ whole'[p] = (Closes(p, old, now) \/ whole[p])
  /\ acc'["yesterday"]
       = IF Closes("day", old, now) THEN acc["day"] + r ELSE acc["yesterday"]
  /\ missed'["yesterday"]
       = (IF Closes("day", old, now) THEN missed["day"] ELSE missed["yesterday"])
           + (IF now \in Minutes("yesterday", now) THEN lost ELSE 0)
  /\ whole'["yesterday"] = IF Closes("day", old, now) THEN whole["day"] ELSE whole["yesterday"]
  /\ \A p \in {"ten", "hour", "day"} :
       report'[p] = IF Closes(p, old, now) THEN acc[p] + r ELSE report[p]

LEMMA Turn ==
  ASSUME IInv, MinuteTurn
  PROVE  /\ now = old + 1 /\ now \in 1..LastMinute
         /\ queue' \in Seq(Record) /\ Len(queue') <= QueueLen
         /\ acc' = [p \in Periods |-> acc'[p]] /\ missed' = [p \in Periods |-> missed'[p]]
         /\ report' = [p \in {"ten", "hour", "day"} |-> report'[p]]
         /\ \E r \in {0, 1}, k \in Nat, lost \in Nat : TurnIs(r, k, lost)
<1>1. now = old + 1 /\ now \in 1..LastMinute
  BY ConstantsAre DEF IInv, ClockInv, MinuteTurn
<1>2. /\ held \in Seq(Record) /\ queue \in Seq(Record) /\ Len(queue) <= QueueLen
      /\ Len(queue) \in Nat /\ QueueLen \in Nat /\ DOMAIN report = {"ten", "hour", "day"}
      /\ min \in Nat
  BY ConstantsAre DEF IInv, RamInv
<1>3. PICK r \in {0, 1} :
         LET a == [p \in Periods |-> IF p \in Running THEN acc[p] + r ELSE acc[p]]
             m == min + r
         IN  /\ rained + r <= MaxRain /\ rained' = rained + r
             /\ queue' = IF Fits THEN Append(queue, [t |-> now, rain |-> m])
                                 ELSE queue
             /\ report' = Reported(a, now)
             /\ acc' = Closed(a, now)
             /\ missed' = Credited(Closed(missed, now), now, now,
                                   IF Fits THEN 0 ELSE m)
  BY DEF MinuteTurn
<1> DEFINE a == [p \in Periods |-> IF p \in Running THEN acc[p] + r ELSE acc[p]]
           m == min + r
           k == IF Fits THEN m ELSE 0
           lost == IF Fits THEN 0 ELSE m
           z == [t |-> now, rain |-> k]
<1>4. /\ rained + r <= MaxRain /\ rained' = rained + r
      /\ queue' = IF Fits THEN Append(queue, z) ELSE queue
      /\ report' = Reported(a, now) /\ acc' = Closed(a, now)
      /\ missed' = Credited(Closed(missed, now), now, now, lost)
  BY <1>3
<1>5. m \in Nat /\ k \in Nat /\ lost \in Nat /\ k + lost = m
  BY <1>2
<1>6. /\ Len(queue) = QueueLen => k = 0
      /\ Len(queue) # QueueLen => lost = 0
  BY <1>2 DEF Fits
<1>7. z \in Record
  BY <1>1, <1>5 DEF Record
<1> HIDE DEF m, k, lost
<1>8. queue' \in Seq(Record) /\ Len(queue') <= QueueLen
  BY <1>2, <1>4, <1>7 DEF Fits
<1>9. held' = held
  BY DEF MinuteTurn
<1>10. Path' = Path \/ Path' = Append(Path, z)
  BY <1>2, <1>4, <1>7, <1>9, PathAppended DEF Path
<1>11. \A S : Carried(Path', S) = Carried(Path, S) + (IF now \in S THEN k ELSE 0)
  <2> TAKE S
  <2>1. Path \in Seq(Record) /\ Carried(Path, S) \in Nat
    BY Figures
  <2>2. CASE Fits
    <3>1. Path' = Append(Path, z)
      BY <1>2, <1>4, <1>7, <1>9, <2>2, PathAppended DEF Path
    <3>2. z.t = now /\ z.rain = k
      OBVIOUS
    <3> HIDE DEF z
    <3> QED
      BY <1>7, <2>1, <3>1, <3>2, CarriedAppend
  <2>3. CASE ~Fits
    <3>1. Path' = Path /\ k = 0
      BY <1>4, <1>9, <2>3 DEF Path, k
    <3> QED
      BY <2>1, <3>1
  <2> QED
    BY <2>2, <2>3
<1>12. ASSUME NEW p \in Running
       PROVE  /\ acc'[p] = IF Closes(p, old, now) THEN 0 ELSE acc[p] + r
              /\ missed'[p] = (IF Closes(p, old, now) THEN 0 ELSE missed[p])
                                + (IF now \in Minutes(p, now) THEN lost ELSE 0)
              /\ whole'[p] = (Closes(p, old, now) \/ whole[p])
  <2>1. p \in Periods /\ p # "yesterday"
    BY DEF Periods, Running
  <2>2. a[p] = acc[p] + r
    BY <2>1
  <2>3. /\ Closed(a, now)[p] = IF Closes(p, old, now) THEN 0 ELSE a[p]
        /\ Closed(missed, now)[p] = IF Closes(p, old, now) THEN 0 ELSE missed[p]
    BY <2>1 DEF Closed
  <2>4. Closed(missed, now)[p] \in Nat
    BY <2>1, <2>3, Figures
  <2>5. missed'[p] = IF now \in Minutes(p, now) THEN Closed(missed, now)[p] + lost
                                                ELSE Closed(missed, now)[p]
    BY <1>4, <2>1 DEF Credited
  <2>6. whole'[p] = (Closes(p, old, now) \/ whole[p])
    BY <2>1 DEF MinuteTurn
  <2>7. missed'[p] = Closed(missed, now)[p] + (IF now \in Minutes(p, now) THEN lost ELSE 0)
    BY <2>4, <2>5
  <2> QED
    BY <1>4, <2>2, <2>3, <2>6, <2>7
<1>13. /\ acc'["yesterday"]
            = IF Closes("day", old, now) THEN acc["day"] + r ELSE acc["yesterday"]
       /\ missed'["yesterday"]
            = (IF Closes("day", old, now) THEN missed["day"] ELSE missed["yesterday"])
                + (IF now \in Minutes("yesterday", now) THEN lost ELSE 0)
       /\ whole'["yesterday"] = IF Closes("day", old, now) THEN whole["day"] ELSE whole["yesterday"]
  <2>1. "yesterday" \in Periods /\ "yesterday" \notin Running /\ "day" \in Running
        /\ "day" \in Periods
    BY DEF Periods, Running
  <2>2. a["day"] = acc["day"] + r /\ a["yesterday"] = acc["yesterday"]
    BY <2>1
  <2>3. /\ Closed(a, now)["yesterday"]
             = IF Closes("day", old, now) THEN a["day"] ELSE a["yesterday"]
        /\ Closed(missed, now)["yesterday"]
             = IF Closes("day", old, now) THEN missed["day"] ELSE missed["yesterday"]
    BY <2>1 DEF Closed
  <2>4. Closed(missed, now)["yesterday"] \in Nat
    BY <2>1, <2>3, Figures
  <2>5. missed'["yesterday"]
          = IF now \in Minutes("yesterday", now) THEN Closed(missed, now)["yesterday"] + lost
                                                 ELSE Closed(missed, now)["yesterday"]
    BY <1>4, <2>1 DEF Credited
  <2>6. whole'["yesterday"] = IF Closes("day", old, now) THEN whole["day"] ELSE whole["yesterday"]
    BY <2>1 DEF MinuteTurn
  <2>7. missed'["yesterday"] = Closed(missed, now)["yesterday"]
                                 + (IF now \in Minutes("yesterday", now) THEN lost ELSE 0)
    BY <2>4, <2>5
  <2> QED
    BY <1>4, <2>2, <2>3, <2>6, <2>7
<1>14. ASSUME NEW p \in {"ten", "hour", "day"}
       PROVE  report'[p] = IF Closes(p, old, now) THEN acc[p] + r ELSE report[p]
  <2>1. p \in Periods /\ p \in Running
    BY DEF Periods, Running
  <2>2. a[p] = acc[p] + r
    BY <2>1
  <2>3. report'[p] = IF Closes(p, old, now) THEN a[p] ELSE report[p]
    BY <1>2, <1>4 DEF Reported
  <2> QED
    BY <2>2, <2>3
<1>15. /\ acc' = [p \in Periods |-> acc'[p]] /\ missed' = [p \in Periods |-> missed'[p]]
       /\ report' = [p \in {"ten", "hour", "day"} |-> report'[p]]
  BY <1>2, <1>4 DEF Closed, Credited, Reported
<1>16. TurnIs(r, k, lost)
  BY <1>4, <1>5, <1>6, <1>10, <1>11, <1>12, <1>13, <1>14 DEF TurnIs, m
<1> QED
  BY <1>1, <1>5, <1>8, <1>15, <1>16

\* Nothing is filed or under way of minutes to come.
LEMMA NothingToCome ==
  ASSUME IInv, NEW S \in SUBSET (Nat \ {0}), IsFiniteSet(S), \A m \in S : m > old
  PROVE  FiledIn(file, S) = 0 /\ Carried(Path, S) = 0
<1>1. old \in Nat
  BY Figures
<1>2. ASSUME NEW t \in S PROVE ContentIn(file, t) = 0
  <2>1. PICK y \in Nat, i \in 1..YearLen : Slot(t) = <<Name(y), i>> /\ Name(y) \in Names
    <3>1. t \in Nat \ {0}
      OBVIOUS
    <3> QED
      BY <3>1, StampSlot, NamesAre
  <2> DEFINE n == Name(y)
  <2>2. ASSUME i \in DOMAIN file[n], file[n][i].t = t
        PROVE  FALSE
    <3>1. t > 0 /\ t \in Nat /\ ~(t <= old)
      BY <1>1
    <3> QED
      BY <2>1, <2>2, <3>1 DEF IInv, FileInv
  <2> QED
    BY <2>1, <2>2 DEF ContentIn
<1>3. FiledIn(file, S) = 0
  BY <1>2, FiledNone
<1>4. ASSUME NEW i \in DOMAIN Path PROVE Path[i].t \notin S
  <2>1. Path[i].t <= old
    BY DEF IInv, PathInv
  <2>2. Path[i].t \in Nat /\ old \in Nat
    <3>1. Path[i] \in Record
      BY Figures
    <3>2. \A r \in Record : r.t \in Nat
      BY DEF Record
    <3> QED
      BY <3>1, <3>2, Figures
  <2>3. ~(Path[i].t > old)
    BY <2>1, <2>2
  <2> QED
    BY <2>3
<1> QED
  BY <1>3, <1>4, CarriedNone, Figures

\* The books of a period that the turn leaves open, and of one it closes.
LEMMA TurnBooks ==
  ASSUME IInv, MinuteTurn, NEW r \in {0, 1}, NEW k \in Nat, NEW lost \in Nat, TurnIs(r, k, lost)
  PROVE  /\ \A p \in Running : \A S \in {Minutes(p, old)} :
              whole[p] => acc[p] + r = FiledIn(file, S) + Carried(Path', S) + missed[p] + lost
         /\ \A p \in Periods : whole'[p] => acc'[p] = Made(p)'
<1>1. /\ now = old + 1 /\ now \in 1..LastMinute /\ pc = "run"
      /\ old' = now /\ min' = 0 /\ file' = file
  BY Turn DEF MinuteTurn, card
<1>2. old \in Nat /\ old >= DayLen /\ old + 1 \in Nat /\ old + 1 >= DayLen
  BY Figures, Lengths
<1>3. ASSUME NEW p \in Running, whole[p]
      PROVE  acc[p] + r = FiledIn(file, Minutes(p, old)) + Carried(Path', Minutes(p, old))
                            + missed[p] + lost
  <2> DEFINE S == Minutes(p, old)
  <2>1. p \in Periods /\ p # "yesterday"
    BY DEF Periods, Running
  <2>2. now \in S
    BY <1>1, <1>2, MinutesStay, MinutesTurn
  <2>3. PICK a, b, c, m \in Nat : /\ a = FiledIn(file, S) /\ b = Carried(Path, S)
                                  /\ c = missed[p] /\ m = min
    BY <2>1, Figures
  <2>4. acc[p] = a + b + c + m
    BY <1>1, <1>3, <2>1, <2>3 DEF IInv, BooksInv, Made
  <2>5. Carried(Path', S) = b + k /\ k + lost = m + r
    BY <2>2, <2>3 DEF TurnIs
  <2>6. a + b + c + m + r = a + (b + k) + c + lost
    BY <2>5
  <2> QED
    BY <2>3, <2>4, <2>5, <2>6
<1>4. ASSUME NEW p \in Running, whole'[p]
      PROVE  acc'[p] = Made(p)'
  <2>1. p \in Periods /\ p # "yesterday"
    BY DEF Periods, Running
  <2>2. Made(p)' = FiledIn(file, Minutes(p, now)) + Carried(Path', Minutes(p, now)) + missed'[p] + 0
    BY <1>1, <2>1 DEF Made
  <2>3. CASE ~Closes(p, old, now)
    <3>1. Minutes(p, now) = Minutes(p, old) /\ now \in Minutes(p, now)
      BY <1>1, <1>2, <2>3, MinutesStay
    <3>2. acc'[p] = acc[p] + r /\ missed'[p] = missed[p] + lost /\ whole[p]
      BY <1>4, <2>3, <3>1 DEF TurnIs
    <3>3. PICK a, b, c \in Nat : /\ a = FiledIn(file, Minutes(p, old))
                                 /\ b = Carried(Path', Minutes(p, old)) /\ c = missed[p]
      <4>1. Carried(Path', Minutes(p, old)) = Carried(Path, Minutes(p, old)) + k
        BY <3>1 DEF TurnIs
      <4> QED
        BY <2>1, <4>1, Figures
    <3>4. acc[p] + r = a + b + c + lost
      BY <1>3, <3>2, <3>3
    <3>5. Made(p)' = a + b + (c + lost) + 0
      BY <2>2, <3>1, <3>2, <3>3
    <3> QED
      BY <3>2, <3>4, <3>5
  <2>4. CASE Closes(p, old, now)
    <3>1. \A m \in Minutes(p, now) : m > now
      BY <1>1, <1>2, <2>4, MinutesTurn
    <3>2. Minutes(p, now) \in SUBSET (Nat \ {0}) /\ IsFiniteSet(Minutes(p, now))
      BY <1>1, <1>2, <2>1, MinutesAre
    <3>3. now \notin Minutes(p, now)
      BY <1>1, <1>2, <3>1
    <3>4. \A m \in Minutes(p, now) : m > old
      BY <1>1, <1>2, <3>1, <3>2
    <3>5. FiledIn(file, Minutes(p, now)) = 0 /\ Carried(Path, Minutes(p, now)) = 0
      BY <3>2, <3>4, NothingToCome
    <3>6. Carried(Path', Minutes(p, now)) = 0
      BY <3>3, <3>5 DEF TurnIs
    <3>7. acc'[p] = 0 /\ missed'[p] = 0
      BY <2>4, <3>3 DEF TurnIs
    <3> QED
      BY <2>2, <3>5, <3>6, <3>7
  <2> QED
    BY <2>3, <2>4
<1>5. ASSUME whole'["yesterday"]
      PROVE  acc'["yesterday"] = Made("yesterday")'
  <2>1. "yesterday" \in Periods /\ "day" \in Periods /\ "day" \in Running
    BY DEF Periods, Running
  <2>2. Made("yesterday")' = FiledIn(file, Minutes("yesterday", now))
          + Carried(Path', Minutes("yesterday", now)) + missed'["yesterday"] + 0
    BY <1>1 DEF Made
  <2>3. CASE ~Closes("day", old, now)
    <3>1. Minutes("yesterday", now) = Minutes("yesterday", old)
          /\ now \notin Minutes("yesterday", now)
      BY <1>1, <1>2, <2>3, YesterdayStays
    <3>2. PICK a, b, c \in Nat : /\ a = FiledIn(file, Minutes("yesterday", old))
                                 /\ b = Carried(Path, Minutes("yesterday", old))
                                 /\ c = missed["yesterday"]
      BY <2>1, Figures
    <3>3. acc'["yesterday"] = acc["yesterday"] /\ missed'["yesterday"] = c + 0
          /\ whole["yesterday"] /\ Carried(Path', Minutes("yesterday", now)) = b + 0
      BY <1>5, <2>3, <3>1, <3>2 DEF TurnIs
    <3>4. acc["yesterday"] = a + b + c + 0
      BY <1>1, <2>1, <3>2, <3>3 DEF IInv, BooksInv, Made
    <3> QED
      BY <2>2, <3>1, <3>2, <3>3, <3>4
  <2>4. CASE Closes("day", old, now)
    <3>1. Minutes("yesterday", now) = Minutes("day", old)
      BY <1>1, <1>2, <2>4, YesterdayTurns
    <3>2. now \in Minutes("day", old)
      BY <1>1, <1>2, <2>1, <2>4, MinutesTurn
    <3>3. PICK a, b, c \in Nat : /\ a = FiledIn(file, Minutes("day", old))
                                 /\ b = Carried(Path', Minutes("day", old)) /\ c = missed["day"]
      <4>1. Carried(Path', Minutes("day", old)) = Carried(Path, Minutes("day", old)) + k
        BY <3>2 DEF TurnIs
      <4> QED
        BY <2>1, <4>1, Figures
    <3>4. acc'["yesterday"] = acc["day"] + r /\ missed'["yesterday"] = c + lost /\ whole["day"]
      BY <1>5, <2>4, <3>1, <3>2, <3>3 DEF TurnIs
    <3>5. acc["day"] + r = a + b + c + lost
      BY <1>3, <2>1, <3>3, <3>4
    <3> QED
      BY <2>2, <3>1, <3>3, <3>4, <3>5
  <2> QED
    BY <2>3, <2>4
<1> QED
  BY <1>3, <1>4, <1>5 DEF Periods

LEMMA MinuteTurnKeeps == IInv /\ MinuteTurn => IInv'
<1> SUFFICES ASSUME IInv, MinuteTurn PROVE IInv'
  OBVIOUS
<1>1. PICK r \in {0, 1}, k \in Nat, lost \in Nat : TurnIs(r, k, lost)
  BY Turn
<1>2. /\ now = old + 1 /\ now \in 1..LastMinute /\ pc = "run" /\ pc' = pc /\ now' = now
      /\ old' = now /\ min' = 0 /\ file' = file /\ fileLen' = fileLen /\ readAt' = readAt
      /\ erase' = erase /\ held' = held /\ powerLosses' = powerLosses
      /\ sdErrors' = sdErrors /\ erases' = erases
  BY Turn DEF MinuteTurn, card
<1>3. old \in Nat /\ old < old' /\ old' \in Nat
  BY <1>2, Figures
<1>4. ClockInv' /\ CardInv' /\ MenuInv' /\ IdleInv' /\ RestoredInv'
  BY <1>2, ConstantsAre
     DEF IInv, ClockInv, CardInv, MenuInv, IdleInv, RestoredInv
<1>5. \A p \in Periods : acc'[p] \in Nat /\ missed'[p] \in Nat /\ whole'[p] \in BOOLEAN
  <2>1. \A p \in Periods : acc[p] \in Nat /\ missed[p] \in Nat /\ whole[p] \in BOOLEAN
    BY Figures DEF IInv, HistoryInv
  <2>2. ASSUME NEW p \in Running PROVE acc'[p] \in Nat /\ missed'[p] \in Nat /\ whole'[p] \in BOOLEAN
    <3>1. p \in Periods
      BY DEF Periods
    <3>2. (Closes(p, old, now) \/ whole[p]) \in BOOLEAN
      OBVIOUS
    <3>3. whole'[p] \in BOOLEAN
      BY <1>1, <3>2 DEF TurnIs
    <3>4. acc'[p] = IF Closes(p, old, now) THEN 0 ELSE acc[p] + r
      BY <1>1 DEF TurnIs
    <3>5. missed'[p] = (IF Closes(p, old, now) THEN 0 ELSE missed[p])
                         + (IF now \in Minutes(p, now) THEN lost ELSE 0)
      BY <1>1 DEF TurnIs
    <3>6. acc[p] \in Nat /\ missed[p] \in Nat /\ r \in Nat
      BY <2>1, <3>1
    <3>7. acc'[p] \in Nat
      BY <3>4, <3>6
    <3>8. missed'[p] \in Nat
      BY <3>5, <3>6
    <3> QED
      BY <3>3, <3>7, <3>8
  <2>3. acc'["yesterday"] \in Nat /\ missed'["yesterday"] \in Nat
    <3>1. "yesterday" \in Periods /\ "day" \in Periods
      BY DEF Periods, Running
    <3> QED
      BY <1>1, <2>1, <3>1 DEF TurnIs
  <2>4. whole'["yesterday"] \in BOOLEAN
    <3>1. "yesterday" \in Periods /\ "day" \in Periods
      BY DEF Periods, Running
    <3> QED
      BY <1>1, <2>1, <3>1 DEF TurnIs
  <2> QED
    BY <2>2, <2>3, <2>4 DEF Periods
<1>6. RamInv'
  <2>1. acc' \in [Periods -> Nat]
    BY <1>5, Turn
  <2>2. report' \in [{"ten", "hour", "day"} -> Nat]
    <3>1. ASSUME NEW p \in {"ten", "hour", "day"} PROVE report'[p] \in Nat
      <4>1. report[p] \in Nat /\ acc[p] \in Nat
        BY DEF IInv, RamInv, Periods, Running
      <4> QED
        BY <1>1, <4>1 DEF TurnIs
    <3> QED
      BY <3>1, Turn
  <2> QED
    BY <1>2, <2>1, <2>2, Turn DEF IInv, RamInv
<1>7. HistoryInv'
  <2>1. missed' \in [Periods -> Nat]
    BY <1>5, Turn
  <2>2. whole' \in [Periods -> BOOLEAN]
    <3>1. whole' = [p \in Periods |-> whole'[p]]
      BY DEF MinuteTurn
    <3> QED
      BY <1>5, <3>1
  <2>3. rained' \in 0..MaxRain
    <3>1. rained' = rained + r /\ rained + r <= MaxRain /\ r \in Nat
      BY <1>1 DEF TurnIs
    <3>2. rained \in Nat /\ MaxRain \in Nat
      BY Figures, ConstantsAre
    <3> QED
      BY <3>1, <3>2
  <2> QED
    BY <1>2, <2>1, <2>2, <2>3 DEF IInv, HistoryInv
<1>8. \A i \in DOMAIN Path : /\ Path[i].t \in Nat /\ StartAt <= Path[i].t /\ Path[i].t <= old
                             /\ \A j \in DOMAIN Path : i < j => Path[i].t < Path[j].t
  <2> TAKE i \in DOMAIN Path
  <2>1. Path[i] \in Record
    BY Figures
  <2>2. \A s \in Record : s.t \in Nat
    BY DEF Record
  <2> QED
    BY <2>1, <2>2 DEF IInv, PathInv
<1>9. \/ Path' = Path
      \/ /\ Path' # <<>> /\ DOMAIN Path' = DOMAIN Path \cup {Len(Path) + 1}
         /\ \A i \in DOMAIN Path : Path'[i] = Path[i] /\ i < Len(Path) + 1 /\ i \in Nat
         /\ Path'[Len(Path) + 1].t = now /\ Len(Path) + 1 \in Nat
         /\ (Path = <<>> => Len(Path) + 1 = 1) /\ (Path # <<>> => 1 \in DOMAIN Path)
  <2> DEFINE z == [t |-> now, rain |-> k]
  <2>1. Path' = Path \/ Path' = Append(Path, z)
    BY <1>1 DEF TurnIs
  <2>2. Path \in Seq(Record) /\ z \in Record /\ z.t = now
    BY <1>2, Figures DEF Record
  <2> HIDE DEF z
  <2>3. ASSUME Path' = Append(Path, z)
        PROVE  /\ Path' # <<>> /\ DOMAIN Path' = DOMAIN Path \cup {Len(Path) + 1}
               /\ \A i \in DOMAIN Path : Path'[i] = Path[i] /\ i < Len(Path) + 1 /\ i \in Nat
               /\ Path'[Len(Path) + 1].t = now /\ Len(Path) + 1 \in Nat
               /\ (Path = <<>> => Len(Path) + 1 = 1) /\ (Path # <<>> => 1 \in DOMAIN Path)
    <3>1. /\ DOMAIN Path = 1..Len(Path) /\ Len(Path) \in Nat /\ DOMAIN Append(Path, z) = 1..(Len(Path) + 1)
          /\ \A i \in 1..Len(Path) : Append(Path, z)[i] = Path[i]
          /\ Append(Path, z)[Len(Path) + 1] = z /\ Append(Path, z) # <<>>
      BY <2>2
    <3>2. Path # <<>> => Len(Path) # 0
      BY <2>2
    <3>3. Path = <<>> => Len(Path) = 0
      OBVIOUS
    <3> QED
      BY <2>2, <2>3, <3>1, <3>2, <3>3
  <2> QED
    BY <2>1, <2>3
<1>10. PathInv'
  <2> StartAt \in Nat /\ StartAt <= now
    BY <1>2, ConstantsAre DEF IInv, ClockInv
  <2>1. ASSUME NEW i \in DOMAIN Path'
        PROVE  /\ StartAt <= Path'[i].t /\ Path'[i].t <= old'
               /\ \A j \in DOMAIN Path' : i < j => Path'[i].t < Path'[j].t
    <3>1. CASE Path' = Path
      BY <1>3, <1>8, <3>1
    <3>2. CASE Path' # Path
      <4>1. CASE i \in DOMAIN Path
        <5>1. /\ Path'[i].t = Path[i].t /\ Path[i].t \in Nat /\ StartAt <= Path[i].t
              /\ Path[i].t <= old
          BY <1>8, <1>9, <3>2, <4>1
        <5>2. Path'[i].t < now
          BY <1>2, <1>3, <5>1
        <5>3. ASSUME NEW j \in DOMAIN Path', i < j PROVE Path'[i].t < Path'[j].t
          <6>1. CASE j \in DOMAIN Path
            BY <1>8, <1>9, <3>2, <4>1, <5>3, <6>1
          <6>2. CASE j \notin DOMAIN Path
            <7>1. j = Len(Path) + 1 /\ Path'[j].t = now
              BY <1>9, <3>2, <6>2
            <7> QED
              BY <5>2, <7>1
          <6> QED
            BY <6>1, <6>2
        <5> QED
          BY <1>2, <1>3, <5>1, <5>3
      <4>2. CASE i \notin DOMAIN Path
        <5>1. i = Len(Path) + 1 /\ Path'[i].t = now /\ i \in Nat
          BY <1>9, <3>2, <4>2
        <5>2. ASSUME NEW j \in DOMAIN Path', i < j PROVE FALSE
          <6>1. j \in DOMAIN Path => j < i /\ j \in Nat
            BY <1>9, <3>2, <5>1
          <6>2. j \notin DOMAIN Path => j = i
            BY <1>9, <3>2, <5>1
          <6> QED
            BY <5>1, <5>2, <6>1, <6>2
        <5> QED
          BY <1>2, <1>3, <5>1, <5>2
      <4> QED
        BY <4>1, <4>2
    <3> QED
      BY <3>1, <3>2
  <2> QED
    BY <2>1 DEF PathInv
<1>11. FileInv'
  <2>1. ASSUME NEW n \in Names, NEW i \in DOMAIN file[n], file[n][i].t > 0
        PROVE  /\ Slot(file[n][i].t) = <<n, i>> /\ file[n][i].t <= old'
               /\ Path' # <<>> => file[n][i].t < Path'[1].t
    <3> DEFINE t == file[n][i].t
    <3>1. Slot(t) = <<n, i>> /\ t <= old /\ (Path # <<>> => t < Path[1].t)
      BY <2>1 DEF IInv, FileInv
    <3>2. t \in Nat
      BY DEF IInv, CardInv, FileType
    <3> HIDE DEF t
    <3>3. t <= old' /\ t < now
      BY <1>2, <1>3, <3>1, <3>2
    <3>4. Path' = Path \/ (Path' # <<>> /\ (Path = <<>> => Path'[1].t = now)
                             /\ (Path # <<>> => Path'[1] = Path[1]))
      BY <1>9
    <3> QED
      BY <3>1, <3>3, <3>4 DEF t
  <2> QED
    BY <1>2, <2>1 DEF FileInv
<1>12. RainInv'
  BY <1>2, <1>7 DEF HistoryInv, RainInv
<1>13. BooksInv'
  BY <1>1, TurnBooks DEF BooksInv
<1> QED
  BY <1>4, <1>6, <1>7, <1>10, <1>11, <1>12, <1>13 DEF IInv

-----------------------------------------------------------------------------
(* What calculate_rain reads                                               *)

LEMMA DayInYear == \A p \in {"day", "month"} : \E k \in Nat \ {0} : YearLen = k * Length[p]
<1>1. PICK b \in Nat \ {0} : YearLen = b * MonthLen
  BY Lengths, Multiple
<1>2. PICK a \in Nat \ {0} : MonthLen = a * DayLen
  BY Lengths, Multiple
<1>3. \A D \in Nat : b * (a * D) = (b * a) * D
  OBVIOUS
<1>4. YearLen = (b * a) * DayLen /\ b * a \in Nat \ {0}
  BY <1>1, <1>2, <1>3, Lengths
<1> QED
  BY <1>1, <1>4, Lengths

\* A day and a month lie within a year.
LEMMA BeginShift ==
  ASSUME NEW p \in {"day", "month"}, NEW t \in Nat
  PROVE  /\ Year(t) \in Nat /\ t % YearLen \in 0..YearLen - 1
         /\ t = Year(t) * YearLen + (t % YearLen)
         /\ Year(t) * YearLen \in Nat
         /\ Begin(p, t % YearLen) \in Nat
         /\ t % YearLen < Begin(p, t % YearLen) + Length[p]
         /\ Begin(p, t) = Year(t) * YearLen + Begin(p, t % YearLen)
         /\ Begin(p, t % YearLen) + Length[p] <= YearLen
<1> DEFINE y == Year(t)
           o == t % YearLen
<1>1. y \in Nat /\ o \in 0..YearLen - 1 /\ t = y * YearLen + o
  BY Lengths, DivMod DEF Year
<1>2. PICK L \in Nat \ {0} : L = Length[p]
  BY Lengths DEF Periods, Running
<1>3. PICK k \in Nat \ {0} : YearLen = k * L
  BY <1>2, DayInYear
<1>4. o % L = t % L
  BY <1>2, <1>3, Within
<1> HIDE DEF y, o
<1>5. Begin(p, t) = t - (o % L) /\ Begin(p, o) = o - (o % L)
  BY <1>2, <1>4 DEF Begin
<1>6. p \in Periods /\ o \in Nat
  BY <1>1 DEF Periods, Running
<1>7. /\ Begin(p, o) \in Nat /\ o < Begin(p, o) + L /\ Begin(p, o) = (o \div L) * L
      /\ Begin(p, o) <= o
  BY <1>2, <1>6, BeginIs
<1>8. Begin(p, o) + L <= k * L
  <2> DEFINE q == o \div L
  <2>1. q \in Nat /\ Begin(p, o) = q * L
    BY <1>6, <1>7, DivMod
  <2> HIDE DEF q
  <2>2. q * L < k * L
    BY <1>1, <1>3, <1>7, <2>1, Lengths
  <2>3. ASSUME q >= k PROVE FALSE
    <3>1. q * L >= k * L
      BY <2>1, <2>3
    <3>2. q * L \in Nat /\ k * L \in Nat
      BY <2>1
    <3> QED
      BY <2>2, <3>1, <3>2
  <2>4. q + 1 <= k
    BY <2>1, <2>3
  <2>5. (q + 1) * L <= k * L /\ (q + 1) * L = q * L + L
    BY <2>1, <2>4
  <2> QED
    BY <2>1, <2>5
<1>9. y * YearLen \in Nat
  BY <1>1, Lengths
<1>10. o % L \in Nat
  BY <1>6, DivMod
<1>11. Begin(p, t) = y * YearLen + Begin(p, o)
  BY <1>1, <1>5, <1>6, <1>9, <1>10
<1> QED
  BY <1>1, <1>2, <1>3, <1>7, <1>8, <1>9, <1>11 DEF y, o

\* The day before.
LEMMA DayBefore ==
  ASSUME NEW t \in Nat, t >= DayLen
  PROVE  /\ t - DayLen \in Nat /\ Begin("day", t - DayLen) = Begin("day", t) - DayLen
         /\ Minutes("yesterday", t) = Minutes("day", t - DayLen)
<1>1. DayLen \in Nat \ {0} /\ t - DayLen \in Nat
  BY Lengths
<1> DEFINE q == t \div DayLen
           i == t % DayLen
<1>2. q \in Nat /\ i \in 0..DayLen - 1 /\ t = q * DayLen + i
  BY <1>1, DivMod
<1>3. Begin("day", t) = t - i
  BY Lengths DEF Begin
<1> HIDE DEF q, i
<1>4. q # 0
  BY <1>1, <1>2
<1>5. PICK r \in Nat : q = r + 1
  BY <1>2, <1>4
<1>6. q * DayLen = r * DayLen + DayLen /\ r * DayLen \in Nat
  BY <1>1, <1>5
<1>7. t - DayLen = r * DayLen + i
  BY <1>1, <1>2, <1>6
<1>8. (t - DayLen) % DayLen = i
  BY <1>1, <1>2, <1>7, Divide
<1>9. Begin("day", t - DayLen) = (t - DayLen) - i
  BY <1>8, Lengths DEF Begin
<1>10. Begin("day", t - DayLen) = Begin("day", t) - DayLen
  BY <1>1, <1>2, <1>3, <1>9
<1>11. Begin("yesterday", t) = Begin("day", t) /\ Begin("day", t) \in Nat
  BY DayOf, BeginIs DEF Periods, Running
<1>12. Begin("day", t) - DayLen + DayLen = Begin("day", t)
  BY <1>1, <1>11
<1> QED
  BY <1>1, <1>10, <1>11, <1>12, Lengths DEF Minutes

LEMMA MovedInterval ==
  ASSUME NEW a \in Int, NEW b \in Int, NEW k \in Int
  PROVE  /\ Moved(a..b, k) = (k + a)..(k + b)
         /\ Indices(a..b) /\ IsFiniteSet(a..b)
<1>1. ASSUME NEW x \in a..b PROVE x + k \in (k + a)..(k + b)
  OBVIOUS
<1>2. ASSUME NEW x \in (k + a)..(k + b) PROVE x - k \in a..b /\ x = (x - k) + k
  OBVIOUS
<1>3. Moved(a..b, k) = (k + a)..(k + b)
  BY <1>1, <1>2 DEF Moved
<1>4. Indices(a..b)
  BY DEF Indices
<1> QED
  BY <1>3, <1>4, FS_Interval

LEMMA YearIs == \A t \in Nat : Year(t) \in Nat /\ Name(Year(t)) \in Names
BY NamesAre, DivMod DEF Year

\* A sum over slots of a year is a sum over minutes.
LEMMA SlotsSum ==
  ASSUME NEW f, FileType(f), NEW y \in Nat, NEW a \in Nat \ {0}, NEW b \in Nat, b <= YearLen,
         NEW c, \A o \in a..b : c[o] = ContentIn(f, Stamp(y, o))
  PROVE  SumFunctionOnSet(c, a..b) = FiledIn(f, (y * YearLen + a)..(y * YearLen + b))
<1> DEFINE k == y * YearLen
           D == a..b
           M == (k + a)..(k + b)
           d == [t \in M |-> ContentIn(f, t)]
<1>1. k \in Nat
  BY Lengths
<1> HIDE DEF k
<1>2. Moved(D, k) = M /\ Indices(D) /\ IsFiniteSet(D)
  <2>1. a \in Int /\ b \in Int /\ k \in Int
    BY <1>1
  <2> QED
    BY <2>1, MovedInterval
<1>3. ASSUME NEW x \in D PROVE c[x] \in Nat /\ d[x + k] = c[x]
  <2>1. x \in 1..YearLen
    BY Lengths
  <2>2. x + k = Stamp(y, x) /\ x + k \in M
    BY <1>1, <2>1 DEF Stamp, k
  <2>3. ContentIn(f, Stamp(y, x)) \in Nat
    BY <2>1, SlotStamp, ContentNat
  <2> QED
    BY <2>2, <2>3
<1>4. FiledIn(f, M) = SumFunctionOnSet(d, M)
  BY DEF FiledIn
<1> HIDE DEF d
<1>5. SumFunctionOnSet(d, Moved(D, k)) = SumFunctionOnSet(c, D)
  <2> HIDE DEF D
  <2> QED
    BY <1>1, <1>2, <1>3, SumShift
<1> QED
  BY <1>2, <1>4, <1>5 DEF k

\* Minutes without contents may be left out.
LEMMA FiledDrop ==
  ASSUME NEW f, FileType(f), NEW S \in SUBSET (Nat \ {0}), IsFiniteSet(S),
         NEW D \in SUBSET S, \A t \in S \ D : ContentIn(f, t) = 0
  PROVE  FiledIn(f, S) = FiledIn(f, D)
<1> DEFINE c == [t \in S |-> ContentIn(f, t)]
           d == [t \in D |-> ContentIn(f, t)]
<1>1. FiledIn(f, S) = SumFunctionOnSet(c, S) /\ FiledIn(f, D) = SumFunctionOnSet(d, D)
  BY DEF FiledIn
<1>2. \A t \in S : c[t] \in Nat
  BY ContentNat
<1>3. (\A t \in S \ D : c[t] = 0) /\ (\A t \in D : c[t] = d[t])
  OBVIOUS
<1> HIDE DEF c, d
<1>4. SumFunctionOnSet(c, S) = SumFunctionOnSet(c, D)
  BY <1>2, <1>3, SumDrop
<1>5. IsFiniteSet(D)
  BY FS_Subset
<1>6. SumFunctionOnSet(c, D) = SumFunctionOnSet(d, D)
  BY <1>3, <1>5, SumSame
<1> QED
  BY <1>1, <1>4, <1>6

LEMMA SlotsAre ==
  ASSUME NEW t \in Nat, NEW p \in Running
  PROVE  /\ p \in {"day", "month"} =>
              SlotsRead(p, t) = (Begin(p, t % YearLen) + 1)..(Begin(p, t % YearLen) + Length[p])
         /\ p = "year" => SlotsRead(p, t) = 1..(Begin("day", t % YearLen) + DayLen)
         /\ IsFiniteSet(SlotsRead(p, t))
<1> DEFINE o == t % YearLen
<1>1. o \in Nat
  BY Lengths, DivMod
<1>2. /\ p \in {"day", "month"} => SlotsRead(p, t) = (Begin(p, o) + 1)..(Begin(p, o) + Length[p])
      /\ p = "year" => SlotsRead(p, t) = 1..(Begin("day", o) + DayLen)
      /\ p \in {"ten", "hour"} => SlotsRead(p, t) = Begin(p, o)..o
  BY Lengths DEF SlotsRead
<1> HIDE DEF o
<1>3. Begin(p, o) \in Nat /\ Begin("day", o) \in Nat /\ Length[p] \in Nat /\ DayLen \in Nat
  BY <1>1, BeginIs, Lengths DEF Periods, Running
<1>4. IsFiniteSet(SlotsRead(p, t))
  <2>1. /\ Begin(p, o) + 1 \in Int /\ Begin(p, o) + Length[p] \in Int
        /\ Begin("day", o) + DayLen \in Int /\ Begin(p, o) \in Int /\ o \in Int /\ 1 \in Int
    BY <1>1, <1>3
  <2> QED
    BY <1>2, <2>1, FS_Interval DEF Running
<1> QED
  BY <1>2, <1>4 DEF o

LEMMA TotalNat ==
  ASSUME FileType(file), NEW t \in Nat, NEW p \in Running, NEW g \in {0, 1}
  PROVE  Total(p, t, g) \in Nat
<1> DEFINE f == file[Name(Year(t))]
           S == SlotsRead(p, t)
           c == [o \in S |-> IF o \in DOMAIN f THEN f[o].rain ELSE g]
<1>1. Total(p, t, g) = SumFunctionOnSet(c, S)
  BY DEF Total
<1>2. \A o \in S : c[o] \in Nat
  BY YearIs DEF FileType
<1>3. IsFiniteSet(S)
  BY SlotsAre
<1> HIDE DEF c, S
<1> QED
  BY <1>1, <1>2, <1>3, SumNat

\* A slot with rain of its year, or with none, reads as what its minute holds.
LEMMA OwnContent ==
  ASSUME FileType(file), NEW p, NEW t \in Nat, OwnRain(p, t),
         NEW i \in SlotsRead(p, t), i \in 1..YearLen
  PROVE  LET f == file[Name(Year(t))]
         IN  i \in DOMAIN f /\ f[i].rain = ContentIn(file, Stamp(Year(t), i))
<1>1. Year(t) \in Nat
  BY YearIs
<1> QED
  BY <1>1, ContentStamp DEF OwnRain

\* A day and a month with known contents.
LEMMA TotalIs ==
  ASSUME FileType(file), NEW t \in Nat, NEW p \in {"day", "month"}, NEW g, OwnRain(p, t)
  PROVE  Total(p, t, g) = FiledIn(file, Minutes(p, t))
<1> DEFINE y == Year(t)
           f == file[Name(y)]
           o == t % YearLen
           L == Length[p]
           a == Begin(p, o) + 1
           b == Begin(p, o) + L
           S == SlotsRead(p, t)
           c == [i \in S |-> IF i \in DOMAIN f THEN f[i].rain ELSE g]
<1>1. /\ y * YearLen \in Nat /\ Begin(p, o) \in Nat /\ Begin(p, t) = y * YearLen + Begin(p, o)
      /\ b <= YearLen /\ p \in Running /\ y \in Nat
  BY BeginShift DEF Running
<1>2. L \in Nat \ {0}
  BY <1>1, Lengths DEF Periods
<1>3. S = a..b
  BY <1>1, SlotsAre
<1>4. Total(p, t, g) = SumFunctionOnSet(c, S)
  BY DEF Total
<1>5. a \in Nat \ {0} /\ b \in Nat
  BY <1>1, <1>2
<1>6. \A i \in S : c[i] = ContentIn(file, Stamp(y, i))
  <2> TAKE i \in S
  <2> HIDE DEF a, b
  <2>1. i \in 1..YearLen
    BY <1>1, <1>3, <1>5, Lengths
  <2> QED
    BY <2>1, OwnContent
<1>7. Minutes(p, t) = (Begin(p, t) + 1)..(Begin(p, t) + L)
  BY DEF Minutes
<1>8. Begin(p, t) + 1 = y * YearLen + a /\ Begin(p, t) + L = y * YearLen + b
  BY <1>1, <1>2
<1> HIDE DEF c, S, a, b, L, o, y
<1>9. SumFunctionOnSet(c, a..b) = FiledIn(file, (y * YearLen + a)..(y * YearLen + b))
  BY <1>1, <1>3, <1>5, <1>6, SlotsSum
<1> QED
  BY <1>3, <1>4, <1>7, <1>8, <1>9

LEMMA RestoredNat ==
  ASSUME FileType(file), NEW t \in Nat, t >= DayLen, NEW g \in {0, 1}
  PROVE  /\ DOMAIN Restored(t, g) \subseteq Periods
         /\ \A p \in DOMAIN Restored(t, g) : Restored(t, g)[p] \in Nat
<1>1. t - DayLen \in Nat
  BY Lengths
<1>2. CASE ~Readable(Year(t))
  <2>1. Restored(t, g) = <<>>
    BY <1>2 DEF Restored
  <2> QED
    BY <2>1
<1>3. CASE Readable(Year(t))
  <2> DEFINE F == IF Year(t - DayLen) = Year(t) \/ Readable(Year(t - DayLen))
                  THEN Periods ELSE Running
  <2>1. Restored(t, g) = [p \in F |-> IF p = "yesterday" THEN Total("day", t - DayLen, g)
                                                         ELSE Total(p, t, g)]
    BY <1>3 DEF Restored
  <2>2. F \subseteq Periods
    BY DEF Periods
  <2> HIDE DEF F
  <2>3. ASSUME NEW p \in F PROVE Restored(t, g)[p] \in Nat
    <3>1. CASE p = "yesterday"
      <4>1. "day" \in Running
        BY DEF Running
      <4>2. Total("day", t - DayLen, g) \in Nat
        BY <1>1, <4>1, TotalNat
      <4> QED
        BY <2>1, <3>1, <4>2
    <3>2. CASE p # "yesterday"
      <4>1. p \in Running
        BY <2>2, <3>2 DEF Periods
      <4>2. Total(p, t, g) \in Nat
        BY <4>1, TotalNat
      <4> QED
        BY <2>1, <3>2, <4>2
    <3> QED
      BY <3>1, <3>2
  <2> QED
    BY <2>1, <2>2, <2>3
<1> QED
  BY <1>2, <1>3

\* What calculate_rain makes of the archive is what the archive holds.
LEMMA RestoredIs ==
  ASSUME IInv, NEW t \in Nat, old <= t, NEW g \in {0, 1},
         NEW p \in Agreeing(Restored(t, g), t)
  PROVE  Restored(t, g)[p] = FiledIn(file, Minutes(p, t))
<1> DEFINE v == Restored(t, g)
           y == Year(t)
<1>1. FileType(file) /\ old \in Nat /\ old >= DayLen /\ t >= DayLen /\ DayLen \in Nat \ {0}
  <2>1. FileType(file) /\ old \in Nat /\ old >= DayLen /\ DayLen \in Nat \ {0}
    BY Figures, Lengths DEF IInv, CardInv
  <2> QED
    BY <2>1
<1>2. y \in Nat /\ t - DayLen \in Nat
  BY <1>1, YearIs
<1>3. p \in DOMAIN v /\ v # <<>>
  BY DEF Agreeing
<1>4. Readable(y)
  BY <1>3 DEF Restored
<1>5. /\ p # "yesterday" => v[p] = Total(p, t, g)
      /\ p = "yesterday" => v[p] = Total("day", t - DayLen, g)
  BY <1>3, <1>4 DEF Restored
<1> HIDE DEF v
<1>6. /\ p # "yesterday" => OwnRain(p, t)
      /\ p = "yesterday" => OwnRain("day", t - DayLen)
      /\ p \in {"day", "month", "year", "yesterday"}
  BY DEF Agreeing
<1>7. CASE p \in {"day", "month"}
  BY <1>1, <1>5, <1>6, <1>7, TotalIs DEF v
<1>8. CASE p = "year"
  <2> DEFINE o == t % YearLen
             b == Begin("day", o) + DayLen
             f == file[Name(y)]
             c == [i \in SlotsRead(p, t) |-> IF i \in DOMAIN f THEN f[i].rain ELSE g]
             K == y * YearLen
             S == Minutes("year", t)
             D == (K + 1)..(K + b)
  <2>1. /\ K \in Nat /\ o \in 0..YearLen - 1 /\ t = K + o /\ b <= YearLen
        /\ Begin("day", o) \in Nat /\ o < b
    BY BeginShift, Lengths
  <2>2. SlotsRead(p, t) = 1..b
    BY <1>8, SlotsAre DEF Running
  <2>3. v[p] = SumFunctionOnSet(c, 1..b)
    BY <1>5, <1>8, <2>2 DEF Total
  <2>4. b \in Nat /\ YearLen \in Nat
    BY <1>1, <2>1, Lengths
  <2>5. \A i \in 1..b : c[i] = ContentIn(file, Stamp(y, i))
    <3> TAKE i \in 1..b
    <3>1. i \in 1..YearLen /\ i \in SlotsRead(p, t)
      <4> HIDE DEF b
      <4> QED
        BY <2>1, <2>2, <2>4
    <3> QED
      BY <1>1, <1>6, <1>8, <3>1, OwnContent
  <2>6. SumFunctionOnSet(c, 1..b) = FiledIn(file, D)
    <3>1. FileType(file) /\ y \in Nat /\ 1 \in Nat \ {0} /\ b \in Nat /\ b <= YearLen
      BY <1>1, <1>2, <2>1, <2>4
    <3> HIDE DEF c, b, y, o, f, S
    <3>2. SumFunctionOnSet(c, 1..b) = FiledIn(file, (y * YearLen + 1)..(y * YearLen + b))
      BY <2>5, <3>1, SlotsSum
    <3> QED
      BY <3>2
  <2>7. S = (K + 1)..(K + YearLen)
    <3>1. Begin("year", t) = t - (t % YearLen)
      BY Lengths DEF Begin
    <3>2. Begin("year", t) = K
      <4> HIDE DEF K
      <4> QED
        BY <2>1, <3>1
    <3> QED
      BY <3>2, Lengths DEF Minutes
  <2>8. S \in SUBSET (Nat \ {0}) /\ IsFiniteSet(S)
    BY <1>1, MinutesAre DEF Periods, Running
  <2> HIDE DEF b, K, o
  <2>9. D \in SUBSET S
    BY <2>1, <2>4, <2>7
  <2>10. ASSUME NEW m \in S \ D PROVE ContentIn(file, m) = 0
    <3>1. m \in Nat \ {0} /\ m > K + b
      BY <2>1, <2>4, <2>7
    <3>2. m > old
      BY <1>1, <2>1, <2>4, <3>1
    <3>3. FiledIn(file, {m}) = 0
      <4>1. {m} \in SUBSET (Nat \ {0}) /\ IsFiniteSet({m})
        BY <3>1, FS_Singleton
      <4> QED
        BY <3>2, <4>1, NothingToCome
    <3>4. FiledIn(file, {m}) = ContentIn(file, m)
      <4> DEFINE d == [x \in {m} |-> ContentIn(file, x)]
      <4>1. FiledIn(file, {m}) = SumFunctionOnSet(d, {m}) /\ d[m] = ContentIn(file, m)
        BY DEF FiledIn
      <4>2. ContentIn(file, m) \in Nat
        BY <1>1, <3>1, ContentNat
      <4> HIDE DEF d
      <4>3. PICK x \in {m} : SumFunctionOnSet(d, {m}) = d[x] + SumFunctionOnSet(d, {m} \ {x})
        BY FS_Singleton, SumSome
      <4>4. SumFunctionOnSet(d, {m} \ {x}) = 0
        <5>1. {m} \ {x} = {}
          OBVIOUS
        <5> QED
          BY <5>1, SumEmpty
      <4> QED
        BY <4>1, <4>2, <4>3, <4>4
    <3> QED
      BY <3>3, <3>4
  <2>11. FiledIn(file, S) = FiledIn(file, D)
    <3> HIDE DEF S, D
    <3> QED
      BY <1>1, <2>8, <2>9, <2>10, FiledDrop
  <2> QED
    BY <1>8, <2>3, <2>6, <2>11 DEF v
<1>9. CASE p = "yesterday"
  <2> DEFINE b == t - DayLen
  <2>1. Minutes(p, t) = Minutes("day", b) /\ b \in Nat
    BY <1>1, <1>9, DayBefore
  <2>2. Total("day", b, g) = FiledIn(file, Minutes("day", b))
    BY <1>1, <1>6, <1>9, <2>1, TotalIs
  <2> QED
    BY <1>5, <1>9, <2>1, <2>2 DEF v
<1> QED
  BY <1>7, <1>8, <1>9 DEF Agreeing, v

-----------------------------------------------------------------------------
(* The menu and calculate_rain                                             *)

LEMMA MaxIs ==
  ASSUME NEW S, NEW m \in S, \A x \in S : x \in Int /\ m >= x
  PROVE  Max(S) = m
<1>1. Max(S) \in S /\ \A x \in S : Max(S) >= x
  BY DEF Max
<1> QED
  BY <1>1

\* The longest of a file's length and what a call of the erase makes of it.
LEMMA LengthIs ==
  ASSUME NEW len \in Nat, NEW R, R \in {{}, {1}, 1..YearLen}
  PROVE  LET m == Max({len} \cup {i + 1 : i \in R})
         IN  m \in {len, 2, YearLen + 1} /\ len <= m /\ \A i \in R : i < m
<1> DEFINE S == {len} \cup {i + 1 : i \in R}
<1>1. YearLen \in Nat /\ YearLen >= 2
  BY Lengths
<1>2. CASE R = {}
  <2>1. S = {len}
    BY <1>2
  <2> HIDE DEF S
  <2>2. Max(S) = len
    BY <2>1, MaxIs
  <2> QED
    BY <1>2, <2>2 DEF S
<1>3. CASE R = {1}
  <2> DEFINE m == IF len >= 2 THEN len ELSE 2
  <2>1. S = {len, 2}
    BY <1>3
  <2> HIDE DEF S
  <2>4. m \in S
    BY <2>1
  <2>2. \A x \in S : x \in Int /\ m >= x
    BY <2>1
  <2> HIDE DEF m
  <2>3. Max(S) = m
    BY <2>2, <2>4, MaxIs
  <2>5. m \in {len, 2} /\ len <= m /\ 1 < m
    BY DEF m
  <2> QED
    BY <1>3, <2>3, <2>5 DEF S
<1>4. CASE R = 1..YearLen
  <2> DEFINE m == IF len >= YearLen + 1 THEN len ELSE YearLen + 1
  <2>1. m \in S
    <3>1. YearLen \in R
      BY <1>1, <1>4
    <3> QED
      BY <3>1
  <2>2. ASSUME NEW x \in S PROVE x \in Int /\ m >= x
    <3>1. CASE x = len
      BY <1>1, <3>1
    <3>2. CASE x # len
      <4>1. PICK i \in 1..YearLen : x = i + 1
        BY <1>4, <3>2
      <4> QED
        BY <1>1, <4>1
    <3> QED
      BY <3>1, <3>2
  <2> HIDE DEF S, m
  <2>3. Max(S) = m
    BY <2>1, <2>2, MaxIs
  <2>4. m \in {len, YearLen + 1} /\ len <= m /\ YearLen < m
    BY <1>1 DEF m
  <2>5. m \in Nat /\ \A i \in R : i < m
    BY <1>1, <1>4, <2>4
  <2> QED
    BY <2>3, <2>4, <2>5 DEF S
<1> QED
  BY <1>2, <1>3, <1>4

\* The slots of the calls: all of one file's, or the first.
LEMMA CallsAre ==
  ASSUME now \in Nat
  PROVE  /\ EraseCall(1) \subseteq Names \X (1..YearLen)
         /\ EraseCall(2) \subseteq Names \X (1..YearLen)
         /\ \A X \in {{}, EraseCall(1), EraseCall(2), EraseCall(1) \cup EraseCall(2)} :
              \A n \in Names : {j \in 1..YearLen : <<n, j>> \in X} \in {{}, {1}, 1..YearLen}
<1>1. Name(Year(now)) \in Names /\ Name(Year(now) + 1) \in Names /\ 1 \in 1..YearLen
  BY YearIs, NamesAre, Lengths
<1>2. /\ EraseCall(1) = {Name(Year(now))} \X (1..YearLen)
      /\ EraseCall(2) = {<<Name(Year(now) + 1), 1>>}
  BY DEF EraseCall
<1>3. ASSUME NEW X, NEW n \in Names
      PROVE  /\ X = {} => {j \in 1..YearLen : <<n, j>> \in X} = {}
             /\ X = EraseCall(1) => {j \in 1..YearLen : <<n, j>> \in X} \in {{}, 1..YearLen}
             /\ X = EraseCall(2) => {j \in 1..YearLen : <<n, j>> \in X} \in {{}, {1}}
  <2>1. X = EraseCall(1) => {j \in 1..YearLen : <<n, j>> \in X} \in {{}, 1..YearLen}
    <3>1. CASE n = Name(Year(now))
      BY <1>2, <3>1
    <3>2. CASE n # Name(Year(now))
      BY <1>2, <3>2
    <3> QED
      BY <3>1, <3>2
  <2>2. X = EraseCall(2) => {j \in 1..YearLen : <<n, j>> \in X} \in {{}, {1}}
    <3>1. CASE n = Name(Year(now) + 1)
      BY <1>1, <1>2, <3>1
    <3>2. CASE n # Name(Year(now) + 1)
      BY <1>2, <3>2
    <3> QED
      BY <3>1, <3>2
  <2> QED
    BY <2>1, <2>2
<1>4. ASSUME NEW n \in Names
      PROVE  {j \in 1..YearLen : <<n, j>> \in EraseCall(1) \cup EraseCall(2)} \in {{}, {1}, 1..YearLen}
  <2> DEFINE R1 == {j \in 1..YearLen : <<n, j>> \in EraseCall(1)}
             R2 == {j \in 1..YearLen : <<n, j>> \in EraseCall(2)}
  <2>1. R1 \in {{}, 1..YearLen} /\ R2 \in {{}, {1}}
    BY <1>3
  <2>2. {j \in 1..YearLen : <<n, j>> \in EraseCall(1) \cup EraseCall(2)} = R1 \cup R2
    OBVIOUS
  <2> HIDE DEF R1, R2
  <2> QED
    BY <1>1, <2>1, <2>2
<1> QED
  BY <1>1, <1>2, <1>3, <1>4

\* What the erase does, however far its two calls come.
LEMMA EraseIs ==
  ASSUME IInv, MenuErase
  PROVE  \E zeroed, lost \in SUBSET (Names \X (1..YearLen)) :
           /\ file' = [n \in Names |->
                         [i \in {j \in 1 .. YearLen : \/ <<n, j>> \in zeroed
                                                      \/ j \in DOMAIN file[n] /\ <<n, j>> \notin lost}
                            |-> IF <<n, i>> \in zeroed THEN [t |-> 0, rain |-> 0]
                                                       ELSE file[n][i]]]
           /\ whole' = [p \in Periods |-> zeroed = {} /\ lost = {} /\ whole[p]]
           /\ DOMAIN fileLen' = Names
           /\ \A n \in Names : /\ fileLen'[n] \in {fileLen[n], 2, YearLen + 1}
                               /\ fileLen[n] <= fileLen'[n]
                               /\ \A j : <<n, j>> \in zeroed => j < fileLen'[n]
           /\ \/ erase' = [erase EXCEPT !.step = "erased"] /\ UNCHANGED sdErrors
              \/ erase' = erase /\ sdErrors < MaxSdErrors /\ sdErrors' = sdErrors + 1
<1> DEFINE failed(calls) == IF calls < 2 THEN EraseCall(calls + 1) ELSE {}
           done(calls) == UNION {EraseCall(c) : c \in 1 .. calls}
<1>1. PICK calls \in 0..2 :
        \E zero \in {{}, failed(calls)}, lost \in {{}, failed(calls)}, grown \in {{}, failed(calls)} :
          /\ file' = [n \in Names |->
                        [i \in {j \in 1 .. YearLen : \/ <<n, j>> \in zero \cup done(calls)
                                                     \/ j \in DOMAIN file[n] /\ <<n, j>> \notin lost}
                           |-> IF <<n, i>> \in zero \cup done(calls) THEN [t |-> 0, rain |-> 0]
                                                                     ELSE file[n][i]]]
          /\ fileLen' = [n \in Names |->
                           Max({fileLen[n]} \cup
                               {i + 1 : i \in {j \in 1 .. YearLen :
                                                  <<n, j>> \in (zero \cup done(calls)) \cup grown}})]
          /\ whole' = [p \in Periods |-> zero \cup done(calls) = {} /\ lost = {} /\ whole[p]]
          /\ IF calls = 2
             THEN erase' = [erase EXCEPT !.step = "erased"] /\ UNCHANGED sdErrors
             ELSE /\ sdErrors < MaxSdErrors /\ sdErrors' = sdErrors + 1
                  /\ UNCHANGED erase
  BY DEF MenuErase
<1>2. PICK zero \in {{}, failed(calls)}, lost \in {{}, failed(calls)}, grown \in {{}, failed(calls)} :
        /\ file' = [n \in Names |->
                      [i \in {j \in 1 .. YearLen : \/ <<n, j>> \in zero \cup done(calls)
                                                   \/ j \in DOMAIN file[n] /\ <<n, j>> \notin lost}
                         |-> IF <<n, i>> \in zero \cup done(calls) THEN [t |-> 0, rain |-> 0]
                                                                   ELSE file[n][i]]]
        /\ fileLen' = [n \in Names |->
                         Max({fileLen[n]} \cup
                             {i + 1 : i \in {j \in 1 .. YearLen :
                                                <<n, j>> \in (zero \cup done(calls)) \cup grown}})]
        /\ whole' = [p \in Periods |-> zero \cup done(calls) = {} /\ lost = {} /\ whole[p]]
        /\ IF calls = 2
           THEN erase' = [erase EXCEPT !.step = "erased"] /\ UNCHANGED sdErrors
           ELSE /\ sdErrors < MaxSdErrors /\ sdErrors' = sdErrors + 1
                /\ UNCHANGED erase
  BY <1>1
<1>3. now \in Nat
  BY DEF IInv, ClockInv
<1> DEFINE zeroed == zero \cup done(calls)
           X == zeroed \cup grown
<1>4. /\ done(0) = {} /\ done(1) = EraseCall(1) /\ done(2) = EraseCall(1) \cup EraseCall(2)
      /\ failed(0) = EraseCall(1) /\ failed(1) = EraseCall(2) /\ failed(2) = {}
  <2>1. 1 .. 0 = {} /\ 1 .. 1 = {1} /\ 1 .. 2 = {1, 2}
    OBVIOUS
  <2> QED
    BY <2>1
<1> HIDE DEF failed, done
<1>5. calls = 0 \/ calls = 1 \/ calls = 2
  OBVIOUS
<1>6. /\ zeroed \in {{}, EraseCall(1), EraseCall(1) \cup EraseCall(2)}
      /\ X \in {{}, EraseCall(1), EraseCall(1) \cup EraseCall(2)}
  <2>1. CASE calls = 0
    BY <1>4, <2>1
  <2>2. CASE calls = 1
    BY <1>4, <2>2
  <2>3. CASE calls = 2
    BY <1>4, <2>3
  <2> QED
    BY <1>5, <2>1, <2>2, <2>3
<1>7. zeroed \in SUBSET (Names \X (1..YearLen)) /\ lost \in SUBSET (Names \X (1..YearLen))
  <2>1. failed(calls) \in {{}, EraseCall(1), EraseCall(2)}
    BY <1>4, <1>5
  <2> QED
    BY <1>3, <1>6, <2>1, CallsAre
<1>8. ASSUME NEW n \in Names
      PROVE  /\ fileLen'[n] \in {fileLen[n], 2, YearLen + 1} /\ fileLen[n] <= fileLen'[n]
             /\ \A j : <<n, j>> \in zeroed => j < fileLen'[n]
  <2> DEFINE R == {j \in 1 .. YearLen : <<n, j>> \in X}
  <2>1. R \in {{}, {1}, 1..YearLen}
    BY <1>3, <1>6, CallsAre
  <2>2. fileLen[n] \in Nat
    BY DEF IInv, CardInv
  <2>3. fileLen'[n] = Max({fileLen[n]} \cup {i + 1 : i \in R})
    BY <1>2
  <2>4. \A j : <<n, j>> \in zeroed => j \in R
    BY <1>7
  <2> HIDE DEF R
  <2>5. PICK len \in Nat : len = fileLen[n]
    BY <2>2
  <2> DEFINE top == Max({len} \cup {i + 1 : i \in R})
  <2>6. top \in {len, 2, YearLen + 1} /\ len <= top /\ \A i \in R : i < top
    BY <2>1, LengthIs
  <2>7. top = fileLen'[n]
    BY <2>3, <2>5
  <2> HIDE DEF top, zeroed
  <2> QED
    BY <2>4, <2>5, <2>6, <2>7
<1>9. DOMAIN fileLen' = Names
  BY <1>2
<1>10. \/ erase' = [erase EXCEPT !.step = "erased"] /\ UNCHANGED sdErrors
       \/ erase' = erase /\ sdErrors < MaxSdErrors /\ sdErrors' = sdErrors + 1
  BY <1>2
<1>11. /\ file' = [n \in Names |->
                     [i \in {j \in 1 .. YearLen : \/ <<n, j>> \in zeroed
                                                  \/ j \in DOMAIN file[n] /\ <<n, j>> \notin lost}
                        |-> IF <<n, i>> \in zeroed THEN [t |-> 0, rain |-> 0]
                                                   ELSE file[n][i]]]
       /\ whole' = [p \in Periods |-> zeroed = {} /\ lost = {} /\ whole[p]]
  BY <1>2
<1> HIDE DEF zeroed
<1>12. \A n \in Names : /\ fileLen'[n] \in {fileLen[n], 2, YearLen + 1}
                        /\ fileLen[n] <= fileLen'[n]
                        /\ \A j : <<n, j>> \in zeroed => j < fileLen'[n]
  BY <1>8
<1>13. lost \in SUBSET (Names \X (1..YearLen)) /\ zeroed \in SUBSET (Names \X (1..YearLen))
  BY <1>7
<1> USE <1>13
<1> WITNESS zeroed \in SUBSET (Names \X (1..YearLen)), lost \in SUBSET (Names \X (1..YearLen))
<1> QED
  BY <1>9, <1>10, <1>11, <1>12

LEMMA MenuEraseKeeps == IInv /\ MenuErase => IInv'
<1> SUFFICES ASSUME IInv, MenuErase PROVE IInv'
  OBVIOUS
<1>1. /\ pc = "run" /\ pc' = pc /\ erases' = erases + 1 /\ erases < MaxErases
      /\ UNCHANGED <<now, readAt, old, min, acc, report, queue, held, missed, rained, powerLosses>>
  BY DEF MenuErase, ram
<1>2. Path' = Path
  BY <1>1 DEF Path
<1>3. PICK zeroed, lost \in SUBSET (Names \X (1..YearLen)) :
           /\ file' = [n \in Names |->
                         [i \in {j \in 1 .. YearLen : \/ <<n, j>> \in zeroed
                                                      \/ j \in DOMAIN file[n] /\ <<n, j>> \notin lost}
                            |-> IF <<n, i>> \in zeroed THEN [t |-> 0, rain |-> 0]
                                                       ELSE file[n][i]]]
           /\ whole' = [p \in Periods |-> zeroed = {} /\ lost = {} /\ whole[p]]
           /\ DOMAIN fileLen' = Names
           /\ \A n \in Names : /\ fileLen'[n] \in {fileLen[n], 2, YearLen + 1}
                               /\ fileLen[n] <= fileLen'[n]
                               /\ \A j : <<n, j>> \in zeroed => j < fileLen'[n]
           /\ \/ erase' = [erase EXCEPT !.step = "erased"] /\ UNCHANGED sdErrors
              \/ erase' = erase /\ sdErrors < MaxSdErrors /\ sdErrors' = sdErrors + 1
  BY EraseIs
<1>4. FileType(file)
  BY DEF IInv, CardInv
<1>5. ASSUME NEW n \in Names
      PROVE  /\ DOMAIN file'[n] \subseteq 1..YearLen
             /\ \A i \in DOMAIN file'[n] :
                  \/ <<n, i>> \in zeroed /\ file'[n][i] = [t |-> 0, rain |-> 0]
                  \/ i \in DOMAIN file[n] /\ file'[n][i] = file[n][i]
  BY <1>3
<1>6. FileType(file')
  <2>1. ASSUME NEW n \in Names, NEW i \in DOMAIN file'[n]
        PROVE  file'[n][i] \in [t : Nat, rain : Nat]
    <3>1. CASE file'[n][i] = [t |-> 0, rain |-> 0]
      BY <3>1
    <3>2. CASE i \in DOMAIN file[n] /\ file'[n][i] = file[n][i]
      BY <1>4, <3>2 DEF FileType
    <3> QED
      BY <1>5, <3>1, <3>2
  <2>2. DOMAIN file' = Names
    BY <1>3
  <2> QED
    BY <1>5, <2>1, <2>2 DEF FileType
<1>7. CardInv'
  <2>1. ASSUME NEW n \in Names
        PROVE  fileLen'[n] \in 0..MaxYearLen + 1 /\ \A i \in DOMAIN file'[n] : i < fileLen'[n]
    <3>1. fileLen[n] \in 0..MaxYearLen + 1 /\ fileLen[n] <= fileLen'[n]
          /\ fileLen'[n] \in {fileLen[n], 2, YearLen + 1}
      BY <1>3 DEF IInv, CardInv
    <3>2. YearLen \in Nat /\ YearLen >= 2 /\ MaxYearLen \in Nat /\ YearLen <= MaxYearLen
      BY Lengths, ConstantsAre
    <3>3. fileLen'[n] \in 0..MaxYearLen + 1
      BY <3>1, <3>2
    <3>4. ASSUME NEW i \in DOMAIN file'[n] PROVE i < fileLen'[n]
      <4>1. CASE <<n, i>> \in zeroed
        BY <1>3, <4>1
      <4>2. CASE <<n, i>> \notin zeroed
        <5>1. i \in DOMAIN file[n]
          BY <1>5, <4>2
        <5>2. i < fileLen[n] /\ i \in Nat
          BY <1>4, <5>1 DEF IInv, CardInv, FileType
        <5> QED
          BY <3>1, <3>3, <5>2
      <4> QED
        BY <4>1, <4>2
    <3> QED
      BY <3>3, <3>4
  <2> QED
    BY <1>3, <1>6, <2>1 DEF CardInv
<1>8. ClockInv' /\ RamInv' /\ PathInv' /\ IdleInv' /\ RestoredInv' /\ RainInv'
  BY <1>1, <1>2 DEF IInv, ClockInv, RamInv, PathInv, IdleInv, RestoredInv, RainInv
<1>9. MenuInv'
  BY <1>3 DEF IInv, MenuInv
<1>10. HistoryInv'
  <2>1. erases' \in 0..MaxErases /\ sdErrors' \in 0..MaxSdErrors
    BY <1>1, <1>3, ConstantsAre DEF IInv, HistoryInv
  <2>2. whole' \in [Periods -> BOOLEAN]
    <3>1. \A p \in Periods : (zeroed = {} /\ lost = {} /\ whole[p]) \in BOOLEAN
      OBVIOUS
    <3> QED
      BY <1>3, <3>1
  <2> QED
    BY <1>1, <2>1, <2>2 DEF IInv, HistoryInv
<1>11. FileInv'
  <2>1. ASSUME NEW n \in Names, NEW i \in DOMAIN file'[n], file'[n][i].t > 0
        PROVE  i \in DOMAIN file[n] /\ file'[n][i] = file[n][i]
    <3>1. ~(0 > 0) /\ [t |-> 0, rain |-> 0].t = 0
      OBVIOUS
    <3> QED
      BY <1>5, <2>1, <3>1
  <2> QED
    BY <1>1, <1>2, <2>1 DEF IInv, FileInv
<1>12. BooksInv'
  <2>1. ASSUME NEW p \in Periods, whole'[p]
        PROVE  acc[p] = Made(p)'
    <3>1. zeroed = {} /\ lost = {} /\ whole[p]
      BY <1>3, <2>1
    <3>2. ASSUME NEW n \in Names
          PROVE  DOMAIN file'[n] = DOMAIN file[n]
                 /\ \A i \in DOMAIN file[n] : file'[n][i] = file[n][i]
      <4>1. DOMAIN file[n] \subseteq 1..YearLen
        BY <1>4 DEF FileType
      <4> QED
        BY <1>3, <3>1, <4>1
    <3>3. ASSUME NEW t \in Nat \ {0} PROVE ContentIn(file, t) = ContentIn(file', t)
      <4>1. PICK y \in Nat, i \in 1..YearLen : Slot(t) = <<Name(y), i>> /\ Name(y) \in Names
        BY StampSlot, NamesAre
      <4> QED
        BY <3>2, <4>1 DEF ContentIn
    <3>4. FiledIn(file, Minutes(p, old)) = FiledIn(file', Minutes(p, old))
      <4>1. Minutes(p, old) \in SUBSET (Nat \ {0}) /\ IsFiniteSet(Minutes(p, old))
        BY Figures
      <4>2. \A t \in Minutes(p, old) : ContentIn(file, t) = ContentIn(file', t)
        BY <3>3, <4>1
      <4> QED
        BY <4>1, <4>2, FiledSame
    <3>5. acc[p] = Made(p)
      BY <1>1, <3>1 DEF IInv, BooksInv
    <3> QED
      BY <1>1, <1>2, <3>4, <3>5 DEF Made
  <2> QED
    BY <1>1, <2>1 DEF BooksInv
<1> QED
  BY <1>7, <1>8, <1>9, <1>10, <1>11, <1>12 DEF IInv

\* What calculate_rain leaves behind, whichever way it returns.
LEMMA CalculateIs ==
  ASSUME IInv, NEW v \in {<<>>} \cup {Restored(now, g) : g \in {0, 1}}, Calculates(now, v)
  PROVE  /\ DOMAIN v \subseteq Periods /\ \A p \in DOMAIN v : v[p] \in Nat
         /\ \A p \in Agreeing(v, now) : p \in DOMAIN v /\ v[p] = FiledIn(file, Minutes(p, now))
         /\ sdErrors' \in 0..MaxSdErrors
<1>1. /\ now \in Nat /\ old <= now /\ now <= LastMinute /\ now >= DayLen /\ FileType(file)
  BY Figures, Lengths DEF IInv, ClockInv, CardInv
<1>2. sdErrors' \in 0..MaxSdErrors
  <2>1. sdErrors' = sdErrors \/ (sdErrors < MaxSdErrors /\ sdErrors' = sdErrors + 1)
    BY DEF Calculates
  <2>2. sdErrors \in 0..MaxSdErrors /\ MaxSdErrors \in Nat
    BY ConstantsAre DEF IInv, HistoryInv
  <2> QED
    BY <2>1, <2>2
<1>3. CASE v = <<>>
  <2>1. DOMAIN v = {}
    BY <1>3
  <2> QED
    BY <1>2, <2>1 DEF Agreeing
<1>4. CASE v # <<>>
  <2>1. PICK g \in {0, 1} : v = Restored(now, g)
    BY <1>4
  <2>2. DOMAIN v \subseteq Periods /\ \A p \in DOMAIN v : v[p] \in Nat
    BY <1>1, <2>1, RestoredNat
  <2>3. \A p \in Agreeing(v, now) : v[p] = FiledIn(file, Minutes(p, now))
    BY <1>1, <2>1, RestoredIs
  <2>4. \A p \in Agreeing(v, now) : p \in DOMAIN v
    BY DEF Agreeing
  <2> QED
    BY <1>2, <2>2, <2>3, <2>4
<1> QED
  BY <1>3, <1>4

LEMMA AssignedNat ==
  ASSUME acc \in [Periods -> Nat], NEW v, \A p \in DOMAIN v : v[p] \in Nat
  PROVE  Assigned(v) \in [Periods -> Nat]
BY DEF Assigned

LEMMA MenuReadKeeps == IInv /\ MenuRead => IInv'
<1> SUFFICES ASSUME IInv, MenuRead PROVE IInv'
  OBVIOUS
<1>1. PICK v \in {<<>>} \cup {Restored(now, g) : g \in {0, 1}} :
        Calculates(now, v) /\ erase' = [step |-> "read", acc |-> v]
  BY DEF MenuRead
<1>2. /\ UNCHANGED <<now, pc, ram, card, books, rained, powerLosses, erases>>
      /\ erase.step = "erased" /\ erase \in [step : {"idle", "erased", "read"}, acc : {erase.acc}]
  BY DEF MenuRead, IInv, MenuInv
<1>3. pc = "run"
  BY <1>2 DEF IInv, IdleInv, ClockInv
<1> USE <1>2 DEF ram, card, books
<1>4. Path' = Path
  BY DEF Path
<1>5. ClockInv' /\ RamInv' /\ CardInv' /\ IdleInv'
  BY <1>3 DEF IInv, ClockInv, RamInv, CardInv, IdleInv
<1>6. MenuInv'
  BY <1>1, CalculateIs DEF MenuInv
<1>7. HistoryInv'
  BY <1>1, CalculateIs DEF IInv, HistoryInv
<1>8. PathInv' /\ FileInv' /\ RainInv'
  BY <1>4 DEF IInv, PathInv, FileInv, RainInv
<1>9. RestoredInv' /\ BooksInv'
  BY <1>4 DEF IInv, RestoredInv, BooksInv, Made
<1> QED
  BY <1>5, <1>6, <1>7, <1>8, <1>9 DEF IInv

LEMMA MenuAssignKeeps == IInv /\ MenuAssign => IInv'
<1> SUFFICES ASSUME IInv, MenuAssign PROVE IInv'
  OBVIOUS
<1> USE DEF MenuAssign, card, bounds
<1>1. Path' = Path /\ pc = "run"
  BY DEF Path, IInv, IdleInv, ClockInv
<1>2. ClockInv' /\ CardInv' /\ IdleInv' /\ MenuInv'
  BY <1>1 DEF IInv, ClockInv, CardInv, IdleInv, MenuInv
<1>3. RamInv'
  <2>1. acc' \in [Periods -> Nat]
    BY AssignedNat DEF IInv, RamInv, MenuInv
  <2> QED
    BY <2>1 DEF IInv, RamInv
<1>4. HistoryInv'
  <2>1. whole' \in [Periods -> BOOLEAN]
    OBVIOUS
  <2> QED
    BY <2>1 DEF IInv, HistoryInv
<1>5. PathInv' /\ FileInv' /\ RainInv' /\ RestoredInv'
  BY <1>1 DEF IInv, PathInv, FileInv, RainInv, RestoredInv
<1>6. BooksInv'
  <2>1. ASSUME NEW p \in Periods, whole'[p]
        PROVE  acc'[p] = Made(p)'
    <3>1. p \notin DOMAIN erase.acc /\ whole[p]
      BY <2>1
    <3>2. acc'[p] = acc[p]
      BY <3>1 DEF Assigned
    <3>3. acc[p] = Made(p)
      BY <1>1, <3>1 DEF IInv, BooksInv
    <3> QED
      BY <1>1, <3>2, <3>3 DEF Made
  <2> QED
    BY <2>1 DEF BooksInv
<1> QED
  BY <1>2, <1>3, <1>4, <1>5, <1>6 DEF IInv

LEMMA CalculateRainKeeps == IInv /\ CalculateRain => IInv'
<1> SUFFICES ASSUME IInv, CalculateRain PROVE IInv'
  OBVIOUS
<1>1. PICK v \in {<<>>} \cup {Restored(now, g) : g \in {0, 1}} :
        /\ Calculates(now, v) /\ acc' = Assigned(v)
        /\ whole' = [p \in Periods |-> p \in Agreeing(v, now)]
  BY DEF CalculateRain
<1>2. /\ pc = "boot" /\ readAt' = now /\ pc' = "delay"
      /\ UNCHANGED <<now, old, min, report, queue, held, card, erase, missed,
                     rained, powerLosses, erases>>
  BY DEF CalculateRain
<1> USE <1>2 DEF card
<1>3. Path' = Path
  BY DEF Path
<1>4. ClockInv' /\ CardInv' /\ IdleInv' /\ MenuInv' /\ BooksInv'
  <2>1. StartAt \in Nat /\ LastMinute \in Nat
    BY ConstantsAre
  <2>2. ClockInv'
    BY SMTT(30), <2>1 DEF IInv, ClockInv
  <2>3. CardInv' /\ MenuInv'
    BY SMTT(30) DEF IInv, CardInv, MenuInv
  <2>4. IdleInv' /\ BooksInv'
    BY SMTT(30) DEF IInv, IdleInv, BooksInv
  <2> QED
    BY <2>2, <2>3, <2>4
<1>5. RamInv'
  <2>1. acc' \in [Periods -> Nat]
    BY <1>1, CalculateIs, AssignedNat DEF IInv, RamInv
  <2> QED
    BY <2>1 DEF IInv, RamInv
<1>6. HistoryInv'
  <2>1. whole' \in [Periods -> BOOLEAN]
    BY <1>1
  <2> QED
    BY <1>1, <2>1, CalculateIs DEF IInv, HistoryInv
<1>7. PathInv' /\ FileInv' /\ RainInv'
  BY <1>3 DEF IInv, PathInv, FileInv, RainInv
<1>8. RestoredInv'
  <2>1. ASSUME NEW p \in Periods, whole'[p]
        PROVE  acc'[p] = FiledIn(file, Minutes(p, now))
    <3>1. p \in Agreeing(v, now)
      BY <1>1, <2>1
    <3>2. p \in DOMAIN v /\ v[p] = FiledIn(file, Minutes(p, now))
      BY <1>1, <3>1, CalculateIs
    <3> QED
      BY <1>1, <3>2 DEF Assigned
  <2> QED
    BY <2>1 DEF RestoredInv
<1> QED
  BY <1>4, <1>5, <1>6, <1>7, <1>8 DEF IInv

\* The last minute filed in a slot is of that slot.
LEMMA PastIs ==
  ASSUME NEW n \in Names, NEW i \in 1..YearLen
  PROVE  Past(n, i) \in Nat /\ Past(n, i) <= StartAt /\ Slot(Past(n, i)) = <<n, i>>
<1> DEFINE M == Cycle * YearLen
           s == Stamp(n, i)
<1>1. /\ Cycle \in Nat \ {0} /\ YearLen \in Nat \ {0} /\ StartAt \in Nat /\ M <= StartAt
      /\ n \in Nat /\ n + 1 <= Cycle /\ n * YearLen \in Nat /\ M \in Nat \ {0}
  <2>1. Cycle \in Nat \ {0} /\ YearLen \in Nat \ {0} /\ StartAt \in Nat /\ M <= StartAt
    BY NamesAre, ConstantsAre
  <2>2. n \in Nat /\ n + 1 <= Cycle
    BY <2>1 DEF Names
  <2> QED
    BY <2>1, <2>2
<1>2. s = n * YearLen + i /\ s \in Nat /\ s <= M
  <2>1. (n + 1) * YearLen <= Cycle * YearLen /\ (n + 1) * YearLen = n * YearLen + YearLen
    BY <1>1
  <2> QED
    BY <1>1, <2>1 DEF Stamp
<1> DEFINE d == StartAt - s
           k == d \div M
           r == d % M
<1>3. d \in Nat
  BY <1>1, <1>2
<1>4. k \in Nat /\ r \in 0..M - 1 /\ d = k * M + r
  <2> HIDE DEF d, M
  <2> QED
    BY <1>1, <1>3, DivMod
<1>5. Past(n, i) = StartAt - r
  BY DEF Past
<1>6. k * M = (k * Cycle) * YearLen /\ k * M \in Nat /\ k * Cycle \in Nat
  <2> HIDE DEF k
  <2> QED
    BY <1>1, <1>4
<1> HIDE DEF k, r, M, s
<1>7. StartAt - r = s + k * M
  BY <1>1, <1>2, <1>4, <1>6
<1> DEFINE y == k * Cycle + n
<1>8. y \in Nat /\ Stamp(y, i) = s + k * M
  <2>1. (k * Cycle + n) * YearLen = (k * Cycle) * YearLen + n * YearLen
    BY <1>1, <1>4, <1>6
  <2> QED
    BY <1>1, <1>2, <1>6, <2>1 DEF Stamp
<1>9. Name(y) = n
  <2>1. n < Cycle
    BY <1>1
  <2> QED
    BY <1>1, <1>4, <2>1, Divide DEF Name
<1> HIDE DEF y
<1>10. Slot(Past(n, i)) = <<n, i>> /\ Past(n, i) \in Nat
  BY <1>5, <1>7, <1>8, <1>9, SlotStamp
<1> QED
  BY <1>1, <1>4, <1>5, <1>10

LEMMA InitHolds == Init => IInv
<1> SUFFICES ASSUME Init PROVE IInv
  OBVIOUS
<1>1. /\ now = StartAt /\ pc = "boot" /\ readAt = StartAt /\ old = StartAt
      /\ min = 0 /\ acc = [p \in Periods |-> 0]
      /\ report = [ten |-> 0, hour |-> 0, day |-> 0] /\ queue = <<>> /\ held = <<>>
      /\ erase = [step |-> "idle", acc |-> <<>>]
      /\ whole = [p \in Periods |-> FALSE] /\ missed = [p \in Periods |-> 0]
      /\ rained = 0 /\ powerLosses = 0 /\ sdErrors = 0 /\ erases = 0
  BY DEF Init
<1>2. Path = <<>>
  BY <1>1 DEF Path
<1>3. YearLen \in Nat \ {0} /\ QueueLen \in Nat /\ StartAt \in Nat /\ LastMinute \in Nat
      /\ StartAt <= LastMinute /\ MaxRain \in Nat /\ MaxPowerLosses \in Nat
      /\ MaxSdErrors \in Nat /\ MaxErases \in Nat
  BY ConstantsAre
<1>4. ClockInv /\ MenuInv /\ IdleInv /\ PathInv /\ RestoredInv /\ BooksInv
  BY <1>1, <1>2, <1>3 DEF ClockInv, MenuInv, IdleInv, PathInv, RestoredInv, BooksInv
<1>5. RamInv
  <2>1. <<>> \in Seq(Record) /\ Len(<<>>) = 0
    OBVIOUS
  <2>2. report \in [{"ten", "hour", "day"} -> Nat]
    BY <1>1
  <2> QED
    BY <1>1, <1>3, <2>1, <2>2 DEF RamInv
<1>6. HistoryInv
  BY <1>1, <1>3 DEF HistoryInv
<1>7. FileType(file) /\ CardInv /\ FileInv
  <2>1. CASE file = [n \in Names |-> <<>>] /\ fileLen = [n \in Names |-> 0]
    BY <1>3, <2>1, ConstantsAre DEF CardInv, FileType, FileInv
  <2>2. ASSUME NEW v \in LeftOver, NEW len \in {YearLen, MaxYearLen},
               file = [n \in Names |-> [i \in 1 .. YearLen |->
                                           [t |-> Past(n, i), rain |-> v]]],
               fileLen = [n \in Names |-> len + 1]
        PROVE  FileType(file) /\ CardInv /\ FileInv
    <3>1. v \in Nat /\ YearLen \in Nat /\ MaxYearLen \in Nat /\ YearLen <= MaxYearLen
      BY ConstantsAre
    <3>2. \A n \in Names : DOMAIN file[n] = 1..YearLen
      BY <2>2
    <3>3. \A n \in Names : \A i \in 1..YearLen : file[n][i] = [t |-> Past(n, i), rain |-> v]
      BY <2>2
    <3>4. FileType(file)
      BY <2>2, <3>1, <3>2, <3>3, PastIs DEF FileType
    <3>5. FileInv
      <4>1. ASSUME NEW n \in Names, NEW i \in DOMAIN file[n]
            PROVE  /\ Slot(file[n][i].t) = <<n, i>> /\ file[n][i].t <= old
                   /\ Path # <<>> => file[n][i].t < Path[1].t
        <5>1. i \in 1..YearLen /\ file[n][i].t = Past(n, i)
          <6>1. DOMAIN file[n] = 1..YearLen
            BY <3>2
          <6>2. i \in 1..YearLen
            BY <6>1
          <6>3. file[n][i] = [t |-> Past(n, i), rain |-> v]
            BY <3>3, <6>2
          <6> QED
            BY <6>2, <6>3
        <5>2. Slot(Past(n, i)) = <<n, i>> /\ Past(n, i) <= StartAt
          BY <5>1, PastIs
        <5>3. file[n][i].t <= old
          <6>1. old = StartAt
            BY <1>1
          <6> QED
            BY <5>1, <5>2, <6>1
        <5>4. Slot(file[n][i].t) = <<n, i>>
          BY <5>1, <5>2
        <5>5. Path # <<>> => file[n][i].t < Path[1].t
          BY <1>2
        <5> QED
          BY <5>3, <5>4, <5>5
      <4> QED
        BY <4>1 DEF FileInv
    <3>6. CardInv
      <4>1. ASSUME NEW n \in Names, NEW i \in DOMAIN file[n]
            PROVE  i < fileLen[n]
        BY <2>2, <3>1, <3>2
      <4>2. \A n \in Names : fileLen[n] \in 0..MaxYearLen + 1
        BY <2>2, <3>1
      <4> QED
        BY <2>2, <3>4, <4>1, <4>2 DEF CardInv
    <3> QED
      BY <3>4, <3>5, <3>6
  <2> QED
    BY <2>1, <2>2 DEF Init
<1>8. RainInv
  BY <1>1 DEF RainInv
<1> QED
  BY <1>4, <1>5, <1>6, <1>7, <1>8 DEF IInv

LEMMA NextKeeps == IInv /\ [Next]_vars => IInv'
<1> SUFFICES ASSUME IInv, [Next]_vars PROVE IInv'
  OBVIOUS
<1>1. CASE Clock
  BY <1>1, ClockKeeps
<1>2. CASE Aws
  BY <1>2, CalculateRainKeeps, AwsStartKeeps, SecProcessKeeps, MinuteTurnKeeps DEF Aws
<1>3. CASE Logging
  BY <1>3, LogTakeKeeps, LogWriteKeeps, LogFailKeeps DEF Logging
<1>4. CASE Menu
  BY <1>4, MenuEraseKeeps, MenuReadKeeps, MenuAssignKeeps DEF Menu
<1>5. CASE PowerLoss
  BY <1>5, PowerLossKeeps
<1>6. CASE Stopped \/ UNCHANGED vars
  BY <1>6, StutterKeeps DEF Stopped
<1> QED
  BY <1>1, <1>2, <1>3, <1>4, <1>5, <1>6 DEF Next

(* The inductive invariant: the records on the path are in the order of their*)
(* minutes and younger than every record filed, a record filed is in the slot*)
(* of its minute, and an accumulator said to be whole is the sum of its      *)
(* minutes, through schedule_process, loggingTask, calculate_rain, the menu, *)
(* torn sectors, resets and file names that come back.                       *)
THEOREM ArchiveInvariance == Spec => []IInv
<1>1. Init => IInv
  BY InitHolds
<1>2. IInv /\ [Next]_vars => IInv'
  BY NextKeeps
<1> QED
  BY <1>1, <1>2, PTL DEF Spec

LEMMA SumsAreTheSameAfter ==
  /\ \A S : Filed(S)' = FiledIn(file', S)
  /\ \A S : OnTheWay(S)' = Carried(Path', S)
BY DEF Filed, FiledIn, Content, ContentIn, OnTheWay, Carried

(* The state the code can be in, for any lengths of the periods, any queue   *)
(* and any outages: the queue within its length, the files within the slots  *)
(* of a year, each record of a minute that is over.                          *)
THEOREM ArchiveTypeCorrect == Spec => []TypeOK
<1>1. IInv => TypeOK
  <2> SUFFICES ASSUME IInv PROVE TypeOK
    OBVIOUS
  <2>1. min \in 0..MaxRain
    <3>1. min \in Nat /\ rained \in 0..MaxRain /\ min <= rained
      BY Figures DEF IInv, HistoryInv, RainInv
    <3>2. MaxRain \in Nat
      BY ConstantsAre
    <3> QED
      BY <3>1, <3>2
  <2>2. ASSUME NEW n \in Names
        PROVE  /\ fileLen[n] \in 0 .. MaxYearLen + 1
               /\ DOMAIN file[n] \subseteq 1 .. YearLen
               /\ \A i \in DOMAIN file[n] :
                    file[n][i] \in [t : 0 .. LastMinute, rain : Nat] /\ i < fileLen[n]
    <3>1. ASSUME NEW i \in DOMAIN file[n]
          PROVE  file[n][i] \in [t : 0 .. LastMinute, rain : Nat]
      <4>1. file[n][i] \in [t : Nat, rain : Nat]
        BY DEF IInv, CardInv, FileType
      <4>2. file[n][i].t > 0 => file[n][i].t <= old
        BY DEF IInv, FileInv
      <4>3. file[n][i].t \in 0..LastMinute
        <5>1. old \in Nat /\ old <= LastMinute /\ LastMinute \in Nat /\ file[n][i].t \in Nat
          BY <4>1, Figures, ConstantsAre
        <5> QED
          BY <4>2, <5>1
      <4> QED
        BY <4>1, <4>3
    <3> QED
      BY <3>1 DEF IInv, CardInv, FileType
  <2>3. now \in StartAt..LastMinute /\ readAt <= now /\ old <= now
    BY ConstantsAre DEF IInv, ClockInv
  <2> QED
    BY <2>1, <2>2, <2>3
       DEF TypeOK, IInv, ClockInv, RamInv, CardInv, FileType, MenuInv, HistoryInv
<1> QED
  BY <1>1, ArchiveInvariance, PTL

(* An accumulator that has been closed since the start, or restored from     *)
(* slots that hold rain of its own period only, is the sum of the minute     *)
(* records of its period, in the archive, on their way to it or lost, and    *)
(* the running minute.                                                       *)
THEOREM BooksHold == Spec => []Books
<1>1. IInv => Books
  BY SumsAreTheSame DEF IInv, BooksInv, Made, Books
<1> QED
  BY <1>1, ArchiveInvariance, PTL

(* The rain reported when ten minutes, an hour or a day close is the sum of  *)
(* the minute records of that period.                                        *)
THEOREM ReportsAddUpHolds == Spec => ReportsAddUp
<1> DEFINE Adds_up ==
      (pc = "run" /\ pc' = "run" /\ old' # old) =>
        \A p \in DOMAIN report : \A S \in {Minutes(p, old)} :
          (whole[p] /\ Closes(p, old, now)) =>
            report'[p] = Filed(S)' + OnTheWay(S)' + missed[p]
                           + (IF Len(queue) = QueueLen THEN min + (rained' - rained) ELSE 0)
<1>1. IInv /\ [Next]_vars => [Adds_up]_vars
  <2> SUFFICES ASSUME IInv, Next, pc = "run", pc' = "run", old' # old PROVE Adds_up
    OBVIOUS
  <2>1. MinuteTurn
    BY DEF Next, Clock, Aws, CalculateRain, AwsStart, SecProcess, Logging, LogTake, LogWrite,
           LogFail, Menu, MenuErase, MenuRead, MenuAssign, PowerLoss, Stopped, vars, ram
  <2>2. PICK r \in {0, 1}, k \in Nat, lost \in Nat : TurnIs(r, k, lost)
    BY <2>1, Turn
  <2>3. ASSUME NEW p \in DOMAIN report, whole[p], Closes(p, old, now), NEW S, S = Minutes(p, old)
        PROVE  report'[p] = Filed(S)' + OnTheWay(S)' + missed[p]
                              + (IF Len(queue) = QueueLen THEN min + (rained' - rained) ELSE 0)
    <3>1. p \in {"ten", "hour", "day"} /\ p \in Running
      BY DEF IInv, RamInv, Running
    <3>2. report'[p] = acc[p] + r
      BY <2>2, <2>3, <3>1 DEF TurnIs
    <3>3. acc[p] + r = FiledIn(file, S) + Carried(Path', S) + missed[p] + lost
      BY <2>1, <2>2, <2>3, <3>1, TurnBooks
    <3>4. lost = IF Len(queue) = QueueLen THEN min + (rained' - rained) ELSE 0
      <4>1. min \in Nat /\ rained \in Nat /\ r \in Nat
        BY Figures
      <4>2. k + lost = min + r /\ (Len(queue) = QueueLen => k = 0)
            /\ (Len(queue) # QueueLen => lost = 0) /\ rained' = rained + r
        BY <2>2 DEF TurnIs
      <4> QED
        BY <4>1, <4>2
    <3>5. file' = file
      BY <2>1 DEF MinuteTurn, card
    <3>6. Filed(S)' = FiledIn(file', S) /\ OnTheWay(S)' = Carried(Path', S)
      BY SumsAreTheSameAfter
    <3> QED
      BY <3>2, <3>3, <3>4, <3>5, <3>6
  <2> QED
    BY <2>3
<1> QED
  BY <1>1, ArchiveInvariance, PTL DEF Spec, ReportsAddUp

(* A record filed stays until that of the same minute a cycle of years later *)
(* takes its slot; a write that fails or is cut off costs no record outside  *)
(* the sector it goes to, and only the menu's erase does more.               *)
THEOREM KeptForACycleHolds == Spec => KeptForACycle
<1> DEFINE Kept(n, i) ==
      \/ i \in DOMAIN file'[n] /\ file'[n][i] = file[n][i]
      \/ i \in DOMAIN file'[n] /\ file'[n][i].t >= file[n][i].t + Cycle * YearLen
      \/ erases' # erases
      \/ held # <<>> /\ held' = <<>> /\ <<n, i>> \in Sector(Slot(held[1].t))
           /\ i \notin DOMAIN file'[n]
<1>1. IInv /\ [Next]_vars => [\A n \in Names : \A i \in DOMAIN file[n] : Kept(n, i)]_vars
  <2> SUFFICES ASSUME IInv, Next, NEW n \in Names, NEW i \in DOMAIN file[n]
               PROVE  Kept(n, i)
    OBVIOUS
  <2>1. FileType(file) /\ i \in 1..YearLen /\ file[n][i] \in [t : Nat, rain : Nat]
    BY DEF IInv, CardInv, FileType
  <2>2. CASE file' = file
    BY <2>2
  <2>3. CASE MenuErase
    <3>1. erases' = erases + 1 /\ erases \in Nat
      BY <2>3 DEF MenuErase, IInv, HistoryInv
    <3>2. erases' # erases
      BY <3>1
    <3> QED
      BY <3>2
  <2>4. CASE LogFail \/ PowerLoss
    <3>1. held' = <<>> /\ \E l \in Damage : file' = Without(l)
      BY <2>4 DEF LogFail, PowerLoss
    <3>2. PICK lost \in Damage : file' = Without(lost)
      BY <3>1
    <3> DEFINE g == file'
    <3>3. /\ i \in DOMAIN g[n] <=> <<n, i>> \notin lost
          /\ i \in DOMAIN g[n] => g[n][i] = file[n][i]
      <4>1. g = Without(lost)
        BY <3>2
      <4> HIDE DEF g
      <4> QED
        BY <2>1, <4>1, WithoutIs
    <3>4. CASE <<n, i>> \notin lost
      BY <3>3, <3>4
    <3>5. CASE <<n, i>> \in lost
      <4>1. PICK j \in DOMAIN held : lost = Sector(Slot(held[j].t))
        BY <3>5 DEF Damage
      <4>2. held \in Seq(Record) /\ Len(held) <= 1
        BY DEF IInv, RamInv
      <4>3. held # <<>> /\ j = 1
        BY <4>2
      <4> QED
        BY <3>1, <3>3, <3>5, <4>1, <4>3
    <3> QED
      BY <3>4, <3>5
  <2>5. CASE LogWrite
    <3> DEFINE r == held[1]
    <3>1. /\ Path # <<>> /\ Path[1] = r /\ r \in [t : Nat, rain : Nat] /\ r.t \in Nat \ {0}
          /\ StartAt <= r.t
      <4>1. held # <<>>
        BY <2>5 DEF LogWrite
      <4> QED
        BY <4>1, Oldest DEF Record
    <3>2. PICK y \in Nat, j \in 1..YearLen : Slot(r.t) = <<Name(y), j>> /\ r.t = Stamp(y, j)
      BY <3>1, StampSlot
    <3> DEFINE g == file'
    <3>3. g = PutIn(file, Name(y), j, r)
      BY <2>5, <3>2 DEF LogWrite, Written, PutIn
    <3> HIDE DEF r, g
    <3>4. /\ j \in DOMAIN g[Name(y)] /\ g[Name(y)][j] = r
          /\ (n # Name(y) \/ i # j) => i \in DOMAIN g[n] /\ g[n][i] = file[n][i]
      BY <2>1, <3>1, <3>2, <3>3, FileWritten
    <3>5. CASE n # Name(y) \/ i # j
      BY <3>4, <3>5 DEF g
    <3>6. CASE n = Name(y) /\ i = j
      <4> DEFINE t == file[n][i].t
      <4>1. t \in Nat /\ Cycle * YearLen \in Nat /\ StartAt \in Nat /\ Cycle * YearLen <= StartAt
        BY <2>1, NamesAre, ConstantsAre
      <4>2. CASE t = 0
        <5>1. r.t >= t + Cycle * YearLen
          BY <3>1, <4>1, <4>2
        <5> QED
          BY <3>4, <3>6, <5>1 DEF g
      <4>3. CASE t # 0
        <5>1. Slot(t) = Slot(r.t) /\ t < r.t
          BY <3>1, <3>2, <3>6, <4>1, <4>3 DEF IInv, FileInv
        <5>2. t + Cycle * YearLen <= r.t
          BY <3>1, <4>1, <4>3, <5>1, SlotsRepeat
        <5>3. r.t >= t + Cycle * YearLen
          BY <3>1, <4>1, <5>2
        <5> QED
          BY <3>4, <3>6, <5>3 DEF g
      <4> QED
        BY <4>2, <4>3
    <3> QED
      BY <3>5, <3>6
  <2>6. file' = file \/ MenuErase \/ LogFail \/ PowerLoss \/ LogWrite
    BY DEF Next, Clock, Aws, CalculateRain, AwsStart, SecProcess, MinuteTurn, Logging, LogTake,
           Menu, MenuRead, MenuAssign, Stopped, vars, card
  <2> QED
    BY <2>2, <2>3, <2>4, <2>5, <2>6
<1> QED
  BY <1>1, ArchiveInvariance, PTL DEF Spec, KeptForACycle

-----------------------------------------------------------------------------
(* How far RestoresTheDay is from being true                               *)

\* calculate_rain has set no accumulator, at the start or after an erase.
RestoresNothing ==
  /\ pc # "run" => \A p \in Periods : acc[p] = 0
  /\ DOMAIN erase.acc = {}

\* No file of the archive is as long as calculate_rain asks for.
NoneReadable == \A n \in Names : ~Readable(n)

LEMMA ReadableWhen == \A n \in Names : Readable(n) <=> fileLen[n] >= MaxYearLen + 1
BY NamesAre DEF Readable

LEMMA RestoredNone ==
  ASSUME NoneReadable, NEW t \in Nat, NEW g
  PROVE  Restored(t, g) = <<>>
<1>1. Name(Year(t)) \in Names /\ Name(Name(Year(t))) = Name(Year(t))
  BY YearIs, NamesAre
<1>2. ~Readable(Year(t))
  BY <1>1 DEF NoneReadable, Readable
<1> QED
  BY <1>2 DEF Restored

\* In a year of 365 days the program does not make a file that long.
LEMMA NoneBecomes ==
  ASSUME IInv, NoneReadable, YearLen < MaxYearLen, [Next]_vars
  PROVE  NoneReadable'
<1>1. YearLen \in Nat /\ YearLen >= 2 /\ MaxYearLen \in Nat
  BY Lengths, ConstantsAre
<1>2. SUFFICES ASSUME NEW n \in Names PROVE fileLen'[n] < MaxYearLen + 1
  <2>1. ASSUME \A n \in Names : fileLen'[n] < MaxYearLen + 1
        PROVE  NoneReadable'
    <3>1. ASSUME NEW n \in Names PROVE ~(fileLen'[Name(n)] >= MaxYearLen + 1)
      <4>1. Name(n) = n /\ fileLen'[n] < MaxYearLen + 1
        BY <2>1, NamesAre
      <4>2. fileLen'[n] \in Nat
        BY NextKeeps DEF IInv, CardInv
      <4> QED
        BY <1>1, <4>1, <4>2
    <3> QED
      BY <3>1 DEF NoneReadable, Readable
  <2> QED
    BY <2>1
<1>3. fileLen[n] \in Nat /\ fileLen[n] < MaxYearLen + 1
  <2>1. fileLen[n] \in Nat
    BY DEF IInv, CardInv
  <2>2. ~(fileLen[n] >= MaxYearLen + 1)
    BY ReadableWhen DEF NoneReadable
  <2> QED
    BY <1>1, <2>1, <2>2
<1>4. CASE fileLen' = fileLen
  BY <1>3, <1>4
<1>5. CASE MenuErase
  <2>1. fileLen'[n] \in {fileLen[n], 2, YearLen + 1}
    BY <1>5, EraseIs
  <2> QED
    BY <1>1, <1>3, <2>1
<1>6. CASE LogWrite
  <2>1. held[1].t \in Nat \ {0}
    BY <1>6, Oldest DEF LogWrite, Record
  <2>2. PICK y \in Nat, i \in 1..YearLen : Slot(held[1].t) = <<Name(y), i>>
    BY <2>1, StampSlot
  <2>3. fileLen' = [fileLen EXCEPT ![Name(y)] = IF @ > i THEN @ ELSE i + 1]
    BY <1>6, <2>2 DEF LogWrite, Written
  <2>4. fileLen'[n] \in {fileLen[n], i + 1}
    BY <2>3 DEF IInv, CardInv
  <2> QED
    BY <1>1, <1>3, <2>4
<1>7. CASE LogFail
  <2>1. fileLen'[n] = fileLen[n] \/ fileLen'[n] <= YearLen
    BY <1>7, FailedLength
  <2>2. fileLen'[n] \in 0..MaxYearLen + 1
    BY <1>7, FailedLength
  <2> QED
    BY <1>1, <1>3, <2>1, <2>2
<1>8. fileLen' = fileLen \/ MenuErase \/ LogWrite \/ LogFail
  BY DEF Next, Clock, Aws, CalculateRain, AwsStart, SecProcess, MinuteTurn, Logging, LogTake,
         Menu, MenuRead, MenuAssign, PowerLoss, Stopped, vars, card
<1> QED
  BY <1>4, <1>5, <1>6, <1>7, <1>8

\* calculate_rain asks for the records of 366 days and one more (RAIN_TOTAL) and
\* the program makes files of the year's and one more: with a card on which no
\* file has the length of a leap year's, in years of 365 days it restores nothing,
\* however complete the archive is (rain_data.c:245, app_file.c:139).
THEOREM NothingRestored ==
  ASSUME YearLen < MaxYearLen
  PROVE  NoneReadable /\ Spec => []RestoresNothing
<1>1. Init /\ NoneReadable => RestoresNothing /\ NoneReadable
  BY DEF Init, RestoresNothing
<1>2. ASSUME IInv, RestoresNothing, NoneReadable, [Next]_vars
      PROVE  RestoresNothing' /\ NoneReadable'
  <2>11. NoneReadable'
    BY <1>2, NoneBecomes
  <2>1. \A v \in {<<>>} \cup {Restored(now, g) : g \in {0, 1}} : DOMAIN v = {}
    BY <1>2, RestoredNone DEF IInv, ClockInv
  <2>2. pc # "run" => erase.step = "idle"
    BY <1>2 DEF IInv, IdleInv
  <2>3. CASE CalculateRain
    <3>1. PICK v \in {<<>>} \cup {Restored(now, g) : g \in {0, 1}} : acc' = Assigned(v)
      BY <2>3 DEF CalculateRain
    <3>2. \A p \in Periods : acc'[p] = acc[p]
      BY <2>1, <3>1 DEF Assigned
    <3> QED
      BY <1>2, <2>3, <2>11, <3>2 DEF CalculateRain, RestoresNothing
  <2>4. CASE MenuRead
    <3>1. DOMAIN erase'.acc = {} /\ UNCHANGED <<pc, acc>>
      BY <2>1, <2>4 DEF MenuRead, ram
    <3> QED
      BY <1>2, <2>11, <3>1 DEF RestoresNothing
  <2>5. CASE MenuAssign
    <3>1. \A p \in Periods : acc'[p] = acc[p]
      BY <1>2, <2>5 DEF MenuAssign, Assigned, RestoresNothing
    <3> QED
      BY <1>2, <2>5, <2>11, <3>1 DEF MenuAssign, RestoresNothing
  <2>6. CASE MenuErase
    <3>1. UNCHANGED <<pc, acc>> /\ (erase' = [erase EXCEPT !.step = "erased"] \/ erase' = erase)
      BY <2>6 DEF MenuErase, ram
    <3>2. erase = [step |-> erase.step, acc |-> erase.acc]
      BY <1>2 DEF IInv, MenuInv
    <3>3. erase'.acc = erase.acc
      BY <3>1, <3>2
    <3> QED
      BY <1>2, <2>11, <3>1, <3>3 DEF RestoresNothing
  <2>7. CASE PowerLoss
    BY <2>7, <2>11 DEF PowerLoss, RestoresNothing
  <2>8. CASE AwsStart \/ SecProcess \/ MinuteTurn
    <3>1. pc' = "run" /\ erase' = erase
      BY <2>8 DEF AwsStart, SecProcess, MinuteTurn
    <3> QED
      BY <1>2, <2>11, <3>1 DEF RestoresNothing
  <2>9. CASE Clock \/ Logging \/ Stopped \/ UNCHANGED vars
    <3>1. UNCHANGED <<pc, acc, erase>>
      BY <2>9 DEF Clock, Logging, LogTake, LogWrite, LogFail, Stopped, vars, ram
    <3> QED
      BY <1>2, <2>11, <3>1 DEF RestoresNothing
  <2> QED
    BY <1>2, <2>3, <2>4, <2>5, <2>6, <2>7, <2>8, <2>9 DEF Next, Aws, Menu
<1> QED
  BY <1>1, <1>2, ArchiveInvariance, PTL DEF Spec
===============================================================================
