---------------------------- MODULE DataTheorems ----------------------------
(***************************************************************************)
(* What the proofs need to know of sums over finite sets, as the ledgers   *)
(* add up what a scope has reserved and used, and of subsequences, as the  *)
(* caches drop some of their entries.  A sum is SumFunctionOnSet of the    *)
(* community modules, which is defined by a recursive function.            *)
(*                                                                         *)
(* Induction is stated about a set, the set of the subsets that are Good,  *)
(* so that it needs no operator as a parameter: a smallest subset that is  *)
(* not Good exists, because the cardinalities of those that are not are a  *)
(* set of naturals with a least element.                                   *)
(***************************************************************************)
EXTENDS Functions, Subsequences, FiniteSetTheorems, TLAPS

\* A set of naturals that is not empty has a least element.
LEMMA LeastOfNaturals ==
  ASSUME NEW T \in SUBSET Nat, T # {}
  PROVE  \E m \in T : \A k \in T : m <= k
<1>1. PICK m \in T : \A k \in T : ~ (<<k, m>> \in OpToRel(<, Nat))
  BY NatLessThanWellFounded, WFMin
<1>2. \A k \in T : ~ (k < m)
  BY <1>1 DEF OpToRel
<1> QED
  BY <1>2

\* What holds of the empty set, and of a subset when it holds of the subset without any one
\* of its elements, holds of every subset of a finite set.
LEMMA FiniteSubsetInduction ==
  ASSUME NEW S, IsFiniteSet(S), NEW Good,
         {} \in Good,
         \A U \in SUBSET S : U # {} /\ (\A x \in U : U \ {x} \in Good) => U \in Good
  PROVE  SUBSET S \subseteq Good
<1> DEFINE Bad == {Cardinality(U) : U \in (SUBSET S) \ Good}
<1>1. \A U \in SUBSET S : IsFiniteSet(U) /\ Cardinality(U) \in Nat
  BY FS_Subset, FS_CardinalityType
<1> SUFFICES ASSUME Bad # {} PROVE FALSE
  OBVIOUS
<1>2. PICK m \in Bad : \A k \in Bad : m <= k
  <2>1. Bad \subseteq Nat
    BY <1>1
  <2> QED
    BY <2>1, LeastOfNaturals
<1>3. PICK U \in SUBSET S : U \notin Good /\ Cardinality(U) = m
  BY <1>2
<1>4. U # {}
  BY <1>3
<1>5. ASSUME NEW x \in U PROVE U \ {x} \in Good
  <2>1. Cardinality(U \ {x}) = Cardinality(U) - 1
    BY <1>1, FS_RemoveElement
  <2>2. U \ {x} \in SUBSET S /\ ~ (m <= Cardinality(U \ {x}))
    BY <1>1, <1>3, <2>1
  <2> QED
    BY <1>2, <2>2
<1> QED
  BY <1>3, <1>4, <1>5

\* The element a sum takes first.
Choice(s) == CHOOSE x \in s : TRUE

\* It is an element.
LEMMA ChoiceIn == ASSUME NEW s, s # {} PROVE Choice(s) \in s
BY DEF Choice

\* g is the function that the definition of a sum recurs on, over the sets in D.
Adds(g, f, D) == g = [s \in D |-> IF s = {} THEN 0 ELSE f[Choice(s)] + g[s \ {Choice(s)}]]

\* Induction over the naturals, with a set.
LEMMA NaturalsBySets ==
  ASSUME NEW T, 0 \in T, \A n \in Nat : n \in T => n + 1 \in T
  PROVE  Nat \subseteq T
<1> SUFFICES ASSUME Nat \ T # {} PROVE FALSE
  OBVIOUS
<1>1. PICK m \in Nat \ T : \A k \in Nat \ T : m <= k
  BY LeastOfNaturals
<1>2. m # 0 /\ m - 1 \in Nat
  OBVIOUS
<1>3. m - 1 \in T
  BY <1>1, <1>2
<1> QED
  BY <1>2, <1>3

\* There is such a function: for the subsets with up to n elements, for every n.
LEMMA SumExists ==
  ASSUME NEW f, NEW S, IsFiniteSet(S)
  PROVE  \E g : Adds(g, f, SUBSET S)
<1> DEFINE Small(n) == {U \in SUBSET S : Cardinality(U) <= n}
           Good == {n \in Nat : \E g : Adds(g, f, Small(n))}
<1>1. \A U \in SUBSET S : IsFiniteSet(U) /\ Cardinality(U) \in Nat
  BY FS_Subset, FS_CardinalityType
<1>2. \A U \in SUBSET S : Cardinality(U) = 0 <=> U = {}
  BY <1>1, FS_EmptySet
<1>3. 0 \in Good
  <2> DEFINE g == [s \in Small(0) |-> 0]
  <2>1. \A s \in Small(0) : s = {}
    BY <1>1, <1>2
  <2>2. Adds(g, f, Small(0))
    BY <2>1 DEF Adds
  <2> QED
    BY <2>2
<1>4. ASSUME NEW n \in Nat, n \in Good PROVE n + 1 \in Good
  <2>1. PICK g : Adds(g, f, Small(n))
    BY <1>4
  <2> DEFINE h == [s \in Small(n + 1) |->
                     IF s = {} THEN 0 ELSE f[Choice(s)] + g[s \ {Choice(s)}]]
  <2>2. \A s \in Small(n) : h[s] = g[s]
    <3>1. Small(n) \subseteq Small(n + 1)
      BY <1>1
    <3> QED
      BY <2>1, <3>1 DEF Adds
  <2>3. ASSUME NEW s \in Small(n + 1), s # {} PROVE s \ {Choice(s)} \in Small(n)
    <3>1. Cardinality(s \ {Choice(s)}) = Cardinality(s) - 1
      BY <1>1, <2>3, ChoiceIn, FS_RemoveElement
    <3> QED
      BY <1>1, <3>1
  <2>4. h = [s \in Small(n + 1) |-> IF s = {} THEN 0 ELSE f[Choice(s)] + h[s \ {Choice(s)}]]
    BY <2>2, <2>3
  <2>5. Adds(h, f, Small(n + 1))
    BY <2>4 DEF Adds
  <2>6. \E k : Adds(k, f, Small(n + 1))
    BY <2>5
  <2> HIDE DEF Small, h
  <2> QED
    BY <2>6
<1>5. Cardinality(S) \in Good
  BY <1>3, <1>4, NaturalsBySets, FS_CardinalityType
<1>6. Small(Cardinality(S)) = SUBSET S
  BY FS_Subset
<1> QED
  BY <1>5, <1>6

\* The sum is what that function says of the whole set.
LEMMA SumUnfolded ==
  ASSUME NEW f, NEW S, IsFiniteSet(S)
  PROVE  \E g : Adds(g, f, SUBSET S) /\ SumFunctionOnSet(f, S) = g[S]
<1> DEFINE g == CHOOSE k : Adds(k, f, SUBSET S)
<1>1. SumFunctionOnSet(f, S) = g[S]
  BY DEF SumFunctionOnSet, FoldFunctionOnSet, MapThenFoldSet, Adds, Choice
<1>2. Adds(g, f, SUBSET S)
  BY SumExists
<1> QED
  BY <1>1, <1>2

\* Such functions for a set and for a part of it agree on the part.
LEMMA SumsAgree ==
  ASSUME NEW f, NEW S, IsFiniteSet(S), NEW V \in SUBSET S,
         NEW g, NEW h, Adds(g, f, SUBSET S) /\ Adds(h, f, SUBSET V)
  PROVE  g[V] = h[V]
<1> DEFINE Good == {U \in SUBSET V : g[U] = h[U]}
<1>1. {} \in Good
  BY DEF Adds
<1>2. ASSUME NEW U \in SUBSET V, U # {}, \A x \in U : U \ {x} \in Good
      PROVE  U \in Good
  <2>1. Choice(U) \in U
    BY <1>2, ChoiceIn
  <2>2. g[U] = f[Choice(U)] + g[U \ {Choice(U)}] /\ h[U] = f[Choice(U)] + h[U \ {Choice(U)}]
    BY <1>2 DEF Adds
  <2> QED
    BY <1>2, <2>1, <2>2
<1>3. IsFiniteSet(V)
  BY FS_Subset
<1>4. SUBSET V \subseteq Good
  <2> HIDE DEF Good
  <2> QED
    BY <1>1, <1>2, <1>3, FiniteSubsetInduction
<1> QED
  BY <1>4

\* Nothing adds up to 0: what a scope without rows has reserved (store.py).
THEOREM SumEmpty == ASSUME NEW f PROVE SumFunctionOnSet(f, {}) = 0
<1>1. PICK g : Adds(g, f, SUBSET {}) /\ SumFunctionOnSet(f, {}) = g[{}]
  BY SumUnfolded, FS_EmptySet
<1> QED
  BY <1>1 DEF Adds

\* A sum is its first element and the sum of the rest.
LEMMA SumChosen ==
  ASSUME NEW f, NEW S, IsFiniteSet(S), S # {}
  PROVE  SumFunctionOnSet(f, S) = f[Choice(S)] + SumFunctionOnSet(f, S \ {Choice(S)})
<1> DEFINE V == S \ {Choice(S)}
<1>1. IsFiniteSet(V)
  BY FS_Subset
<1>2. PICK g : Adds(g, f, SUBSET S) /\ SumFunctionOnSet(f, S) = g[S]
  BY SumUnfolded
<1>3. PICK h : Adds(h, f, SUBSET V) /\ SumFunctionOnSet(f, V) = h[V]
  BY <1>1, SumUnfolded
<1>4. g[V] = h[V]
  <2>1. \A W \in SUBSET S : Adds(h, f, SUBSET W) => g[W] = h[W]
    BY <1>2, SumsAgree
  <2> QED
    BY <1>3, <2>1
<1>5. g[S] = f[Choice(S)] + g[V]
  BY <1>2 DEF Adds
<1> QED
  BY <1>2, <1>3, <1>4, <1>5

\* Amounts that are naturals add up to a natural: a month's usage, or the holds of a scope.
THEOREM SumIsNat ==
  ASSUME NEW f, NEW S, IsFiniteSet(S), \A x \in S : f[x] \in Nat
  PROVE  SumFunctionOnSet(f, S) \in Nat
<1> DEFINE Good == {U \in SUBSET S : SumFunctionOnSet(f, U) \in Nat}
<1>1. {} \in Good
  BY SumEmpty
<1>2. ASSUME NEW U \in SUBSET S, U # {}, \A x \in U : U \ {x} \in Good
      PROVE  U \in Good
  <2>1. IsFiniteSet(U) /\ Choice(U) \in U
    BY <1>2, FS_Subset, ChoiceIn
  <2>2. SumFunctionOnSet(f, U) = f[Choice(U)] + SumFunctionOnSet(f, U \ {Choice(U)})
    BY <1>2, <2>1, SumChosen
  <2> QED
    BY <1>2, <2>1, <2>2
<1>3. SUBSET S \subseteq Good
  <2> HIDE DEF Good
  <2> QED
    BY <1>1, <1>2, FiniteSubsetInduction
<1> QED
  BY <1>3

\* Any element may be taken first: the order in which rows are read does not matter to the
\* sums of store.py and work_runtime.py.
THEOREM SumElement ==
  ASSUME NEW f, NEW S, IsFiniteSet(S), \A y \in S : f[y] \in Nat, NEW x \in S
  PROVE  SumFunctionOnSet(f, S) = f[x] + SumFunctionOnSet(f, S \ {x})
<1> DEFINE Sum(U) == SumFunctionOnSet(f, U)
           Good == {U \in SUBSET S : \A y \in U : Sum(U) = f[y] + Sum(U \ {y})}
<1>1. {} \in Good
  OBVIOUS
<1>2. ASSUME NEW U \in SUBSET S, U # {}, \A y \in U : U \ {y} \in Good
      PROVE  U \in Good
  <2> SUFFICES ASSUME NEW y \in U PROVE Sum(U) = f[y] + Sum(U \ {y})
    OBVIOUS
  <2> DEFINE c == Choice(U)
             V == U \ {c, y}
  <2>1. IsFiniteSet(U) /\ c \in U
    BY <1>2, FS_Subset, ChoiceIn
  <2>2. Sum(U) = f[c] + Sum(U \ {c})
    BY <1>2, <2>1, SumChosen
  <2>3. CASE c = y
    BY <2>2, <2>3
  <2>4. CASE c # y
    <3>1. Sum(U \ {c}) = f[y] + Sum(V)
      <4>1. U \ {c} \in Good /\ y \in U \ {c} /\ (U \ {c}) \ {y} = V
        BY <1>2, <2>1, <2>4
      <4> QED
        BY <4>1
    <3>2. Sum(U \ {y}) = f[c] + Sum(V)
      <4>1. U \ {y} \in Good /\ c \in U \ {y} /\ (U \ {y}) \ {c} = V
        BY <1>2, <2>1, <2>4
      <4> QED
        BY <4>1
    <3>3. Sum(V) \in Nat /\ f[c] \in Nat /\ f[y] \in Nat
      <4>1. IsFiniteSet(V)
        BY <2>1, FS_Subset
      <4> QED
        BY <2>1, <4>1, SumIsNat
    <3> HIDE DEF Sum, c, V
    <3> QED
      BY <2>2, <3>1, <3>2, <3>3
  <2> QED
    BY <2>3, <2>4
<1>3. SUBSET S \subseteq Good
  <2> HIDE DEF Good
  <2> QED
    BY <1>1, <1>2, FiniteSubsetInduction
<1> QED
  BY <1>3

\* A new row adds its amount to the sum: an attempt that is begun.
THEOREM SumAdded ==
  ASSUME NEW f, NEW S, IsFiniteSet(S), NEW x, x \notin S, \A y \in S \cup {x} : f[y] \in Nat
  PROVE  SumFunctionOnSet(f, S \cup {x}) = f[x] + SumFunctionOnSet(f, S)
<1>1. IsFiniteSet(S \cup {x}) /\ (S \cup {x}) \ {x} = S
  BY FS_AddElement
<1> QED
  BY <1>1, SumElement

\* Fewer rows, each with at most its amount, add up to at most the sum: rows that settle for
\* what they reserved or less, or that lapse.
THEOREM SumIsMonotone ==
  ASSUME NEW f, NEW g, NEW S, IsFiniteSet(S), NEW T \in SUBSET S,
         \A x \in S : f[x] \in Nat /\ g[x] \in Nat,
         \A x \in T : f[x] <= g[x]
  PROVE  SumFunctionOnSet(f, T) <= SumFunctionOnSet(g, S)
<1> DEFINE Good == {U \in SUBSET S : SumFunctionOnSet(f, U \cap T) <= SumFunctionOnSet(g, U)}
<1>1. {} \in Good
  <2>1. {} \cap T = {}
    OBVIOUS
  <2> QED
    BY <2>1, SumEmpty
<1>2. ASSUME NEW U \in SUBSET S, U # {}, \A x \in U : U \ {x} \in Good
      PROVE  U \in Good
  <2>1. PICK x \in U : TRUE
    BY <1>2
  <2> DEFINE V == U \ {x}
  <2>2. IsFiniteSet(U) /\ IsFiniteSet(U \cap T) /\ IsFiniteSet(V) /\ IsFiniteSet(V \cap T)
    <3>1. U \cap T \in SUBSET S /\ V \in SUBSET S /\ V \cap T \in SUBSET S
      OBVIOUS
    <3> QED
      BY <3>1, FS_Subset
  <2>3. SumFunctionOnSet(g, U) = g[x] + SumFunctionOnSet(g, V)
    BY <2>2, SumElement
  <2>4. /\ SumFunctionOnSet(g, V) \in Nat /\ SumFunctionOnSet(f, V \cap T) \in Nat
        /\ f[x] \in Nat /\ g[x] \in Nat
    BY <2>2, SumIsNat
  <2>5. SumFunctionOnSet(f, V \cap T) <= SumFunctionOnSet(g, V)
    BY <1>2
  <2>6. CASE x \in T
    <3>1. (U \cap T) \ {x} = V \cap T
      OBVIOUS
    <3>2. SumFunctionOnSet(f, U \cap T) = f[x] + SumFunctionOnSet(f, V \cap T)
      BY <2>2, <2>6, <3>1, SumElement
    <3> QED
      BY <2>3, <2>4, <2>5, <2>6, <3>2
  <2>7. CASE x \notin T
    <3>1. U \cap T = V \cap T
      BY <2>7
    <3>2. SumFunctionOnSet(f, U \cap T) <= SumFunctionOnSet(g, V)
      BY <2>5, <3>1
    <3>3. SumFunctionOnSet(f, U \cap T) \in Nat
      BY <2>4, <3>1
    <3> QED
      BY <2>3, <2>4, <3>2, <3>3
  <2> QED
    BY <2>6, <2>7
<1>3. SUBSET S \subseteq Good
  <2> HIDE DEF Good
  <2> QED
    BY <1>1, <1>2, FiniteSubsetInduction
<1>4. S \cap T = T
  OBVIOUS
<1> QED
  BY <1>3, <1>4

\* A sum depends on the amounts of its own rows only: rows that a transaction leaves alone.
THEOREM SumsAreEqual ==
  ASSUME NEW f, NEW g, NEW S, IsFiniteSet(S), \A x \in S : f[x] = g[x]
  PROVE  SumFunctionOnSet(f, S) = SumFunctionOnSet(g, S)
<1> DEFINE Good == {U \in SUBSET S : SumFunctionOnSet(f, U) = SumFunctionOnSet(g, U)}
<1>1. {} \in Good
  BY SumEmpty
<1>2. ASSUME NEW U \in SUBSET S, U # {}, \A x \in U : U \ {x} \in Good
      PROVE  U \in Good
  <2>1. IsFiniteSet(U) /\ Choice(U) \in U
    BY <1>2, FS_Subset, ChoiceIn
  <2>2. /\ SumFunctionOnSet(f, U) = f[Choice(U)] + SumFunctionOnSet(f, U \ {Choice(U)})
        /\ SumFunctionOnSet(g, U) = g[Choice(U)] + SumFunctionOnSet(g, U \ {Choice(U)})
    BY <1>2, <2>1, SumChosen
  <2> QED
    BY <1>2, <2>1, <2>2
<1>3. SUBSET S \subseteq Good
  <2> HIDE DEF Good
  <2> QED
    BY <1>1, <1>2, FiniteSubsetInduction
<1> QED
  BY <1>3
\* The sum over two parts is the sum of the sums.
THEOREM SumOfParts ==
  ASSUME NEW f, NEW S, NEW T, IsFiniteSet(S), IsFiniteSet(T), S \cap T = {},
         \A x \in S \cup T : f[x] \in Nat
  PROVE  SumFunctionOnSet(f, S \cup T) = SumFunctionOnSet(f, S) + SumFunctionOnSet(f, T)
<1> DEFINE Good == {U \in SUBSET T : SumFunctionOnSet(f, S \cup U)
                                      = SumFunctionOnSet(f, S) + SumFunctionOnSet(f, U)}
<1>1. {} \in Good
  <2>1. S \cup {} = S
    OBVIOUS
  <2> QED
    BY <2>1, SumEmpty, SumIsNat
<1>2. ASSUME NEW U \in SUBSET T, U # {}, \A x \in U : U \ {x} \in Good
      PROVE  U \in Good
  <2>1. PICK x \in U : TRUE
    BY <1>2
  <2> DEFINE V == U \ {x}
  <2>2. IsFiniteSet(V) /\ IsFiniteSet(S \cup V) /\ x \notin V /\ x \notin S \cup V
    BY FS_Subset, FS_Union
  <2>3. U = V \cup {x} /\ S \cup U = (S \cup V) \cup {x}
    BY <2>1
  <2>4. SumFunctionOnSet(f, V \cup {x}) = f[x] + SumFunctionOnSet(f, V)
    BY <2>2, SumAdded
  <2>5. SumFunctionOnSet(f, (S \cup V) \cup {x}) = f[x] + SumFunctionOnSet(f, S \cup V)
    BY <2>2, SumAdded
  <2>6. SumFunctionOnSet(f, S \cup V) = SumFunctionOnSet(f, S) + SumFunctionOnSet(f, V)
    BY <1>2
  <2>7. f[x] \in Nat /\ SumFunctionOnSet(f, S) \in Nat /\ SumFunctionOnSet(f, V) \in Nat
    BY <2>2, SumIsNat
  <2>8. SumFunctionOnSet(f, S \cup U) = SumFunctionOnSet(f, S) + SumFunctionOnSet(f, U)
    <3> HIDE DEF V
    <3>1. SumFunctionOnSet(f, S \cup U) = f[x] + SumFunctionOnSet(f, S \cup V)
      BY <2>3, <2>5, Zenon
    <3>2. SumFunctionOnSet(f, U) = f[x] + SumFunctionOnSet(f, V)
      BY <2>3, <2>4, Zenon
    <3> QED
      BY <2>6, <2>7, <3>1, <3>2
  <2> QED
    BY <2>8
<1>3. SUBSET T \subseteq Good
  <2> HIDE DEF Good
  <2> QED
    BY <1>1, <1>2, FiniteSubsetInduction
<1> QED
  BY <1>3

\* A sum does not depend on what its amounts are called.
THEOREM SumRenamed ==
  ASSUME NEW f, NEW g, NEW S, NEW to, IsFiniteSet(S),
         \A x, y \in S : x # y => to[x] # to[y],
         \A x \in S : g[x] = f[to[x]] /\ g[x] \in Nat
  PROVE  SumFunctionOnSet(g, S) = SumFunctionOnSet(f, {to[x] : x \in S})
<1> DEFINE Image(U) == {to[x] : x \in U}
           Good == {U \in SUBSET S : /\ IsFiniteSet(Image(U))
                                     /\ SumFunctionOnSet(g, U) = SumFunctionOnSet(f, Image(U))}
<1>1. {} \in Good
  <2>1. Image({}) = {}
    OBVIOUS
  <2> QED
    BY <2>1, SumEmpty, FS_EmptySet
<1>2. ASSUME NEW U \in SUBSET S, U # {}, \A x \in U : U \ {x} \in Good
      PROVE  U \in Good
  <2>1. PICK x \in U : TRUE
    BY <1>2
  <2> DEFINE V == U \ {x}
  <2>2. IsFiniteSet(V) /\ x \notin V /\ U = V \cup {x} /\ V \in SUBSET S /\ x \in S
    BY <2>1, FS_Subset
  <2>3. IsFiniteSet(Image(V)) /\ SumFunctionOnSet(g, V) = SumFunctionOnSet(f, Image(V))
    BY <1>2
  <2>4. Image(U) = Image(V) \cup {to[x]}
    BY <2>2
  <2>5. to[x] \notin Image(V)
    BY <2>2
  <2>6. SumFunctionOnSet(g, V \cup {x}) = g[x] + SumFunctionOnSet(g, V)
    BY <2>2, SumAdded
  <2>7. \A y \in Image(V) \cup {to[x]} : f[y] \in Nat
    BY <2>2
  <2> HIDE DEF Image
  <2>8. SumFunctionOnSet(f, Image(V) \cup {to[x]}) = f[to[x]] + SumFunctionOnSet(f, Image(V))
    BY <2>3, <2>5, <2>7, SumAdded
  <2>9. IsFiniteSet(Image(V) \cup {to[x]})
    BY <2>3, FS_AddElement
  <2> QED
    BY <2>2, <2>3, <2>4, <2>6, <2>8, <2>9
<1>3. SUBSET S \subseteq Good
  <2> HIDE DEF Good
  <2> QED
    BY <1>1, <1>2, FiniteSubsetInduction
<1> QED
  BY <1>3

\* The sum of two functions is the sum of their sums.
THEOREM SumsAdd ==
  ASSUME NEW f, NEW g, NEW h, NEW S, IsFiniteSet(S), \A x \in S : f[x] \in Nat /\ g[x] \in Nat /\ h[x] = f[x] + g[x]
  PROVE  SumFunctionOnSet(h, S) = SumFunctionOnSet(f, S) + SumFunctionOnSet(g, S)
<1> DEFINE Good == {U \in SUBSET S : SumFunctionOnSet(h, U) = SumFunctionOnSet(f, U) + SumFunctionOnSet(g, U)}
<1>1. {} \in Good
  BY SumEmpty
<1>2. ASSUME NEW U \in SUBSET S, U # {}, \A x \in U : U \ {x} \in Good
      PROVE  U \in Good
  <2>1. PICK x \in U : TRUE
    BY <1>2
  <2> DEFINE V == U \ {x}
  <2>2. IsFiniteSet(U) /\ IsFiniteSet(V)
    BY FS_Subset
  <2>3. \A y \in U : f[y] \in Nat /\ g[y] \in Nat /\ h[y] \in Nat
    OBVIOUS
  <2>4. /\ SumFunctionOnSet(f, U) = f[x] + SumFunctionOnSet(f, V)
        /\ SumFunctionOnSet(g, U) = g[x] + SumFunctionOnSet(g, V)
        /\ SumFunctionOnSet(h, U) = h[x] + SumFunctionOnSet(h, V)
    BY <2>1, <2>2, <2>3, SumElement
  <2>5. SumFunctionOnSet(h, V) = SumFunctionOnSet(f, V) + SumFunctionOnSet(g, V)
    BY <1>2, <2>1
  <2>6. SumFunctionOnSet(f, V) \in Nat /\ SumFunctionOnSet(g, V) \in Nat
    BY <2>2, <2>3, SumIsNat
  <2>7. h[x] = f[x] + g[x] /\ f[x] \in Nat /\ g[x] \in Nat
    BY <2>1
  <2> HIDE DEF V
  <2> QED BY <2>4, <2>5, <2>6, <2>7
<1>3. S \in Good
  <2> HIDE DEF Good
  <2> QED
    BY <1>1, <1>2, FiniteSubsetInduction
<1> QED
  BY <1>3

(***************************************************************************)
(* Subsequences.                                                           *)
(***************************************************************************)

\* Ranks count the places, and tell them apart.
LEMMA RankIs ==
  ASSUME NEW I \in SUBSET Nat, IsFiniteSet(I)
  PROVE  /\ \A i \in I : Rank(I, i) \in 1 .. Cardinality(I)
         /\ \A i, k \in I : i < k => Rank(I, i) < Rank(I, k)
         /\ \A i, k \in I : Rank(I, i) = Rank(I, k) => i = k
<1> DEFINE upto(i) == {k \in I : k <= i}
<1>1. \A i \in I : /\ IsFiniteSet(upto(i)) /\ Cardinality(upto(i)) \in Nat
                   /\ Cardinality(upto(i)) <= Cardinality(I) /\ Cardinality(I) \in Nat
  <2> TAKE i \in I
  <2>1. upto(i) \subseteq I
    OBVIOUS
  <2> QED
    BY <2>1, FS_Subset, FS_CardinalityType
<1>2. ASSUME NEW i \in I
      PROVE  Cardinality(upto(i)) # 0
  <2>1. i \in upto(i)
    OBVIOUS
  <2> QED
    BY <1>1, <2>1, FS_EmptySet
<1>3. ASSUME NEW i \in I, NEW k \in I, i < k
      PROVE  Cardinality(upto(i)) < Cardinality(upto(k))
  <2>1. upto(i) \subseteq upto(k) /\ upto(i) # upto(k)
    <3>1. k \in upto(k) /\ k \notin upto(i)
      BY <1>3
    <3>2. \A j \in upto(i) : j <= k
      BY <1>3
    <3> QED
      BY <3>1, <3>2
  <2>2. Cardinality(upto(i)) <= Cardinality(upto(k)) /\ Cardinality(upto(i)) # Cardinality(upto(k))
    BY <1>1, <2>1, FS_Subset
  <2> QED
    BY <1>1, <2>2
<1>4. \A i, k \in I : i < k \/ k < i \/ i = k
  OBVIOUS
<1> QED
  BY <1>1, <1>2, <1>3, <1>4 DEF Rank

\* Every rank is taken.
LEMMA RankExists ==
  ASSUME NEW I \in SUBSET Nat, IsFiniteSet(I), NEW n \in 1 .. Cardinality(I)
  PROVE  \E i \in I : Rank(I, i) = n
<1> DEFINE Done == {m \in Nat : m \in 1 .. Cardinality(I) => \E i \in I : Rank(I, i) = m}
<1>0. Cardinality(I) \in Nat
  BY FS_CardinalityType
<1>1. 0 \in Done
  OBVIOUS
<1>2. ASSUME NEW m \in Nat, m \in Done, m + 1 \in 1 .. Cardinality(I)
      PROVE  \E i \in I : Rank(I, i) = m + 1
  <2>1. PICK low \in SUBSET I : IsFiniteSet(low) /\ Cardinality(low) = m
                               /\ \A i \in low, k \in I \ low : i < k
    <3>1. CASE m = 0
      BY <3>1, FS_EmptySet
    <3>2. CASE m # 0
      <4>1. PICK j \in I : Rank(I, j) = m
        BY <1>0, <1>2, <3>2
      <4>2. {k \in I : k <= j} \subseteq I /\ IsFiniteSet({k \in I : k <= j})
        BY FS_Subset
      <4>3. Cardinality({k \in I : k <= j}) = m
        BY <4>1 DEF Rank
      <4>4. \A i \in {k \in I : k <= j}, h \in I \ {k \in I : k <= j} : i < h
        OBVIOUS
      <4> QED
        BY <4>2, <4>3, <4>4
    <3> QED
      BY <3>1, <3>2
  <2>2. I \ low # {}
    <3>1. Cardinality(low) # Cardinality(I)
      BY <1>0, <1>2, <2>1
    <3>2. I \ low = {} => low = I
      OBVIOUS
    <3> QED
      BY <3>1, <3>2
  <2>3. PICK i \in I \ low : \A k \in I \ low : i <= k
    BY <2>2, LeastOfNaturals
  <2>4. {k \in I : k <= i} = low \cup {i}
    <3>1. \A k \in I \ low : k <= i <=> k = i
      BY <2>3
    <3>2. ASSUME NEW k \in low
          PROVE  k \in I /\ k <= i
      <4>1. k < i
        BY <2>1
      <4> QED
        BY <4>1
    <3>3. i \in I
      OBVIOUS
    <3> QED
      BY <3>1, <3>2, <3>3, Zenon
  <2>5. Cardinality(low \cup {i}) = m + 1
    BY <2>1, <2>3, FS_AddElement
  <2> QED
    BY <2>4, <2>5 DEF Rank
<1>3. \A m \in Nat : m \in Done => m + 1 \in Done
  BY <1>2
<1>4. Nat \subseteq Done
  <2> HIDE DEF Done
  <2> QED
    BY <1>1, <1>3, NaturalsBySets
<1> QED
  BY <1>0, <1>4

\* The places of a subsequence, in order.
PlaceOf(I, n) == CHOOSE i \in I : Rank(I, i) = n

LEMMA PlaceIs ==
  ASSUME NEW I \in SUBSET Nat, IsFiniteSet(I)
  PROVE  /\ \A n \in 1 .. Cardinality(I) : PlaceOf(I, n) \in I /\ Rank(I, PlaceOf(I, n)) = n
         /\ \A n, m \in 1 .. Cardinality(I) : n < m => PlaceOf(I, n) < PlaceOf(I, m)
         /\ \A i \in I : PlaceOf(I, Rank(I, i)) = i
<1>0. /\ \A i \in I : Rank(I, i) \in 1 .. Cardinality(I)
      /\ \A i, k \in I : i < k => Rank(I, i) < Rank(I, k)
      /\ \A i, k \in I : Rank(I, i) = Rank(I, k) => i = k
  BY RankIs
<1>1. \A n \in 1 .. Cardinality(I) : PlaceOf(I, n) \in I /\ Rank(I, PlaceOf(I, n)) = n
  BY RankExists DEF PlaceOf
<1>2. ASSUME NEW n \in 1 .. Cardinality(I), NEW m \in 1 .. Cardinality(I), n < m
      PROVE  PlaceOf(I, n) < PlaceOf(I, m)
  <2>1. PlaceOf(I, n) \in Nat /\ PlaceOf(I, m) \in Nat
    BY <1>1
  <2>2. PlaceOf(I, m) < PlaceOf(I, n) => m < n
    <3>1. PlaceOf(I, m) < PlaceOf(I, n) => Rank(I, PlaceOf(I, m)) < Rank(I, PlaceOf(I, n))
      BY <1>0, <1>1
    <3> QED
      BY <1>1, <3>1
  <2>3. PlaceOf(I, m) # PlaceOf(I, n)
    BY <1>1, <1>2
  <2>4. Cardinality(I) \in Nat
    BY FS_CardinalityType
  <2> QED
    BY <1>2, <2>1, <2>2, <2>3, <2>4
<1>3. ASSUME NEW i \in I
      PROVE  PlaceOf(I, Rank(I, i)) = i
  <2>1. Rank(I, i) \in 1 .. Cardinality(I)
    BY <1>0
  <2>2. PlaceOf(I, Rank(I, i)) \in I /\ Rank(I, PlaceOf(I, Rank(I, i))) = Rank(I, i)
    BY <1>1, <2>1
  <2> QED
    BY <1>0, <2>2
<1> QED
  BY <1>1, <1>2, <1>3

\* A subsequence holds what the sequence holds at the places, and nothing else.
THEOREM SubsequenceIs ==
  ASSUME NEW S, NEW s \in Seq(S), NEW I \in SUBSET DOMAIN s
  PROVE  /\ SubsequenceAt(s, I) \in Seq(S)
         /\ Len(SubsequenceAt(s, I)) = Cardinality(I) /\ Cardinality(I) <= Len(s)
         /\ \A n \in DOMAIN SubsequenceAt(s, I) :
               PlaceOf(I, n) \in I /\ SubsequenceAt(s, I)[n] = s[PlaceOf(I, n)]
         /\ \A n \in DOMAIN SubsequenceAt(s, I) : \E i \in I : SubsequenceAt(s, I)[n] = s[i]
         /\ \A n, m \in DOMAIN SubsequenceAt(s, I) : n # m => PlaceOf(I, n) # PlaceOf(I, m)
<1>1. /\ I \in SUBSET Nat /\ IsFiniteSet(I) /\ Cardinality(I) \in Nat
      /\ Cardinality(I) <= Len(s)
  <2>1. DOMAIN s = 1 .. Len(s) /\ Len(s) \in Nat
    OBVIOUS
  <2>2. IsFiniteSet(1 .. Len(s)) /\ Cardinality(1 .. Len(s)) = Len(s)
    <3>1. CASE Len(s) = 0
      BY <2>1, <3>1, FS_Interval
    <3>2. CASE Len(s) # 0
      BY <2>1, <3>2, FS_Interval
    <3> QED
      BY <3>1, <3>2
  <2> QED
    BY <2>1, <2>2, FS_Subset, FS_CardinalityType
<1>2. SubsequenceAt(s, I) = [n \in 1 .. Cardinality(I) |-> s[PlaceOf(I, n)]]
  BY DEF SubsequenceAt, PlaceOf
<1>3. \A n \in 1 .. Cardinality(I) : PlaceOf(I, n) \in I
  BY <1>1, PlaceIs
<1>4. \A n, m \in 1 .. Cardinality(I) : n # m => PlaceOf(I, n) # PlaceOf(I, m)
  BY <1>1, PlaceIs
<1>5. \A i \in I : s[i] \in S
  OBVIOUS
<1>6. SubsequenceAt(s, I) \in Seq(S) /\ Len(SubsequenceAt(s, I)) = Cardinality(I)
  BY <1>1, <1>2, <1>3, <1>5
<1> QED
  BY <1>1, <1>2, <1>3, <1>4, <1>6

\* What a subsequence adds up to, where each element has an amount.
THEOREM SumOfSubsequence ==
  ASSUME NEW S, NEW s \in Seq(S), NEW I \in SUBSET DOMAIN s, NEW f, NEW g,
         \A i \in I : f[i] \in Nat,
         \A n \in DOMAIN SubsequenceAt(s, I) : g[n] = f[PlaceOf(I, n)]
  PROVE  SumFunctionOnSet(g, DOMAIN SubsequenceAt(s, I)) = SumFunctionOnSet(f, I)
<1> DEFINE D  == DOMAIN SubsequenceAt(s, I)
           to == [n \in D |-> PlaceOf(I, n)]
<1>1. /\ D = 1 .. Cardinality(I) /\ Cardinality(I) \in Nat /\ IsFiniteSet(I) /\ I \in SUBSET Nat
  <2>1. I \in SUBSET (1 .. Len(s)) /\ Len(s) \in Nat
    OBVIOUS
  <2>2. IsFiniteSet(1 .. Len(s))
    BY <2>1, FS_Interval
  <2> QED
    BY <2>1, <2>2, FS_Subset, FS_CardinalityType DEF SubsequenceAt
<1>2. IsFiniteSet(D)
  BY <1>1, FS_Interval
<1>3. \A n \in D : to[n] \in I
  BY SubsequenceIs
<1>4. \A n, m \in D : n # m => to[n] # to[m]
  BY SubsequenceIs
<1>5. {to[n] : n \in D} = I
  <2>1. ASSUME NEW i \in I
        PROVE  \E n \in D : to[n] = i
    <3>1. Rank(I, i) \in D /\ PlaceOf(I, Rank(I, i)) = i
      BY <1>1, PlaceIs, RankIs
    <3> QED
      BY <3>1
  <2> HIDE DEF to
  <2> QED
    BY <1>3, <2>1
<1>6. \A n \in D : g[n] = f[to[n]] /\ g[n] \in Nat
  BY <1>3
<1> HIDE DEF D, to
<1>7. SumFunctionOnSet(g, D) = SumFunctionOnSet(f, {to[n] : n \in D})
  BY <1>2, <1>4, <1>6, SumRenamed
<1> QED
  BY <1>5, <1>7 DEF D

============================================================================
