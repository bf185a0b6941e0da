----------------------------- MODULE SumTheorems -----------------------------
(***************************************************************************)
(* Lemmas about SumFunction, the sum of the values of a function with a    *)
(* finite domain.                                                          *)
(*                                                                         *)
(* They are proved by induction in the form of a least counterexample: a   *)
(* non-empty set of subsets of a finite set has a minimal member (module   *)
(* FiniteSetTheorems), so a claim that fails for some subset fails for one *)
(* all of whose strict subsets satisfy it.                                 *)
(***************************************************************************)
EXTENDS Integers, FiniteSets, Functions, FiniteSetTheorems, TLAPS

\* The element a fold takes out of a set first.
Pick(s) == CHOOSE x \in s : TRUE

\* g is the table a sum of f over S is read from: the sums over all subsets.
IsTable(g, f, S) ==
    g = [s \in SUBSET S |->
           IF s = {} THEN 0 ELSE f[Pick(s)] + g[s \ {Pick(s)}]]

Table(f, S) == CHOOSE g : IsTable(g, f, S)

\* Every non-empty set of subsets of a finite set has a minimal member.
LEMMA MinimalSubset ==
    ASSUME NEW S, IsFiniteSet(S), NEW Bad, Bad \subseteq SUBSET S, Bad # {}
    PROVE  \E T \in Bad : \A U \in SUBSET T : U # T => U \notin Bad
<1>1. IsWellFoundedOn(StrictSubsetOrdering(S), SUBSET S)
  BY FS_StrictSubsetOrderingWellFounded, FS_FiniteSubsetsOfFinite
<1>2. PICK T \in Bad : \A U \in Bad : ~ (<<U, T>> \in StrictSubsetOrdering(S))
  BY <1>1, WFMin
<1>3. ASSUME NEW U \in SUBSET T, U # T, U \in Bad
      PROVE  FALSE
  <2>1. <<U, T>> \in (SUBSET S) \X (SUBSET S)
    BY <1>3
  <2>2. <<U, T>>[1] = U /\ <<U, T>>[2] = T
    OBVIOUS
  <2>3. QED
    BY <2>1, <2>2, <1>2, <1>3 DEF StrictSubsetOrdering
<1>4. QED
  BY <1>3

\* What a fold takes out of a non-empty set is a member of it.
LEMMA PickIn ==
    ASSUME NEW s, s # {}
    PROVE  Pick(s) \in s
  BY DEF Pick

\* An entry of a table is a value and an earlier entry.
LEMMA TableValue ==
    ASSUME NEW f, NEW S, NEW g, IsTable(g, f, S), NEW s \in SUBSET S
    PROVE  g[s] = IF s = {} THEN 0 ELSE f[Pick(s)] + g[s \ {Pick(s)}]
  BY DEF IsTable

\* Two tables of the same sums agree.
LEMMA TableUnique ==
    ASSUME NEW f, NEW S, IsFiniteSet(S), NEW g, NEW h,
           IsTable(g, f, S), IsTable(h, f, S), NEW s \in SUBSET S
    PROVE  g[s] = h[s]
<1> DEFINE Bad == {T \in SUBSET S : g[T] # h[T]}
<1> SUFFICES ASSUME Bad # {} PROVE FALSE
  OBVIOUS
<1>1. PICK T \in Bad : \A U \in SUBSET T : U # T => U \notin Bad
  <2> Bad \subseteq SUBSET S
    OBVIOUS
  <2> HIDE DEF Bad
  <2> QED BY MinimalSubset
<1>2. CASE T = {}
  BY <1>1, <1>2, TableValue
<1>3. CASE T # {}
  <2>1. Pick(T) \in T
    BY <1>3, PickIn
  <2>2. g[T \ {Pick(T)}] = h[T \ {Pick(T)}]
    BY <2>1, <1>1
  <2>3. QED
    BY <1>1, <1>3, <2>2, TableValue
<1>4. QED
  BY <1>2, <1>3

\* A table contains the tables of the subsets.
LEMMA TableRestricts ==
    ASSUME NEW f, NEW S, NEW g, IsTable(g, f, S), NEW U \in SUBSET S
    PROVE  IsTable([s \in SUBSET U |-> g[s]], f, U)
<1> DEFINE r == [s \in SUBSET U |-> g[s]]
<1>1. ASSUME NEW s \in SUBSET U
      PROVE  r[s] = IF s = {} THEN 0 ELSE f[Pick(s)] + r[s \ {Pick(s)}]
  BY TableValue, s \in SUBSET S, s \ {Pick(s)} \in SUBSET U
<1>2. r = [s \in SUBSET U |->
             IF s = {} THEN 0 ELSE f[Pick(s)] + r[s \ {Pick(s)}]]
  BY <1>1
<1>3. QED
  BY <1>2 DEF IsTable

\* A sum is the last entry of its table.
LEMMA SumIsTableEntry ==
    ASSUME NEW f, NEW S
    PROVE  SumFunctionOnSet(f, S) = Table(f, S)[S]
  BY DEF SumFunctionOnSet, FoldFunctionOnSet, MapThenFoldSet, Table, IsTable, Pick

\* ... and every entry of a table is a sum.
LEMMA TableEntryIsSum ==
    ASSUME NEW f, NEW S, IsFiniteSet(S), NEW g, IsTable(g, f, S), NEW U \in SUBSET S
    PROVE  g[U] = SumFunctionOnSet(f, U)
<1> DEFINE r == [s \in SUBSET U |-> g[s]]
<1>1. IsTable(r, f, U)
  BY TableRestricts
<1>2. IsTable(Table(f, U), f, U)
  BY <1>1 DEF Table
<1>3. IsFiniteSet(U)
  BY FS_Subset
<1>4. r[U] = Table(f, U)[U]
  <2> HIDE DEF r
  <2> QED BY <1>1, <1>2, <1>3, TableUnique
<1>5. QED
  BY <1>4, SumIsTableEntry

\* The recursion of a fold is well founded: every finite set has a table.
LEMMA TableExists ==
    ASSUME NEW f, NEW S, IsFiniteSet(S)
    PROVE  IsTable(Table(f, S), f, S)
<1> DEFINE Bad == {T \in SUBSET S : ~ \E g : IsTable(g, f, T)}
<1> SUFFICES ASSUME Bad # {} PROVE FALSE
  BY DEF Table
<1>1. PICK T \in Bad : \A U \in SUBSET T : U # T => U \notin Bad
  <2> Bad \subseteq SUBSET S
    OBVIOUS
  <2> HIDE DEF Bad
  <2> QED BY MinimalSubset
<1>2. ASSUME NEW s \in SUBSET T, s # T
      PROVE  SumFunctionOnSet(f, s) =
               IF s = {} THEN 0
               ELSE f[Pick(s)] + SumFunctionOnSet(f, s \ {Pick(s)})
  <2>1. PICK g : IsTable(g, f, s)
    BY <1>1, <1>2
  <2>2. IsFiniteSet(s)
    BY FS_Subset
  <2>3. \A u \in SUBSET s : g[u] = SumFunctionOnSet(f, u)
    BY <2>1, <2>2, TableEntryIsSum
  <2>4. g[s] = IF s = {} THEN 0 ELSE f[Pick(s)] + g[s \ {Pick(s)}]
    BY <2>1, TableValue
  <2>5. QED
    BY <2>3, <2>4
<1> DEFINE val(s) == IF s = {} THEN 0
                     ELSE f[Pick(s)] + SumFunctionOnSet(f, s \ {Pick(s)})
           g == [s \in SUBSET T |-> val(s)]
<1>3. ASSUME NEW s \in SUBSET T
      PROVE  g[s] = IF s = {} THEN 0 ELSE f[Pick(s)] + g[s \ {Pick(s)}]
  <2>1. CASE s = {}
    BY <2>1
  <2>2. CASE s # {}
    <3>1. Pick(s) \in s
      BY <2>2, PickIn
    <3> DEFINE u == s \ {Pick(s)}
    <3>2. u \in SUBSET T /\ u # T
      BY <3>1
    <3>3. SumFunctionOnSet(f, u) = val(u)
      BY <3>2, <1>2
    <3>4. g[u] = val(u) /\ g[s] = f[Pick(s)] + SumFunctionOnSet(f, u)
      BY <3>2, <2>2
    <3>5. QED
      BY <3>3, <3>4, <2>2
  <2>3. QED
    BY <2>1, <2>2
<1>4. IsTable(g, f, T)
  <2>1. g = [s \in SUBSET T |-> IF s = {} THEN 0 ELSE f[Pick(s)] + g[s \ {Pick(s)}]]
    <3> HIDE DEF val
    <3> QED BY <1>3
  <2>2. QED
    BY <2>1 DEF IsTable
<1>5. QED
  BY <1>1, <1>4

-----------------------------------------------------------------------------
(* Sums over a set, with a function whose domain may be larger *)

\* Nothing adds up to zero.
LEMMA SumOnEmpty ==
    ASSUME NEW f
    PROVE  SumFunctionOnSet(f, {}) = 0
<1>1. IsTable(Table(f, {}), f, {})
  BY TableExists, FS_EmptySet
<1>2. QED
  BY <1>1, TableValue, SumIsTableEntry

\* A sum is one of its values and the sum of the others.
LEMMA SumOnPick ==
    ASSUME NEW f, NEW S, IsFiniteSet(S), S # {}
    PROVE  SumFunctionOnSet(f, S) = f[Pick(S)] + SumFunctionOnSet(f, S \ {Pick(S)})
<1>1. IsTable(Table(f, S), f, S)
  BY TableExists
<1>2. Table(f, S)[S] = f[Pick(S)] + Table(f, S)[S \ {Pick(S)}]
  BY <1>1, TableValue
<1>3. /\ Table(f, S)[S] = SumFunctionOnSet(f, S)
      /\ Table(f, S)[S \ {Pick(S)}] = SumFunctionOnSet(f, S \ {Pick(S)})
  <2>1. S \in SUBSET S /\ S \ {Pick(S)} \in SUBSET S
    OBVIOUS
  <2>2. ASSUME NEW U \in SUBSET S
        PROVE  Table(f, S)[U] = SumFunctionOnSet(f, U)
    BY <1>1, TableEntryIsSum
  <2>3. QED
    BY <2>1, <2>2
<1>4. QED
  BY <1>2, <1>3

\* Integers add up to an integer.
LEMMA SumOnInt ==
    ASSUME NEW f, NEW S, IsFiniteSet(S), \A x \in S : f[x] \in Int
    PROVE  SumFunctionOnSet(f, S) \in Int
<1> DEFINE Bad == {T \in SUBSET S : SumFunctionOnSet(f, T) \notin Int}
<1> SUFFICES ASSUME Bad # {} PROVE FALSE
  OBVIOUS
<1>1. PICK T \in Bad : \A U \in SUBSET T : U # T => U \notin Bad
  <2> Bad \subseteq SUBSET S
    OBVIOUS
  <2> HIDE DEF Bad
  <2> QED BY MinimalSubset
<1>2. T # {}
  BY SumOnEmpty, 0 \in Int
<1>3. Pick(T) \in T
  BY <1>2, PickIn
<1>4. SumFunctionOnSet(f, T \ {Pick(T)}) \in Int
  BY <1>1, <1>3
<1>5. f[Pick(T)] \in Int
  BY <1>3
<1>6. IsFiniteSet(T)
  BY FS_Subset
<1>7. SumFunctionOnSet(f, T) = f[Pick(T)] + SumFunctionOnSet(f, T \ {Pick(T)})
  BY <1>2, <1>6, SumOnPick
<1>8. SumFunctionOnSet(f, T) \in Int
  BY <1>4, <1>5, <1>7
<1>9. QED
  BY <1>8

\* Whichever element is taken out first, the sum is the same.
LEMMA SumOnRemove ==
    ASSUME NEW f, NEW S, IsFiniteSet(S), \A x \in S : f[x] \in Int, NEW e \in S
    PROVE  SumFunctionOnSet(f, S) = f[e] + SumFunctionOnSet(f, S \ {e})
<1> DEFINE Holds(T) == \A y \in T :
             SumFunctionOnSet(f, T) = f[y] + SumFunctionOnSet(f, T \ {y})
           Bad == {T \in SUBSET S : ~ Holds(T)}
<1> SUFFICES ASSUME Bad # {} PROVE FALSE
  OBVIOUS
<1>1. PICK T \in Bad : \A U \in SUBSET T : U # T => U \notin Bad
  <2> Bad \subseteq SUBSET S
    OBVIOUS
  <2> HIDE DEF Bad
  <2> QED BY MinimalSubset
<1>2. ASSUME NEW y \in T
      PROVE  SumFunctionOnSet(f, T) = f[y] + SumFunctionOnSet(f, T \ {y})
  <2> DEFINE p == Pick(T)
  <2>1. p \in T /\ IsFiniteSet(T)
    BY PickIn, FS_Subset
  <2>2. SumFunctionOnSet(f, T) = f[p] + SumFunctionOnSet(f, T \ {p})
    BY <2>1, SumOnPick
  <2> HIDE DEF p
  <2>3. CASE y = p
    BY <2>2, <2>3
  <2>4. CASE y # p
    <3>1. Holds(T \ {p}) /\ Holds(T \ {y})
      BY <1>1, <2>1
    <3>2. /\ SumFunctionOnSet(f, T \ {p}) = f[y] + SumFunctionOnSet(f, (T \ {p}) \ {y})
          /\ SumFunctionOnSet(f, T \ {y}) = f[p] + SumFunctionOnSet(f, (T \ {y}) \ {p})
      BY <3>1, <2>1, <2>4
    <3>3. (T \ {p}) \ {y} = (T \ {y}) \ {p}
      OBVIOUS
    <3> DEFINE R == (T \ {y}) \ {p}
    <3>4. SumFunctionOnSet(f, R) \in Int
      <4> IsFiniteSet(R)
        BY <2>1, FS_Subset
      <4> \A x \in R : f[x] \in Int
        OBVIOUS
      <4> QED BY SumOnInt
    <3>5. f[y] \in Int /\ f[p] \in Int
      BY <2>1
    <3>6. /\ SumFunctionOnSet(f, T \ {p}) = f[y] + SumFunctionOnSet(f, R)
          /\ SumFunctionOnSet(f, T \ {y}) = f[p] + SumFunctionOnSet(f, R)
      BY <3>2, <3>3
    <3> HIDE DEF R
    <3>7. QED
      BY <2>2, <3>4, <3>5, <3>6
  <2>5. QED
    BY <2>3, <2>4
<1>3. QED
  BY <1>1, <1>2

\* A sum depends on the values summed only.
LEMMA SumOnEqual ==
    ASSUME NEW f, NEW g, NEW S, IsFiniteSet(S), \A x \in S : f[x] = g[x]
    PROVE  SumFunctionOnSet(f, S) = SumFunctionOnSet(g, S)
<1> DEFINE Bad == {T \in SUBSET S : SumFunctionOnSet(f, T) # SumFunctionOnSet(g, T)}
<1> SUFFICES ASSUME Bad # {} PROVE FALSE
  OBVIOUS
<1>1. PICK T \in Bad : \A U \in SUBSET T : U # T => U \notin Bad
  <2> Bad \subseteq SUBSET S
    OBVIOUS
  <2> HIDE DEF Bad
  <2> QED BY MinimalSubset
<1>2. T # {}
  BY SumOnEmpty
<1>3. Pick(T) \in T
  BY <1>2, PickIn
<1>4. SumFunctionOnSet(f, T \ {Pick(T)}) = SumFunctionOnSet(g, T \ {Pick(T)})
  BY <1>1, <1>3
<1>5. IsFiniteSet(T)
  BY FS_Subset
<1>6. /\ SumFunctionOnSet(f, T) = f[Pick(T)] + SumFunctionOnSet(f, T \ {Pick(T)})
      /\ SumFunctionOnSet(g, T) = g[Pick(T)] + SumFunctionOnSet(g, T \ {Pick(T)})
  BY <1>2, <1>5, SumOnPick
<1>7. QED
  BY <1>3, <1>4, <1>6

-----------------------------------------------------------------------------
(* Sums of all the values of a function *)

\* SumFunction sums over the domain.
LEMMA SumIsOnDomain ==
    ASSUME NEW S, NEW f, DOMAIN f = S
    PROVE  SumFunction(f) = SumFunctionOnSet(f, S)
  BY DEF SumFunction

\* A sum of integers is an integer.
LEMMA SumInt ==
    ASSUME NEW S, IsFiniteSet(S), NEW f \in [S -> Int]
    PROVE  SumFunction(f) \in Int
  BY SumIsOnDomain, SumOnInt

\* A function without arguments adds up to zero.
LEMMA SumEmpty ==
    ASSUME NEW f, DOMAIN f = {}
    PROVE  SumFunction(f) = 0
  BY SumIsOnDomain, SumOnEmpty

\* One value is taken out of a sum.
LEMMA SumWithout ==
    ASSUME NEW S, IsFiniteSet(S), NEW f \in [S -> Int], NEW e \in S
    PROVE  SumFunction(f) = f[e] + SumFunction([x \in S \ {e} |-> f[x]])
<1> DEFINE r == [x \in S \ {e} |-> f[x]]
<1>1. SumFunctionOnSet(f, S) = f[e] + SumFunctionOnSet(f, S \ {e})
  BY SumOnRemove
<1>2. IsFiniteSet(S \ {e})
  BY FS_Subset
<1>3. SumFunctionOnSet(f, S \ {e}) = SumFunctionOnSet(r, S \ {e})
  BY <1>2, SumOnEqual
<1>4. SumFunction(r) = SumFunctionOnSet(r, S \ {e})
  BY SumIsOnDomain
<1>5. QED
  BY <1>1, <1>3, <1>4, SumIsOnDomain

\* The share of e in the sum of f.
Share(f, e) == IF e \in DOMAIN f THEN f[e] ELSE 0

\* A sum is the share of e and the sum of the other values.
LEMMA SumSplits ==
    ASSUME NEW S, IsFiniteSet(S), NEW f \in [S -> Int], NEW e
    PROVE  /\ SumFunction(f) = Share(f, e) + SumFunction([x \in S \ {e} |-> f[x]])
           /\ Share(f, e) \in Int
           /\ SumFunction([x \in S \ {e} |-> f[x]]) \in Int
<1> DEFINE r == [x \in S \ {e} |-> f[x]]
<1>1. SumFunction(r) \in Int
  <2>1. r \in [S \ {e} -> Int] /\ IsFiniteSet(S \ {e})
    BY FS_Subset
  <2> HIDE DEF r
  <2>2. QED
    BY <2>1, SumInt
<1>2. CASE e \in S
  BY <1>1, <1>2, SumWithout DEF Share
<1>3. CASE e \notin S
  <2>1. S \ {e} = S
    BY <1>3
  <2>2. r = f
    BY <2>1
  <2>3. QED
    BY <1>1, <1>3, <2>2 DEF Share
<1>4. QED
  BY <1>2, <1>3

\* A step that adds, drops or changes one value changes the sum by that value.
LEMMA SumStep ==
    ASSUME NEW S, IsFiniteSet(S), NEW f \in [S -> Int],
           NEW T, IsFiniteSet(T), NEW g \in [T -> Int],
           NEW e, S \ {e} = T \ {e}, \A x \in S \ {e} : g[x] = f[x]
    PROVE  SumFunction(g) = SumFunction(f) - Share(f, e) + Share(g, e)
<1> DEFINE r == [x \in S \ {e} |-> f[x]]
           u == [x \in T \ {e} |-> g[x]]
<1>1. r = u
  OBVIOUS
<1>2. SumFunction(f) = Share(f, e) + SumFunction(r) /\ Share(f, e) \in Int
      /\ SumFunction(r) \in Int
  BY SumSplits
<1>3. SumFunction(g) = Share(g, e) + SumFunction(u) /\ Share(g, e) \in Int
  BY SumSplits
<1> HIDE DEF r, u
<1>4. QED
  BY <1>1, <1>2, <1>3

\* The sum of differences is the difference of the sums.
LEMMA SumMinus ==
    ASSUME NEW S, IsFiniteSet(S), NEW f \in [S -> Int], NEW g \in [S -> Int],
           NEW h \in [S -> Int], \A x \in S : h[x] = f[x] - g[x]
    PROVE  SumFunction(h) = SumFunction(f) - SumFunction(g)
<1> DEFINE Bad == {T \in SUBSET S : SumFunctionOnSet(h, T) #
                      SumFunctionOnSet(f, T) - SumFunctionOnSet(g, T)}
<1>1. SUFFICES ASSUME Bad # {} PROVE FALSE
  <2>1. SumFunctionOnSet(h, S) = SumFunctionOnSet(f, S) - SumFunctionOnSet(g, S)
    BY <1>1, S \in SUBSET S
  <2>2. QED
    BY <2>1, SumIsOnDomain
<1>2. PICK T \in Bad : \A U \in SUBSET T : U # T => U \notin Bad
  <2> Bad \subseteq SUBSET S
    OBVIOUS
  <2> HIDE DEF Bad
  <2> QED BY <1>1, MinimalSubset
<1>3. T # {}
  BY SumOnEmpty, 0 - 0 = 0
<1> DEFINE p == Pick(T)
           R == T \ {p}
<1>4. p \in T /\ IsFiniteSet(T) /\ IsFiniteSet(R) /\ R \in SUBSET T /\ R # T
  BY <1>3, PickIn, FS_Subset
<1>5. SumFunctionOnSet(h, R) = SumFunctionOnSet(f, R) - SumFunctionOnSet(g, R)
  BY <1>2, <1>4
<1>6. /\ SumFunctionOnSet(h, T) = h[p] + SumFunctionOnSet(h, R)
      /\ SumFunctionOnSet(f, T) = f[p] + SumFunctionOnSet(f, R)
      /\ SumFunctionOnSet(g, T) = g[p] + SumFunctionOnSet(g, R)
  BY <1>3, <1>4, SumOnPick
<1>7. h[p] = f[p] - g[p] /\ f[p] \in Int /\ g[p] \in Int
  BY <1>4
<1>8. SumFunctionOnSet(f, R) \in Int /\ SumFunctionOnSet(g, R) \in Int
  BY <1>4, SumOnInt
<1>9. SumFunctionOnSet(h, T) = SumFunctionOnSet(f, T) - SumFunctionOnSet(g, T)
  <2> HIDE DEF p, R
  <2> QED BY <1>5, <1>6, <1>7, <1>8
<1>10. QED
  BY <1>9

\* Larger values have a larger sum.
LEMMA SumMonotone ==
    ASSUME NEW S, IsFiniteSet(S), NEW f \in [S -> Int], NEW g \in [S -> Int],
           \A x \in S : f[x] <= g[x]
    PROVE  SumFunction(f) <= SumFunction(g)
<1> DEFINE Bad == {T \in SUBSET S :
                     ~ (SumFunctionOnSet(f, T) <= SumFunctionOnSet(g, T))}
<1>1. SUFFICES ASSUME Bad # {} PROVE FALSE
  <2>1. SumFunctionOnSet(f, S) <= SumFunctionOnSet(g, S)
    BY <1>1, S \in SUBSET S
  <2>2. QED
    BY <2>1, SumIsOnDomain
<1>2. PICK T \in Bad : \A U \in SUBSET T : U # T => U \notin Bad
  <2> Bad \subseteq SUBSET S
    OBVIOUS
  <2> HIDE DEF Bad
  <2> QED BY <1>1, MinimalSubset
<1>3. T # {}
  BY SumOnEmpty, 0 <= 0
<1> DEFINE p == Pick(T)
           R == T \ {p}
<1>4. p \in T /\ IsFiniteSet(T) /\ IsFiniteSet(R) /\ R \in SUBSET T /\ R # T
  BY <1>3, PickIn, FS_Subset
<1>5. SumFunctionOnSet(f, R) <= SumFunctionOnSet(g, R)
  BY <1>2, <1>4
<1>6. /\ SumFunctionOnSet(f, T) = f[p] + SumFunctionOnSet(f, R)
      /\ SumFunctionOnSet(g, T) = g[p] + SumFunctionOnSet(g, R)
  BY <1>3, <1>4, SumOnPick
<1>7. f[p] <= g[p] /\ f[p] \in Int /\ g[p] \in Int
  BY <1>4
<1>8. SumFunctionOnSet(f, R) \in Int /\ SumFunctionOnSet(g, R) \in Int
  BY <1>4, SumOnInt
<1>9. SumFunctionOnSet(f, T) <= SumFunctionOnSet(g, T)
  <2> HIDE DEF p, R
  <2> QED BY <1>5, <1>6, <1>7, <1>8
<1>10. QED
  BY <1>9

\* A sum of zeros is zero.
LEMMA SumZero ==
    ASSUME NEW S, IsFiniteSet(S), NEW f \in [S -> Int], \A x \in S : f[x] = 0
    PROVE  SumFunction(f) = 0
<1>1. SumFunction(f) = SumFunction(f) - SumFunction(f)
  <2>1. \A x \in S : f[x] = f[x] - f[x]
    OBVIOUS
  <2>2. QED
    BY <2>1, SumMinus
<1>2. QED
  BY <1>1, SumInt

\* A sum of naturals is a natural.
LEMMA SumNat ==
    ASSUME NEW S, IsFiniteSet(S), NEW f \in [S -> Nat]
    PROVE  SumFunction(f) \in Nat
<1> DEFINE z == [x \in S |-> 0]
<1>1. f \in [S -> Int] /\ z \in [S -> Int] /\ \A x \in S : z[x] = 0 /\ z[x] <= f[x]
  OBVIOUS
<1> HIDE DEF z
<1>2. SumFunction(z) = 0 /\ SumFunction(z) <= SumFunction(f) /\ SumFunction(f) \in Int
  BY <1>1, SumZero, SumMonotone, SumInt
<1>3. QED
  BY <1>2

\* Zeros may be left out of a sum.
LEMMA SumExtend ==
    ASSUME NEW T, IsFiniteSet(T), NEW S, S \subseteq T,
           NEW f \in [S -> Int], NEW g \in [T -> Int],
           \A x \in S : g[x] = f[x], \A x \in T \ S : g[x] = 0
    PROVE  SumFunction(g) = SumFunction(f)
<1> DEFINE Bad == {V \in SUBSET T :
                     SumFunctionOnSet(g, V) # SumFunctionOnSet(f, V \cap S)}
<1>1. SUFFICES ASSUME Bad # {} PROVE FALSE
  <2>1. SumFunctionOnSet(g, T) = SumFunctionOnSet(f, S)
    BY <1>1, T \in SUBSET T, T \cap S = S
  <2>2. QED
    BY <2>1, SumIsOnDomain
<1>2. PICK V \in Bad : \A U \in SUBSET V : U # V => U \notin Bad
  <2> Bad \subseteq SUBSET T
    OBVIOUS
  <2> HIDE DEF Bad
  <2> QED BY <1>1, MinimalSubset
<1>3. V # {}
  BY SumOnEmpty, {} \cap S = {}
<1> DEFINE p == Pick(V)
           R == V \ {p}
<1>4. p \in V /\ IsFiniteSet(V) /\ R \in SUBSET V /\ R # V
  BY <1>3, PickIn, FS_Subset
<1>5. SumFunctionOnSet(g, R) = SumFunctionOnSet(f, R \cap S)
  BY <1>2, <1>4
<1>6. SumFunctionOnSet(g, V) = g[p] + SumFunctionOnSet(g, R)
  BY <1>3, <1>4, SumOnPick
<1>7. IsFiniteSet(V \cap S) /\ IsFiniteSet(R \cap S)
  BY <1>4, FS_Subset
<1>8. SumFunctionOnSet(f, R \cap S) \in Int
  BY <1>7, SumOnInt
<1>9. CASE p \in S
  <2>1. (V \cap S) \ {p} = R \cap S /\ p \in V \cap S
    BY <1>9, <1>4
  <2>2. SumFunctionOnSet(f, V \cap S) = f[p] + SumFunctionOnSet(f, R \cap S)
    BY <2>1, <1>7, SumOnRemove
  <2>3. g[p] = f[p]
    BY <1>9
  <2>4. QED
    BY <2>2, <2>3, <1>5, <1>6
<1>10. CASE p \notin S
  <2>1. V \cap S = R \cap S
    BY <1>10
  <2>2. g[p] = 0
    BY <1>10, <1>4
  <2>3. SumFunctionOnSet(g, R) \in Int
    BY <1>5, <1>8
  <2>4. SumFunctionOnSet(g, V) = SumFunctionOnSet(g, R)
    <3> HIDE DEF p, R
    <3> QED BY <2>2, <2>3, <1>6
  <2>5. QED
    BY <2>1, <2>4, <1>5
<1>11. QED
  BY <1>9, <1>10

\* A part of a sum of naturals is at most the sum.
LEMMA SumPart ==
    ASSUME NEW T, IsFiniteSet(T), NEW S, S \subseteq T,
           NEW f \in [S -> Int], NEW g \in [T -> Int],
           \A x \in S : f[x] <= g[x], \A x \in T \ S : 0 <= g[x]
    PROVE  SumFunction(f) <= SumFunction(g)
<1> DEFINE h == [x \in T |-> IF x \in S THEN f[x] ELSE 0]
<1>1. h \in [T -> Int] /\ \A x \in T : h[x] <= g[x]
  OBVIOUS
<1>2. (\A x \in S : h[x] = f[x]) /\ (\A x \in T \ S : h[x] = 0)
  OBVIOUS
<1> HIDE DEF h
<1>3. SumFunction(h) = SumFunction(f)
  BY <1>1, <1>2, SumExtend
<1>4. SumFunction(h) <= SumFunction(g)
  BY <1>1, SumMonotone
<1>5. QED
  BY <1>3, <1>4

\* A sum is at most another that holds, under distinct keys, a value at least as
\* large for each of its own.
LEMMA SumInjects ==
    ASSUME NEW S, IsFiniteSet(S), NEW T, IsFiniteSet(T),
           NEW f \in [S -> Int], NEW g \in [T -> Nat], NEW h \in [S -> T],
           \A x, y \in S : h[x] = h[y] => x = y, \A x \in S : f[x] <= g[h[x]]
    PROVE  SumFunction(f) <= SumFunction(g)
<1> DEFINE Image(V) == {h[x] : x \in V}
           Bad == {V \in SUBSET S :
                     ~ (SumFunctionOnSet(f, V) <= SumFunctionOnSet(g, Image(V)))}
           I == Image(S)
           r == [x \in I |-> g[x]]
<1>1. g \in [T -> Int] /\ \A x \in T : g[x] \in Int /\ 0 <= g[x]
  OBVIOUS
<1>2. \A V \in SUBSET S : Image(V) \in SUBSET T /\ IsFiniteSet(Image(V))
  <2>1. ASSUME NEW V \in SUBSET S PROVE Image(V) \in SUBSET T
    OBVIOUS
  <2> HIDE DEF Image
  <2>2. QED
    BY <2>1, FS_Subset
<1>3. Bad = {}
  <2>1. SUFFICES ASSUME Bad # {} PROVE FALSE
    OBVIOUS
  <2>2. PICK V \in Bad : \A U \in SUBSET V : U # V => U \notin Bad
    <3> Bad \subseteq SUBSET S
      OBVIOUS
    <3> HIDE DEF Bad
    <3> QED BY <2>1, MinimalSubset
  <2>3. V # {}
    <3>1. Image({}) = {}
      OBVIOUS
    <3>2. SumFunctionOnSet(f, {}) = 0 /\ SumFunctionOnSet(g, {}) = 0
      BY SumOnEmpty
    <3>3. SumFunctionOnSet(f, {}) <= SumFunctionOnSet(g, Image({}))
      <4> HIDE DEF Image
      <4> QED BY <3>1, <3>2
    <3> HIDE DEF Image
    <3> QED BY <3>3
  <2> DEFINE p == Pick(V)
             R == V \ {p}
  <2>4. p \in V /\ V \in SUBSET S /\ IsFiniteSet(V) /\ IsFiniteSet(R) /\ R \in SUBSET V /\ R # V
    BY <2>3, PickIn, FS_Subset
  <2>5. SumFunctionOnSet(f, R) <= SumFunctionOnSet(g, Image(R))
    BY <2>2, <2>4
  <2>6. SumFunctionOnSet(f, V) = f[p] + SumFunctionOnSet(f, R)
    BY <2>3, <2>4, SumOnPick
  <2>7. Image(V) \ {h[p]} = Image(R) /\ h[p] \in Image(V)
    <3>1. \A x \in V : x # p => h[x] # h[p]
      BY <2>4
    <3> QED BY <2>4, <3>1
  <2>8. SumFunctionOnSet(g, Image(V)) = g[h[p]] + SumFunctionOnSet(g, Image(R))
    <3>1. IsFiniteSet(Image(V)) /\ \A x \in Image(V) : g[x] \in Int
      BY <1>1, <1>2, <2>4
    <3> DEFINE W == Image(V)
               e == h[p]
    <3>2. IsFiniteSet(W) /\ (\A x \in W : g[x] \in Int) /\ e \in W /\ W \ {e} = Image(R)
      BY <2>7, <3>1
    <3> HIDE DEF W, e
    <3>3. SumFunctionOnSet(g, W) = g[e] + SumFunctionOnSet(g, W \ {e})
      BY <3>2, SumOnRemove
    <3> HIDE DEF Image
    <3>4. SumFunctionOnSet(g, W) = g[e] + SumFunctionOnSet(g, Image(R))
      BY <3>2, <3>3
    <3> QED BY <3>4 DEF W, e
  <2>9. SumFunctionOnSet(f, R) \in Int
    BY <2>4, SumOnInt
  <2>10. SumFunctionOnSet(g, Image(R)) \in Int
    <3>1. IsFiniteSet(Image(R)) /\ \A x \in Image(R) : g[x] \in Int
      BY <1>1, <1>2, <2>4
    <3> HIDE DEF Image
    <3> QED BY <3>1, SumOnInt
  <2>11. f[p] <= g[h[p]] /\ f[p] \in Int /\ g[h[p]] \in Int
    BY <2>4
  <2>12. SumFunctionOnSet(f, V) <= SumFunctionOnSet(g, Image(V))
    <3> HIDE DEF p, R, Image
    <3> QED BY <2>5, <2>6, <2>8, <2>9, <2>10, <2>11
  <2>13. QED
    BY <2>12
<1>4. SumFunction(f) <= SumFunctionOnSet(g, I)
  <2>1. SumFunctionOnSet(f, S) <= SumFunctionOnSet(g, I)
    BY <1>3, S \in SUBSET S
  <2> HIDE DEF I
  <2>2. SumFunction(f) = SumFunctionOnSet(f, S)
    BY SumIsOnDomain
  <2>3. QED
    BY <2>1, <2>2
<1>5. I \subseteq T /\ IsFiniteSet(I)
  BY <1>2, S \in SUBSET S
<1> HIDE DEF I
<1>6. r \in [I -> Int] /\ \A x \in I : r[x] = g[x]
  BY <1>1, <1>5
<1>7. SumFunction(r) = SumFunctionOnSet(g, I)
  <2>1. DOMAIN r = I
    OBVIOUS
  <2> HIDE DEF r
  <2>2. SumFunction(r) = SumFunctionOnSet(r, I)
    BY <2>1, SumIsOnDomain
  <2>3. SumFunctionOnSet(r, I) = SumFunctionOnSet(g, I)
    BY <1>5, <1>6, SumOnEqual
  <2>4. QED
    BY <2>2, <2>3
<1> HIDE DEF r
<1>8. SumFunction(r) <= SumFunction(g)
  <2>1. \A x \in I : r[x] <= g[x]
    BY <1>1, <1>5, <1>6
  <2>2. \A x \in T \ I : 0 <= g[x]
    BY <1>1
  <2>3. QED
    BY <1>1, <1>5, <1>6, <2>1, <2>2, SumPart
<1>9. SumFunction(f) \in Int /\ SumFunction(r) \in Int /\ SumFunction(g) \in Int
  BY <1>1, <1>5, <1>6, SumInt
<1>10. QED
  BY <1>4, <1>7, <1>8, <1>9

\* A common factor is taken out of a sum.
LEMMA SumScaled ==
    ASSUME NEW S, IsFiniteSet(S), NEW f \in [S -> Int], NEW c \in Int,
           NEW h \in [S -> Int], \A x \in S : h[x] = c * f[x]
    PROVE  SumFunction(h) = c * SumFunction(f)
<1> DEFINE Bad == {T \in SUBSET S :
                     SumFunctionOnSet(h, T) # c * SumFunctionOnSet(f, T)}
<1>1. SUFFICES ASSUME Bad # {} PROVE FALSE
  <2>1. SumFunctionOnSet(h, S) = c * SumFunctionOnSet(f, S)
    BY <1>1, S \in SUBSET S
  <2>2. QED
    BY <2>1, SumIsOnDomain
<1>2. PICK T \in Bad : \A U \in SUBSET T : U # T => U \notin Bad
  <2> Bad \subseteq SUBSET S
    OBVIOUS
  <2> HIDE DEF Bad
  <2> QED BY <1>1, MinimalSubset
<1>3. T # {}
  BY SumOnEmpty, c * 0 = 0
<1> DEFINE p == Pick(T)
           R == T \ {p}
<1>4. p \in T /\ IsFiniteSet(T) /\ IsFiniteSet(R) /\ R \in SUBSET T /\ R # T
  BY <1>3, PickIn, FS_Subset
<1>5. SumFunctionOnSet(h, R) = c * SumFunctionOnSet(f, R)
  BY <1>2, <1>4
<1>6. /\ SumFunctionOnSet(h, T) = h[p] + SumFunctionOnSet(h, R)
      /\ SumFunctionOnSet(f, T) = f[p] + SumFunctionOnSet(f, R)
  BY <1>3, <1>4, SumOnPick
<1>7. h[p] = c * f[p] /\ f[p] \in Int
  BY <1>4
<1>8. SumFunctionOnSet(f, R) \in Int
  BY <1>4, SumOnInt
<1>9. SumFunctionOnSet(h, T) = c * SumFunctionOnSet(f, T)
  <2> HIDE DEF p, R
  <2>1. \A a, b \in Int : c * a + c * b = c * (a + b)
    OBVIOUS
  <2> QED BY <1>5, <1>6, <1>7, <1>8, <2>1
<1>10. QED
  BY <1>9

\* Every non-empty set of naturals has a least member.
LEMMA LeastNatural ==
    ASSUME NEW Bad, Bad \subseteq Nat, Bad # {}
    PROVE  \E m \in Bad : \A k \in Bad : m <= k
<1>1. PICK m \in Bad : \A k \in Bad : ~ (<<k, m>> \in OpToRel(<, Nat))
  BY NatLessThanWellFounded, WFMin, Zenon
<1>2. ASSUME NEW k \in Bad
      PROVE  m <= k
  <2>1. <<k, m>> \in Nat \X Nat /\ <<k, m>>[1] = k /\ <<k, m>>[2] = m
    OBVIOUS
  <2>2. ~ (k < m)
    BY <1>1, <2>1 DEF OpToRel
  <2>3. QED
    BY <2>2
<1>3. QED
  BY <1>2

\* Equal values add up to their number times the value.
LEMMA SumConstant ==
    ASSUME NEW S, IsFiniteSet(S), NEW c \in Int, NEW f \in [S -> Int], \A x \in S : f[x] = c
    PROVE  SumFunction(f) = Cardinality(S) * c
<1> DEFINE Bad == {T \in SUBSET S : SumFunctionOnSet(f, T) # Cardinality(T) * c}
<1>1. SUFFICES ASSUME Bad # {} PROVE FALSE
  <2>1. SumFunctionOnSet(f, S) = Cardinality(S) * c
    BY <1>1, S \in SUBSET S
  <2>2. QED
    BY <2>1, SumIsOnDomain
<1>2. PICK T \in Bad : \A U \in SUBSET T : U # T => U \notin Bad
  <2> Bad \subseteq SUBSET S
    OBVIOUS
  <2> HIDE DEF Bad
  <2> QED BY <1>1, MinimalSubset
<1>3. T \subseteq S /\ IsFiniteSet(T) /\ SumFunctionOnSet(f, T) # Cardinality(T) * c
  BY <1>2, FS_Subset
<1>4. CASE T = {}
  <2>1. SumFunctionOnSet(f, T) = 0 /\ Cardinality(T) = 0
    BY <1>4, SumOnEmpty, FS_EmptySet
  <2>2. QED
    BY <1>3, <2>1
<1>5. CASE T # {}
  <2>1. PICK e \in T : TRUE
    BY <1>5
  <2> DEFINE U == T \ {e}
  <2>2. U \in SUBSET T /\ U # T /\ U \in SUBSET S
    BY <1>3, <2>1
  <2>3. SumFunctionOnSet(f, U) = Cardinality(U) * c
    BY <1>2, <2>2
  <2>4. SumFunctionOnSet(f, T) = f[e] + SumFunctionOnSet(f, U)
    BY <1>3, SumOnRemove
  <2>5. Cardinality(U) = Cardinality(T) - 1 /\ Cardinality(T) \in Int
    BY <1>3, <2>1, FS_RemoveElement, FS_CardinalityType
  <2>6. f[e] = c
    BY <1>3, <2>1
  <2> HIDE DEF U
  <2>7. (Cardinality(T) - 1) * c + c = Cardinality(T) * c
    BY <2>5
  <2>8. QED
    BY <1>3, <2>3, <2>4, <2>5, <2>6, <2>7
<1>6. QED
  BY <1>4, <1>5

=============================================================================
