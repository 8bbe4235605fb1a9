----------------------------- MODULE Aggregates -----------------------------
(***************************************************************************)
(* Lemmas about what the marts are built from: the largest of a set of      *)
(* numbers (max), the place of a row in an order (row_number) and the sum   *)
(* of a column (sum, count).  They hold for every finite set of rows, and   *)
(* are proved by induction over its subsets, in the form SetInduction       *)
(* gives it: a family of sets instead of a predicate.                       *)
(***************************************************************************)
EXTENDS FiniteSetsExt, FiniteSetTheorems, TLAPS

-----------------------------------------------------------------------------
(* Induction over the subsets of a finite set *)

(* A family of subsets of S has one that holds no other of the family.      *)
LEMMA LeastSet ==
    ASSUME NEW S, IsFiniteSet(S), NEW Family \in SUBSET SUBSET S, Family # {}
    PROVE  \E T \in Family : \A U \in SUBSET T : U # T => U \notin Family
<1> DEFINE R == StrictSubsetOrdering(S)
<1>1. IsWellFoundedOn(R, SUBSET S)
  BY FS_StrictSubsetOrderingWellFounded, FS_FiniteSubsetsOfFinite
<1>2. PICK T \in Family : \A U \in Family : ~ (<<U, T>> \in R)
  <2> HIDE DEF R
  <2> QED BY <1>1, WFMin
<1>3. ASSUME NEW U \in SUBSET T, U # T, U \in Family PROVE FALSE
  <2>1. <<U, T>> \in R
    BY <1>3 DEF StrictSubsetOrdering
  <2> QED BY <1>2, <1>3, <2>1
<1> QED BY <1>3

(* A family of sets that holds {} and with a set each of its extensions by  *)
(* an element of S holds every subset of S.                                 *)
LEMMA SetInduction ==
    ASSUME NEW S, IsFiniteSet(S), NEW G, {} \in G,
           \A T \in SUBSET S : \A x \in S \ T : T \in G => T \cup {x} \in G
    PROVE  SUBSET S \subseteq G
<1> DEFINE Bad == (SUBSET S) \ G
<1> SUFFICES ASSUME Bad # {} PROVE FALSE
  OBVIOUS
<1>1. PICK T \in Bad : \A U \in SUBSET T : U # T => U \notin Bad
  <2>1. Bad \in SUBSET SUBSET S
    OBVIOUS
  <2> HIDE DEF Bad
  <2> QED BY <2>1, LeastSet
<1>2. PICK x \in T : TRUE
  OBVIOUS
<1>3. T \ {x} \in SUBSET S /\ x \in S \ (T \ {x}) /\ (T \ {x}) \cup {x} = T
  OBVIOUS
<1>4. T \ {x} \in SUBSET T /\ T \ {x} # T
  BY <1>2
<1> QED BY <1>1, <1>3, <1>4

(* A non-empty finite set of numbers has a largest element.                 *)
LEMMA MaxExists ==
    ASSUME NEW S, IsFiniteSet(S), S \subseteq Int, S # {}
    PROVE  Max(S) \in S /\ \A y \in S : y <= Max(S)
<1> DEFINE G == {T \in SUBSET S : T = {} \/ \E x \in T : \A y \in T : x >= y}
<1>1. {} \in G
  OBVIOUS
<1>2. ASSUME NEW T \in SUBSET S, NEW x \in S \ T, T \in G
      PROVE  T \cup {x} \in G
  <2>1. CASE T = {}
    <3>1. x >= x
      OBVIOUS
    <3> QED BY <2>1, <3>1
  <2>2. CASE T # {}
    <3>1. PICK z \in T : \A y \in T : z >= y
      BY <1>2, <2>2
    <3>2. CASE z >= x
      BY <3>1, <3>2
    <3>3. CASE ~ (z >= x)
      <4>1. x \in Int /\ z \in Int /\ \A y \in T : y \in Int
        OBVIOUS
      <4>2. \A y \in T \cup {x} : x >= y
        BY <3>1, <3>3, <4>1
      <4> QED BY <4>2
    <3> QED BY <3>2, <3>3
  <2> QED BY <2>1, <2>2
<1>3. S \in G
  <2> HIDE DEF G
  <2> QED BY <1>1, <1>2, SetInduction
<1>4. \E x \in S : \A y \in S : x >= y
  BY <1>3
<1>5. Max(S) \in S /\ \A y \in S : Max(S) >= y
  BY <1>4 DEF Max
<1> QED BY <1>5

(* ... and a smallest.                                                      *)
LEMMA MinExists ==
    ASSUME NEW S, IsFiniteSet(S), S \subseteq Int, S # {}
    PROVE  Min(S) \in S /\ \A y \in S : Min(S) <= y
<1> DEFINE N == {-x : x \in S}
           f == [x \in S |-> -x]
<1>1. N \subseteq Int /\ N # {}
  <2>1. \A x \in S : -x \in Int
    OBVIOUS
  <2> QED BY <2>1
<1>2. IsFiniteSet(N)
  <2>1. f \in Surjection(S, N)
    BY DEF Surjection
  <2> QED BY <2>1, FS_Surjection
<1>3. Max(N) \in N /\ \A y \in N : y <= Max(N)
  <2> HIDE DEF N
  <2> QED BY <1>1, <1>2, MaxExists
<1>4. PICK z \in S : Max(N) = -z
  BY <1>3
<1>5. ASSUME NEW y \in S PROVE z <= y
  <2>1. -y <= -z
    BY <1>3, <1>4
  <2> HIDE DEF N, f
  <2> QED BY <2>1
<1>6. Min(S) \in S /\ \A y \in S : Min(S) =< y
  BY <1>5 DEF Min
<1> QED BY <1>6

(* The one element that bounds a set of numbers is its maximum.             *)
LEMMA MaxIs ==
    ASSUME NEW S, S \subseteq Int, NEW x \in S, \A y \in S : y <= x
    PROVE  Max(S) = x
<1>1. Max(S) \in S /\ Max(S) >= x
  BY DEF Max
<1>2. Max(S) \in Int /\ x \in Int /\ Max(S) <= x
  BY <1>1
<1> QED BY <1>1, <1>2

LEMMA MinIs ==
    ASSUME NEW S, S \subseteq Int, NEW x \in S, \A y \in S : x <= y
    PROVE  Min(S) = x
<1>1. Min(S) \in S /\ Min(S) <= x
  BY DEF Min
<1>2. Min(S) \in Int /\ x \in Int /\ x <= Min(S)
  BY <1>1
<1> QED BY <1>1, <1>2

-----------------------------------------------------------------------------
(* Sums over finite sets *)

\* The table that MapThenFoldSet looks a sum up in.
Picked(s) == CHOOSE x \in s : TRUE

IsSum(g, f, S) ==
    g = [s \in SUBSET S |-> IF s = {} THEN 0 ELSE f[Picked(s)] + g[s \ {Picked(s)}]]

LEMMA SumTable ==
    ASSUME NEW f, NEW S
    PROVE  SumFunctionOnSet(f, S) = (CHOOSE g : IsSum(g, f, S))[S]
BY DEF SumFunctionOnSet, FoldFunctionOnSet, MapThenFoldSet, IsSum, Picked

LEMMA PickedIn == ASSUME NEW s, s # {} PROVE Picked(s) \in s
BY DEF Picked

LEMMA SumsAgree ==
    ASSUME NEW f, NEW S, IsFiniteSet(S), NEW T \in SUBSET S, NEW g, NEW h,
           IsSum(g, f, S), IsSum(h, f, T)
    PROVE  \A s \in SUBSET T : g[s] = h[s]
<1> DEFINE Bad == {s \in SUBSET T : g[s] # h[s]}
<1> SUFFICES ASSUME Bad # {} PROVE FALSE
  OBVIOUS
<1>1. PICK s \in Bad : \A u \in SUBSET s : u # s => u \notin Bad
  <2>1. Bad \in SUBSET SUBSET S
    OBVIOUS
  <2> HIDE DEF Bad
  <2> QED BY <2>1, LeastSet
<1>2. s \in SUBSET T /\ s \in SUBSET S
  OBVIOUS
<1>3. s # {}
  BY <1>1, <1>2 DEF IsSum
<1> DEFINE u == s \ {Picked(s)}
<1>4. u \in SUBSET s /\ u # s /\ u \in SUBSET T
  BY <1>2, <1>3, PickedIn
<1>5. g[u] = h[u]
  BY <1>1, <1>4
<1>6. g[s] = f[Picked(s)] + g[u] /\ h[s] = f[Picked(s)] + h[u]
  BY <1>2, <1>3 DEF IsSum
<1> QED BY <1>1, <1>5, <1>6

LEMMA SumExists ==
    ASSUME NEW f, NEW S, IsFiniteSet(S)
    PROVE  \E g : IsSum(g, f, S)
<1> DEFINE Bad == {T \in SUBSET S : ~ \E g : IsSum(g, f, T)}
<1> SUFFICES ASSUME Bad # {} PROVE FALSE
  OBVIOUS
<1>1. PICK T \in Bad : \A U \in SUBSET T : U # T => U \notin Bad
  <2>1. Bad \in SUBSET SUBSET S
    OBVIOUS
  <2> HIDE DEF Bad
  <2> QED BY <2>1, LeastSet
<1> DEFINE table(u) == CHOOSE g : IsSum(g, f, u)
           h == [s \in SUBSET T |-> IF s = {} THEN 0
                    ELSE f[Picked(s)] + table(s \ {Picked(s)})[s \ {Picked(s)}]]
<1>2. ASSUME NEW U \in SUBSET T, U # T
      PROVE  IsSum(table(U), f, U) /\ IsFiniteSet(U)
  <2>1. U \in SUBSET S
    OBVIOUS
  <2>2. \E g : IsSum(g, f, U)
    BY <1>1, <1>2, <2>1
  <2>3. IsSum(table(U), f, U)
    BY <2>2
  <2> QED BY <2>1, <2>3, FS_Subset
<1>3. ASSUME NEW s \in SUBSET T, s # {}
      PROVE  h[s \ {Picked(s)}] = table(s \ {Picked(s)})[s \ {Picked(s)}]
  <2> DEFINE u == s \ {Picked(s)}
  <2>1. u \in SUBSET T /\ u # T
    BY <1>3, PickedIn
  <2>2. IsSum(table(u), f, u) /\ IsFiniteSet(u)
    BY <1>2, <2>1
  <2>3. CASE u = {}
    <3>1. h[u] = 0
      BY <2>1, <2>3
    <3>2. table(u)[u] = 0
      <4> HIDE DEF table, u
      <4> QED BY <2>2, <2>3 DEF IsSum
    <3> QED BY <3>1, <3>2
  <2>4. CASE u # {}
    <3> DEFINE v == u \ {Picked(u)}
    <3>1. v \in SUBSET u /\ v \in SUBSET T /\ v # T
      BY <2>1
    <3>2. IsSum(table(v), f, v)
      BY <1>2, <3>1
    <3>3. table(u)[v] = table(v)[v]
      <4> HIDE DEF table, u, v
      <4> QED BY <2>2, <3>1, <3>2, SumsAgree
    <3>4. table(u)[u] = f[Picked(u)] + table(u)[v]
      <4> HIDE DEF table, u
      <4> QED BY <2>2, <2>4 DEF IsSum
    <3>5. h[u] = f[Picked(u)] + table(v)[v]
      <4> HIDE DEF table, u
      <4> QED BY <2>1, <2>4
    <3> QED BY <3>3, <3>4, <3>5
  <2> QED BY <2>3, <2>4
<1>4. IsSum(h, f, T)
  <2>1. ASSUME NEW s \in SUBSET T
        PROVE  h[s] = IF s = {} THEN 0 ELSE f[Picked(s)] + h[s \ {Picked(s)}]
    <3> HIDE DEF table
    <3> QED BY <1>3
  <2>2. h = [s \in SUBSET T |-> IF s = {} THEN 0 ELSE f[Picked(s)] + h[s \ {Picked(s)}]]
    <3>1. h = [s \in SUBSET T |-> h[s]]
      OBVIOUS
    <3> HIDE DEF h
    <3> QED BY <2>1, <3>1
  <2> HIDE DEF h
  <2> QED BY <2>2 DEF IsSum
<1>5. T \notin Bad
  <2> HIDE DEF h
  <2> QED BY <1>4
<1> QED BY <1>1, <1>5

(* The two equations that a sum is computed by.                             *)
LEMMA SumEmpty == ASSUME NEW f PROVE SumFunctionOnSet(f, {}) = 0
<1>1. PICK g : IsSum(g, f, {})
  BY SumExists, FS_EmptySet
<1>2. IsSum(CHOOSE h : IsSum(h, f, {}), f, {})
  BY <1>1
<1>3. (CHOOSE h : IsSum(h, f, {}))[{}] = 0
  BY <1>2 DEF IsSum
<1> QED BY <1>3, SumTable

LEMMA SumPicked ==
    ASSUME NEW f, NEW S, IsFiniteSet(S), S # {}
    PROVE  SumFunctionOnSet(f, S)
             = f[Picked(S)] + SumFunctionOnSet(f, S \ {Picked(S)})
<1> DEFINE T == S \ {Picked(S)}
           g == CHOOSE g : IsSum(g, f, S)
           h == CHOOSE h : IsSum(h, f, T)
<1>1. T \in SUBSET S /\ IsFiniteSet(T)
  BY FS_Subset
<1>2. IsSum(g, f, S) /\ IsSum(h, f, T)
  <2>1. \E x : IsSum(x, f, S)
    BY SumExists
  <2>2. \E x : IsSum(x, f, T)
    <3> HIDE DEF T
    <3> QED BY <1>1, SumExists
  <2> HIDE DEF T
  <2> QED BY <2>1, <2>2
<1>3. g[T] = h[T]
  <2> HIDE DEF g, h, T
  <2> QED BY <1>1, <1>2, SumsAgree
<1>4. g[S] = f[Picked(S)] + g[T]
  <2> HIDE DEF g
  <2> QED BY <1>2 DEF IsSum
<1>5. SumFunctionOnSet(f, S) = g[S] /\ SumFunctionOnSet(f, T) = h[T]
  BY SumTable
<1> QED BY <1>3, <1>4, <1>5

(* A sum of integers is an integer, and any element may be taken out first. *)
LEMMA SumType ==
    ASSUME NEW f, NEW S, IsFiniteSet(S), \A x \in S : f[x] \in Int
    PROVE  SumFunctionOnSet(f, S) \in Int
<1> DEFINE Bad == {T \in SUBSET S : SumFunctionOnSet(f, T) \notin Int}
<1> SUFFICES ASSUME Bad # {} PROVE FALSE
  OBVIOUS
<1>1. PICK T \in Bad : \A U \in SUBSET T : U # T => U \notin Bad
  <2>1. Bad \in SUBSET SUBSET S
    OBVIOUS
  <2> HIDE DEF Bad
  <2> QED BY <2>1, LeastSet
<1>2. T # {}
  <2>1. SumFunctionOnSet(f, T) \notin Int
    BY <1>1
  <2> SUFFICES ASSUME T = {} PROVE FALSE
    OBVIOUS
  <2> QED BY <2>1, SumEmpty
<1>3. Picked(T) \in T /\ IsFiniteSet(T)
  BY <1>2, PickedIn, FS_Subset
<1>4. SumFunctionOnSet(f, T \ {Picked(T)}) \in Int
  BY <1>1, <1>3
<1>5. f[Picked(T)] \in Int
  BY <1>3
<1> QED BY <1>1, <1>2, <1>3, <1>4, <1>5, SumPicked

LEMMA SumTakeOut ==
    ASSUME NEW f, NEW S, IsFiniteSet(S), \A x \in S : f[x] \in Int, NEW y \in S
    PROVE  SumFunctionOnSet(f, S) = f[y] + SumFunctionOnSet(f, S \ {y})
<1> DEFINE Bad == {T \in SUBSET S : \E x \in T :
              SumFunctionOnSet(f, T) # f[x] + SumFunctionOnSet(f, T \ {x})}
<1> SUFFICES ASSUME Bad # {} PROVE FALSE
  OBVIOUS
<1>1. PICK T \in Bad : \A U \in SUBSET T : U # T => U \notin Bad
  <2>1. Bad \in SUBSET SUBSET S
    OBVIOUS
  <2> HIDE DEF Bad
  <2> QED BY <2>1, LeastSet
<1>2. PICK x \in T : SumFunctionOnSet(f, T) # f[x] + SumFunctionOnSet(f, T \ {x})
  BY <1>1
<1> DEFINE p == Picked(T)
           V == T \ {x, p}
<1>3. p \in T /\ IsFiniteSet(T) /\ IsFiniteSet(T \ {p}) /\ IsFiniteSet(T \ {x}) /\ IsFiniteSet(V)
  BY PickedIn, FS_Subset
<1>4. SumFunctionOnSet(f, T) = f[p] + SumFunctionOnSet(f, T \ {p})
  BY <1>3, SumPicked
<1>5. x # p
  BY <1>2, <1>4
<1>6. SumFunctionOnSet(f, T \ {p}) = f[x] + SumFunctionOnSet(f, V)
  <2>1. T \ {p} \in SUBSET T /\ T \ {p} # T /\ x \in T \ {p} /\ (T \ {p}) \ {x} = V
    BY <1>3, <1>5
  <2> HIDE DEF p, V
  <2>2. T \ {p} \notin Bad
    BY <1>1, <2>1
  <2>3. T \ {p} \in SUBSET S
    OBVIOUS
  <2> QED BY <2>1, <2>2, <2>3
<1>7. SumFunctionOnSet(f, T \ {x}) = f[p] + SumFunctionOnSet(f, V)
  <2>1. T \ {x} \in SUBSET T /\ T \ {x} # T /\ p \in T \ {x} /\ (T \ {x}) \ {p} = V
    BY <1>3, <1>5
  <2> HIDE DEF p, V
  <2>2. T \ {x} \notin Bad
    BY <1>1, <2>1
  <2>3. T \ {x} \in SUBSET S
    OBVIOUS
  <2> QED BY <2>1, <2>2, <2>3
<1>8. f[x] \in Int /\ f[p] \in Int /\ SumFunctionOnSet(f, V) \in Int
  BY <1>3, SumType
<1> HIDE DEF p, V
<1> QED BY <1>2, <1>4, <1>6, <1>7, <1>8

LEMMA SumAdd ==
    ASSUME NEW f, NEW S, IsFiniteSet(S), NEW y, y \notin S,
           \A x \in S \cup {y} : f[x] \in Int
    PROVE  SumFunctionOnSet(f, S \cup {y}) = f[y] + SumFunctionOnSet(f, S)
<1>1. IsFiniteSet(S \cup {y})
  BY FS_AddElement
<1>2. (S \cup {y}) \ {y} = S /\ y \in S \cup {y}
  OBVIOUS
<1>3. SumFunctionOnSet(f, S \cup {y})
        = f[y] + SumFunctionOnSet(f, (S \cup {y}) \ {y})
  BY <1>1, <1>2, SumTakeOut
<1> QED BY <1>2, <1>3

(* Sums over the same rows agree when the columns do.                       *)
LEMMA SumSame ==
    ASSUME NEW f, NEW g, NEW S, IsFiniteSet(S),
           \A x \in S : f[x] \in Int /\ f[x] = g[x]
    PROVE  SumFunctionOnSet(f, S) = SumFunctionOnSet(g, S)
<1> DEFINE G == {T \in SUBSET S : SumFunctionOnSet(f, T) = SumFunctionOnSet(g, T)}
<1>1. {} \in G
  BY SumEmpty
<1>2. ASSUME NEW T \in SUBSET S, NEW x \in S \ T, T \in G
      PROVE  T \cup {x} \in G
  <2>1. IsFiniteSet(T) /\ T \cup {x} \in SUBSET S
    BY FS_Subset
  <2>2. /\ SumFunctionOnSet(f, T \cup {x}) = f[x] + SumFunctionOnSet(f, T)
        /\ SumFunctionOnSet(g, T \cup {x}) = g[x] + SumFunctionOnSet(g, T)
    BY <2>1, SumAdd
  <2> QED BY <1>2, <2>1, <2>2
<1>3. S \in G
  <2> HIDE DEF G
  <2> QED BY <1>1, <1>2, SetInduction
<1> QED BY <1>3

(* The sum of two columns' sums is that of the columns added up.            *)
LEMMA SumPlus ==
    ASSUME NEW f, NEW g, NEW h, NEW S, IsFiniteSet(S),
           \A x \in S : f[x] \in Int /\ g[x] \in Int /\ h[x] = f[x] + g[x]
    PROVE  SumFunctionOnSet(h, S) = SumFunctionOnSet(f, S) + SumFunctionOnSet(g, S)
<1> DEFINE G == {T \in SUBSET S : SumFunctionOnSet(h, T)
                    = SumFunctionOnSet(f, T) + SumFunctionOnSet(g, T)}
<1>1. {} \in G
  BY SumEmpty
<1>2. ASSUME NEW T \in SUBSET S, NEW x \in S \ T, T \in G
      PROVE  T \cup {x} \in G
  <2>1. IsFiniteSet(T) /\ T \cup {x} \in SUBSET S
    BY FS_Subset
  <2>2. h[x] \in Int /\ \A y \in T : h[y] \in Int
    OBVIOUS
  <2>3. /\ SumFunctionOnSet(f, T \cup {x}) = f[x] + SumFunctionOnSet(f, T)
        /\ SumFunctionOnSet(g, T \cup {x}) = g[x] + SumFunctionOnSet(g, T)
        /\ SumFunctionOnSet(h, T \cup {x}) = h[x] + SumFunctionOnSet(h, T)
    BY <2>1, <2>2, SumAdd
  <2>4. /\ SumFunctionOnSet(f, T) \in Int /\ SumFunctionOnSet(g, T) \in Int
        /\ f[x] \in Int /\ g[x] \in Int /\ h[x] = f[x] + g[x]
    BY <2>1, SumType
  <2>5. SumFunctionOnSet(h, T) = SumFunctionOnSet(f, T) + SumFunctionOnSet(g, T)
    BY <1>2
  <2> QED BY <2>1, <2>3, <2>4, <2>5
<1>3. S \in G
  <2> HIDE DEF G
  <2> QED BY <1>1, <1>2, SetInduction
<1> QED BY <1>3

LEMMA SumOfZeros ==
    ASSUME NEW f, NEW S, IsFiniteSet(S), \A x \in S : f[x] = 0
    PROVE  SumFunctionOnSet(f, S) = 0
<1> DEFINE G == {T \in SUBSET S : SumFunctionOnSet(f, T) = 0}
<1>1. {} \in G
  BY SumEmpty
<1>2. ASSUME NEW T \in SUBSET S, NEW x \in S \ T, T \in G
      PROVE  T \cup {x} \in G
  <2>1. IsFiniteSet(T) /\ T \cup {x} \in SUBSET S
    BY FS_Subset
  <2>2. SumFunctionOnSet(f, T \cup {x}) = f[x] + SumFunctionOnSet(f, T)
    BY <2>1, SumAdd
  <2> QED BY <1>2, <2>1, <2>2
<1>3. S \in G
  <2> HIDE DEF G
  <2> QED BY <1>1, <1>2, SetInduction
<1> QED BY <1>3

LEMMA SumUnion ==
    ASSUME NEW f, NEW S, NEW T, IsFiniteSet(S), IsFiniteSet(T), S \cap T = {},
           \A x \in S \cup T : f[x] \in Int
    PROVE  SumFunctionOnSet(f, S \cup T)
             = SumFunctionOnSet(f, S) + SumFunctionOnSet(f, T)
<1> DEFINE G == {U \in SUBSET T : SumFunctionOnSet(f, S \cup U)
                    = SumFunctionOnSet(f, S) + SumFunctionOnSet(f, U)}
<1>1. {} \in G
  <2>1. SumFunctionOnSet(f, S) \in Int /\ S \cup {} = S
    BY SumType
  <2> QED BY <2>1, SumEmpty
<1>2. ASSUME NEW U \in SUBSET T, NEW x \in T \ U, U \in G
      PROVE  U \cup {x} \in G
  <2>1. /\ IsFiniteSet(U) /\ U \cup {x} \in SUBSET T
        /\ x \notin S \cup U /\ S \cup (U \cup {x}) = (S \cup U) \cup {x}
    BY FS_Subset
  <2>2. IsFiniteSet(S \cup U)
    BY <2>1, FS_Union
  <2>3. SumFunctionOnSet(f, U \cup {x}) = f[x] + SumFunctionOnSet(f, U)
    BY <2>1, SumAdd
  <2>4. SumFunctionOnSet(f, (S \cup U) \cup {x}) = f[x] + SumFunctionOnSet(f, S \cup U)
    BY <2>1, <2>2, SumAdd
  <2>5. /\ SumFunctionOnSet(f, S) \in Int /\ SumFunctionOnSet(f, U) \in Int
        /\ f[x] \in Int
    BY <2>1, SumType
  <2>6. SumFunctionOnSet(f, S \cup U) = SumFunctionOnSet(f, S) + SumFunctionOnSet(f, U)
    BY <1>2
  <2>7. SumFunctionOnSet(f, (S \cup U) \cup {x})
          = SumFunctionOnSet(f, S) + SumFunctionOnSet(f, U \cup {x})
    BY <2>3, <2>4, <2>5, <2>6
  <2> QED BY <2>1, <2>7
<1>3. SUBSET T \subseteq G
  <2> HIDE DEF G
  <2> QED BY <1>1, <1>2, SetInduction
<1> QED BY <1>3

(* Rows whose entry is zero add nothing.                                    *)
LEMMA SumNonZero ==
    ASSUME NEW f, NEW S, IsFiniteSet(S), NEW T \in SUBSET S,
           \A x \in S : f[x] \in Int, \A x \in S \ T : f[x] = 0
    PROVE  SumFunctionOnSet(f, S) = SumFunctionOnSet(f, T)
<1>1. IsFiniteSet(T) /\ IsFiniteSet(S \ T)
  BY FS_Subset
<1>2. S = T \cup (S \ T) /\ T \cap (S \ T) = {}
  OBVIOUS
<1>3. SumFunctionOnSet(f, T \cup (S \ T))
        = SumFunctionOnSet(f, T) + SumFunctionOnSet(f, S \ T)
  BY <1>1, SumUnion
<1>4. SumFunctionOnSet(f, S \ T) = 0
  BY <1>1, SumOfZeros
<1>5. SumFunctionOnSet(f, T) \in Int
  BY <1>1, SumType
<1>6. SumFunctionOnSet(f, T \cup (S \ T)) = SumFunctionOnSet(f, T)
  BY <1>3, <1>4, <1>5
<1> QED BY <1>2, <1>6

(* A sum does not depend on what its rows are called.                       *)
LEMMA SumRenamed ==
    ASSUME NEW S, IsFiniteSet(S), NEW T, NEW b \in Bijection(S, T), NEW f, NEW g,
           \A x \in S : f[x] \in Int /\ g[b[x]] = f[x]
    PROVE  SumFunctionOnSet(g, T) = SumFunctionOnSet(f, S)
<1> DEFINE Image(U) == {b[x] : x \in U}
           G == {U \in SUBSET S : SumFunctionOnSet(g, Image(U)) = SumFunctionOnSet(f, U)}
<1>0. /\ b \in [S -> T] /\ \A x, y \in S : b[x] = b[y] => x = y
      /\ \A t \in T : \E x \in S : b[x] = t
  BY DEF Bijection, Injection, Surjection, IsInjective
<1>1. {} \in G
  <2>1. Image({}) = {}
    OBVIOUS
  <2> QED BY <2>1, SumEmpty
<1>2. ASSUME NEW U \in SUBSET S, NEW x \in S \ U, U \in G
      PROVE  U \cup {x} \in G
  <2>1. /\ IsFiniteSet(U) /\ U \cup {x} \in SUBSET S
        /\ Image(U \cup {x}) = Image(U) \cup {b[x]}
    BY FS_Subset
  <2>2. b[x] \notin Image(U)
    BY <1>0
  <2>3. IsFiniteSet(Image(U))
    <3>1. [y \in U |-> b[y]] \in Surjection(U, Image(U))
      BY DEF Surjection
    <3> QED BY <2>1, <3>1, FS_Surjection
  <2>4. SumFunctionOnSet(f, U \cup {x}) = f[x] + SumFunctionOnSet(f, U)
    BY <2>1, SumAdd
  <2>5. \A y \in Image(U) \cup {b[x]} : g[y] \in Int
    OBVIOUS
  <2>6. SumFunctionOnSet(g, Image(U) \cup {b[x]})
          = g[b[x]] + SumFunctionOnSet(g, Image(U))
    <3> HIDE DEF Image
    <3> QED BY <2>2, <2>3, <2>5, SumAdd
  <2>7. SumFunctionOnSet(g, Image(U)) = SumFunctionOnSet(f, U) /\ g[b[x]] = f[x]
    BY <1>2
  <2> HIDE DEF Image
  <2> QED BY <2>1, <2>4, <2>6, <2>7
<1>3. S \in G
  <2> HIDE DEF G
  <2> QED BY <1>1, <1>2, SetInduction
<1>4. Image(S) = T
  BY <1>0
<1> QED BY <1>3, <1>4

(* A count is a sum of ones.                                                *)
LEMMA SumOfOnes ==
    ASSUME NEW f, NEW S, IsFiniteSet(S), \A x \in S : f[x] = 1
    PROVE  SumFunctionOnSet(f, S) = Cardinality(S)
<1> DEFINE G == {T \in SUBSET S : SumFunctionOnSet(f, T) = Cardinality(T)}
<1>1. {} \in G
  BY SumEmpty, FS_EmptySet
<1>2. ASSUME NEW T \in SUBSET S, NEW x \in S \ T, T \in G
      PROVE  T \cup {x} \in G
  <2>1. IsFiniteSet(T) /\ T \cup {x} \in SUBSET S
    BY FS_Subset
  <2>2. SumFunctionOnSet(f, T \cup {x}) = f[x] + SumFunctionOnSet(f, T)
    BY <2>1, SumAdd
  <2>3. Cardinality(T \cup {x}) = Cardinality(T) + 1 /\ Cardinality(T) \in Nat
    BY <2>1, FS_AddElement, FS_CardinalityType
  <2> QED BY <1>2, <2>1, <2>2, <2>3
<1>3. S \in G
  <2> HIDE DEF G
  <2> QED BY <1>1, <1>2, SetInduction
<1> QED BY <1>3

(* Summing up group by group is summing up everything: `group by` neither   *)
(* loses a row nor counts one twice.                                        *)
LEMMA SumByGroups ==
    ASSUME NEW S, IsFiniteSet(S), NEW K, IsFiniteSet(K), NEW key \in [S -> K],
           NEW f, \A x \in S : f[x] \in Int,
           NEW total, \A k \in K : total[k] = SumFunctionOnSet(f, {x \in S : key[x] = k})
    PROVE  SumFunctionOnSet(total, K) = SumFunctionOnSet(f, S)
<1> DEFINE In(k) == {x \in S : key[x] = k}
           All(L) == {x \in S : key[x] \in L}
           G == {L \in SUBSET K : SumFunctionOnSet(total, L) = SumFunctionOnSet(f, All(L))}
<1>0. \A k \in K : total[k] \in Int /\ IsFiniteSet(In(k))
  <2> SUFFICES ASSUME NEW k \in K PROVE total[k] \in Int /\ IsFiniteSet(In(k))
    OBVIOUS
  <2>1. In(k) \in SUBSET S /\ IsFiniteSet(In(k))
    BY FS_Subset
  <2>2. \A x \in In(k) : f[x] \in Int
    OBVIOUS
  <2>3. total[k] = SumFunctionOnSet(f, In(k))
    OBVIOUS
  <2> HIDE DEF In
  <2> QED BY <2>1, <2>2, <2>3, SumType
<1>1. {} \in G
  <2>1. All({}) = {}
    OBVIOUS
  <2> QED BY <2>1, SumEmpty
<1>2. ASSUME NEW L \in SUBSET K, NEW k \in K \ L, L \in G
      PROVE  L \cup {k} \in G
  <2>1. /\ IsFiniteSet(L) /\ L \cup {k} \in SUBSET K
        /\ IsFiniteSet(All(L)) /\ IsFiniteSet(In(k))
        /\ All(L \cup {k}) = All(L) \cup In(k) /\ All(L) \cap In(k) = {}
    BY FS_Subset
  <2>2. \A x \in All(L) \cup In(k) : f[x] \in Int
    OBVIOUS
  <2>3. SumFunctionOnSet(total, L \cup {k}) = total[k] + SumFunctionOnSet(total, L)
    BY <1>0, <2>1, SumAdd
  <2>4. total[k] = SumFunctionOnSet(f, In(k)) /\ total[k] \in Int
    BY <1>0
  <2>5. SumFunctionOnSet(total, L) = SumFunctionOnSet(f, All(L))
    BY <1>2
  <2>6. SumFunctionOnSet(total, L) \in Int
    BY <1>0, <2>1, SumType
  <2>7. SumFunctionOnSet(f, All(L) \cup In(k))
          = SumFunctionOnSet(f, All(L)) + SumFunctionOnSet(f, In(k))
    <3> HIDE DEF All, In
    <3> QED BY <2>1, <2>2, SumUnion
  <2>8. SumFunctionOnSet(total, L \cup {k}) = SumFunctionOnSet(f, All(L \cup {k}))
    <3> HIDE DEF All, In
    <3>1. SumFunctionOnSet(f, All(L \cup {k})) = SumFunctionOnSet(f, All(L) \cup In(k))
      BY <2>1
    <3>2. SumFunctionOnSet(total, L \cup {k})
            = SumFunctionOnSet(f, In(k)) + SumFunctionOnSet(f, All(L))
      BY <2>3, <2>4, <2>5
    <3>3. SumFunctionOnSet(f, In(k)) \in Int /\ SumFunctionOnSet(f, All(L)) \in Int
      BY <2>4, <2>5, <2>6
    <3> QED BY <3>1, <3>2, <3>3, <2>7
  <2> HIDE DEF All, In
  <2> QED BY <2>1, <2>8
<1>3. K \in G
  <2> HIDE DEF G
  <2> QED BY <1>1, <1>2, SetInduction
<1>4. All(K) = S
  OBVIOUS
<1> QED BY <1>3, <1>4

-----------------------------------------------------------------------------
(* Row numbers *)

\* up[x] holds the rows of S up to x and with it: the frame of a row_number.
IsOrder(up, S) ==
    /\ up \in [S -> SUBSET S]
    /\ \A x \in S : x \in up[x]
    /\ \A x, y \in S : x \in up[y] \/ y \in up[x]
    /\ \A x, y \in S : x \in up[y] /\ y \in up[x] => x = y
    /\ \A x, y, z \in S : x \in up[y] /\ y \in up[z] => x \in up[z]

PlaceIn(up, S) == [x \in S |-> Cardinality(up[x])]

(* A proper part of a finite set is smaller.                                *)
LEMMA ProperPart ==
    ASSUME NEW S, IsFiniteSet(S), NEW T \in SUBSET S
    PROVE  /\ IsFiniteSet(T)
           /\ Cardinality(T) \in Nat /\ Cardinality(S) \in Nat
           /\ Cardinality(T) <= Cardinality(S)
           /\ T # S => Cardinality(T) < Cardinality(S)
<1>1. IsFiniteSet(T) /\ Cardinality(T) <= Cardinality(S)
  BY FS_Subset
<1>2. Cardinality(T) \in Nat /\ Cardinality(S) \in Nat
  BY <1>1, FS_CardinalityType
<1>3. Cardinality(S) = Cardinality(T) => S = T
  BY FS_Subset
<1> QED BY <1>1, <1>2, <1>3

(* Numbering the rows of a total order gives each number from 1 to their    *)
(* count to one row, in that order.                                         *)
LEMMA RowNumbers ==
    ASSUME NEW S, IsFiniteSet(S), NEW up, IsOrder(up, S)
    PROVE  /\ PlaceIn(up, S) \in Bijection(S, 1 .. Cardinality(S))
           /\ \A x, y \in S : x \in up[y] <=> PlaceIn(up, S)[x] <= PlaceIn(up, S)[y]
<1> DEFINE rn == PlaceIn(up, S)
           N == 1 .. Cardinality(S)
<1>1. ASSUME NEW x \in S
      PROVE  /\ IsFiniteSet(up[x]) /\ rn[x] \in N /\ rn[x] \in Nat
             /\ rn[x] = Cardinality(up[x])
  <2>1. up[x] \in SUBSET S /\ x \in up[x]
    BY DEF IsOrder
  <2>2. /\ IsFiniteSet(up[x]) /\ Cardinality(up[x]) \in Nat /\ Cardinality(S) \in Nat
        /\ Cardinality(up[x]) <= Cardinality(S)
    BY <2>1, ProperPart
  <2>3. Cardinality(up[x]) # 0
    BY <2>1, <2>2, FS_EmptySet
  <2> QED BY <2>2, <2>3 DEF PlaceIn
<1>2. ASSUME NEW x \in S, NEW y \in S, x \in up[y] PROVE rn[x] <= rn[y]
  <2>1. up[x] \in SUBSET up[y]
    BY <1>2 DEF IsOrder
  <2> QED BY <1>1, <2>1, ProperPart
<1>3. ASSUME NEW x \in S, NEW y \in S, x \notin up[y] PROVE rn[y] < rn[x]
  <2>1. y \in up[x] /\ x \in up[x] /\ up[y] # up[x]
    BY <1>3 DEF IsOrder
  <2>2. up[y] \in SUBSET up[x]
    BY <2>1 DEF IsOrder
  <2> QED BY <1>1, <2>1, <2>2, ProperPart
<1>4. ASSUME NEW x \in S, NEW y \in S PROVE x \in up[y] <=> rn[x] <= rn[y]
  <2> HIDE DEF rn
  <2> QED BY <1>1, <1>2, <1>3
<1>5. rn \in Injection(S, N)
  <2>1. rn \in [S -> N]
    <3> HIDE DEF N
    <3> QED BY <1>1 DEF PlaceIn
  <2>2. ASSUME NEW x \in S, NEW y \in S, rn[x] = rn[y] PROVE x = y
    <3>1. rn[x] <= rn[y] /\ rn[y] <= rn[x]
      <4> HIDE DEF rn
      <4> QED BY <1>1, <2>2
    <3>2. x \in up[y] /\ y \in up[x]
      <4> HIDE DEF rn
      <4> QED BY <1>4, <3>1
    <3> QED BY <3>2 DEF IsOrder
  <2> HIDE DEF rn
  <2> QED BY <2>1, <2>2 DEF Injection, IsInjective
<1>6. IsFiniteSet(N) /\ Cardinality(N) = Cardinality(S)
  <2>1. Cardinality(S) \in Nat
    BY FS_CardinalityType
  <2> QED BY <2>1, FS_Interval
<1>7. rn \in Surjection(S, N)
  <2> HIDE DEF rn, N
  <2> QED BY <1>5, <1>6, FS_Injection
<1>8. rn \in Bijection(S, N)
  <2> HIDE DEF rn, N
  <2> QED BY <1>5, <1>7 DEF Bijection
<1> QED BY <1>4, <1>8

(* Two finite sets with a bijection between them have as many elements.     *)
LEMMA SameCount ==
    ASSUME NEW S, NEW T, IsFiniteSet(S), NEW b \in Bijection(S, T)
    PROVE  IsFiniteSet(T) /\ Cardinality(T) = Cardinality(S)
BY FS_Bijection DEF ExistsBijection

(* ... and so have parts of them that the bijection maps to each other.     *)
LEMMA PartBijection ==
    ASSUME NEW S, NEW T, NEW b \in Bijection(S, T),
           NEW A \in SUBSET S, NEW B \in SUBSET T, \A x \in S : x \in A <=> b[x] \in B
    PROVE  [x \in A |-> b[x]] \in Bijection(A, B)
<1> DEFINE f == [x \in A |-> b[x]]
<1>1. /\ b \in [S -> T] /\ \A x, y \in S : b[x] = b[y] => x = y
      /\ \A t \in T : \E x \in S : b[x] = t
  BY DEF Bijection, Injection, Surjection, IsInjective
<1>2. f \in [A -> B] /\ \A x, y \in A : f[x] = f[y] => x = y
  BY <1>1
<1>3. \A t \in B : \E x \in A : f[x] = t
  BY <1>1
<1> HIDE DEF f
<1> QED BY <1>2, <1>3 DEF Bijection, Injection, Surjection, IsInjective

LEMMA PartCount ==
    ASSUME NEW S, IsFiniteSet(S), NEW T, NEW b \in Bijection(S, T),
           NEW A \in SUBSET S, NEW B \in SUBSET T, \A x \in S : x \in A <=> b[x] \in B
    PROVE  Cardinality(A) = Cardinality(B)
<1>1. [x \in A |-> b[x]] \in Bijection(A, B)
  BY PartBijection
<1>2. IsFiniteSet(A)
  BY FS_Subset
<1> QED BY <1>1, <1>2, SameCount

(* Counting two parts that have nothing in common.                          *)
LEMMA DisjointCount ==
    ASSUME NEW S, IsFiniteSet(S), NEW T, IsFiniteSet(T), S \cap T = {}
    PROVE  /\ IsFiniteSet(S \cup T)
           /\ Cardinality(S \cup T) = Cardinality(S) + Cardinality(T)
<1>1. /\ IsFiniteSet(S \cup T)
      /\ Cardinality(S \cup T) = Cardinality(S) + Cardinality(T) - Cardinality({})
  BY FS_Union
<1>2. Cardinality({}) = 0
  BY FS_EmptySet
<1>3. Cardinality(S) \in Nat /\ Cardinality(T) \in Nat
  BY FS_CardinalityType
<1> QED BY <1>1, <1>2, <1>3

(* `sum(case when .. then 1 else 0 end)` counts.                            *)
LEMMA CountAsSum ==
    ASSUME NEW S, IsFiniteSet(S), NEW A \in SUBSET S, NEW f,
           \A x \in S : f[x] = IF x \in A THEN 1 ELSE 0
    PROVE  SumFunctionOnSet(f, S) = Cardinality(A)
<1>1. SumFunctionOnSet(f, S) = SumFunctionOnSet(f, A)
  BY SumNonZero
<1>2. IsFiniteSet(A) /\ \A x \in A : f[x] = 1
  BY FS_Subset
<1> QED BY <1>1, <1>2, SumOfOnes

=============================================================================
