---------------------------- MODULE BooksProofs -----------------------------
(***************************************************************************)
(* Theorems about the tables that the voucher functions and the account    *)
(* opening keep in step: the ledger and its daily summary (DailySummary),  *)
(* then the bill allocations (BillAllocation), for any vouchers, accounts, *)
(* dates, amounts and ids, and any number of lines and items.  The two     *)
(* specifications are about separate variables.                            *)
(***************************************************************************)
EXTENDS DailySummary, BillAllocation, FiniteSetTheorems, TLAPS

-----------------------------------------------------------------------------
(* Induction without an operator as a parameter, and what a fold is.  The  *)
(* library's folds are recursive functions on the subsets of a finite set. *)

\* Induction on the natural numbers, for a set.
LEMMA NatSet ==
    ASSUME NEW Z, 0 \in Z, \A n \in Nat : n \in Z => n + 1 \in Z
    PROVE  Nat \subseteq Z
<1> DEFINE T == Nat \ Z
           R == OpToRel(<, Nat)
<1> SUFFICES ASSUME T # {} PROVE FALSE
    OBVIOUS
<1>1. IsWellFoundedOn(R, Nat)
    BY NatLessThanWellFounded
<1>2. \A x, y \in Nat : y < x => <<y, x>> \in R
    BY DEF OpToRel
<1> HIDE DEF R
<1>3. PICK x \in T : \A y \in T : ~(<<y, x>> \in R)
    BY <1>1, WFMin
<1>4. x \in Nat /\ x # 0 /\ x - 1 \in Nat
    BY <1>3
<1>5. <<x - 1, x>> \in R
    BY <1>2, <1>4
<1>6. x - 1 \notin T
    BY <1>3, <1>5
<1> QED  BY <1>3, <1>4, <1>6

\* Induction on the subsets of a finite set.
LEMMA SubsetInduction ==
    ASSUME NEW S, IsFiniteSet(S), NEW Z,
           \A s \in SUBSET S : (\A u \in SUBSET s : u # s => u \in Z) => s \in Z
    PROVE  SUBSET S \subseteq Z
<1> DEFINE T == (SUBSET S) \ Z
           R == StrictSubsetOrdering(S)
<1> SUFFICES ASSUME T # {} PROVE FALSE
    OBVIOUS
<1>1. IsWellFoundedOn(R, SUBSET S)
  <2>1. FiniteSubsetsOf(S) = SUBSET S
      BY FS_FiniteSubsetsOfFinite
  <2>2. IsWellFoundedOn(StrictSubsetOrdering(S), FiniteSubsetsOf(S))
      BY FS_StrictSubsetOrderingWellFounded
  <2> HIDE DEF T
  <2> QED  BY <2>1, <2>2
<1>2. \A x, y \in SUBSET S : y \subseteq x /\ y # x => <<y, x>> \in R
    BY DEF StrictSubsetOrdering
<1>3. \A x : x \in T <=> x \in SUBSET S /\ x \notin Z
    OBVIOUS
<1>4. T \subseteq SUBSET S
    OBVIOUS
<1> HIDE DEF R, T
<1>5. PICK x \in T : \A y \in T : ~(<<y, x>> \in R)
    BY <1>1, <1>4, WFMin
<1>6. x \in SUBSET S
    BY <1>4, <1>5
<1>7. ASSUME NEW u \in SUBSET x, u # x PROVE u \in Z
  <2>1. u \in SUBSET S /\ u \subseteq x
      BY <1>6
  <2>2. <<u, x>> \in R
      BY <1>2, <1>6, <1>7, <2>1
  <2> QED  BY <1>3, <1>5, <2>1, <2>2
<1> QED  BY <1>3, <1>5, <1>6, <1>7

\* The element of s that the fold over S takes next is one of them.
Picks(pick, S) == \A s \in SUBSET S : s # {} => pick[s] \in s

\* g is the fold of the step F over the subsets of S, pick[s] last.
IsFoldBy(g, S, pick, base, F) ==
    \A s \in SUBSET S : g[s] = IF s = {} THEN base ELSE F[<<pick[s], g[s \ {pick[s]}]>>]

\* A fold whose step F stays in T has a value.
LEMMA FoldExistsBy ==
    ASSUME NEW S, IsFiniteSet(S), NEW pick, Picks(pick, S),
           NEW T, NEW base \in T, NEW F \in [S \X T -> T]
    PROVE  \E g \in [SUBSET S -> T] : IsFoldBy(g, S, pick, base, F)
<1> DEFINE Upto(n) == {s \in SUBSET S : Cardinality(s) <= n}
           Folds(g, n) == \A s \in Upto(n) :
               g[s] = IF s = {} THEN base ELSE F[<<pick[s], g[s \ {pick[s]}]>>]
           Z == {n \in Nat : \E g \in [Upto(n) -> T] : Folds(g, n)}
<1>1. \A s \in SUBSET S : IsFiniteSet(s) /\ Cardinality(s) \in Nat /\ Cardinality(s) <= Cardinality(S)
    BY FS_Subset, FS_CardinalityType
<1>2. \A s \in SUBSET S : Cardinality(s) = 0 <=> s = {}
    BY <1>1, FS_EmptySet
<1>3. \A s \in SUBSET S : s # {} =>
          /\ pick[s] \in S /\ s \ {pick[s]} \in SUBSET S
          /\ Cardinality(s \ {pick[s]}) = Cardinality(s) - 1
    BY <1>1, FS_RemoveElement DEF Picks
<1>4. 0 \in Z
  <2> DEFINE g == [s \in Upto(0) |-> base]
  <2>1. \A s \in Upto(0) : s = {}
      BY <1>1, <1>2
  <2>2. g \in [Upto(0) -> T] /\ Folds(g, 0)
      BY <2>1
  <2> QED  BY <2>2
<1>5. ASSUME NEW n \in Nat, n \in Z PROVE n + 1 \in Z
  <2>1. PICK g \in [Upto(n) -> T] : Folds(g, n)
      BY <1>5
  <2> DEFINE h == [s \in Upto(n + 1) |->
                     IF s = {} THEN base ELSE F[<<pick[s], g[s \ {pick[s]}]>>]]
  <2>2. ASSUME NEW s \in Upto(n + 1), s # {}
        PROVE  pick[s] \in S /\ s \ {pick[s]} \in Upto(n)
    <3>1. s \in SUBSET S /\ Cardinality(s) <= n + 1 /\ Cardinality(s) \in Nat
        BY <1>1
    <3> QED  BY <1>3, <2>2, <3>1
  <2>3. h \in [Upto(n + 1) -> T]
    <3> SUFFICES ASSUME NEW s \in Upto(n + 1), s # {}
                 PROVE  F[<<pick[s], g[s \ {pick[s]}]>>] \in T
        OBVIOUS
    <3>1. g[s \ {pick[s]}] \in T /\ pick[s] \in S
        BY <2>1, <2>2
    <3> QED  BY <3>1
  <2>4. \A s \in Upto(n) : s \in Upto(n + 1)
      BY <1>1
  <2>5. \A s \in Upto(n) : h[s] = g[s]
      BY <2>1, <2>4
  <2>6. Folds(h, n + 1)
    <3> SUFFICES ASSUME NEW s \in Upto(n + 1)
                 PROVE  h[s] = IF s = {} THEN base ELSE F[<<pick[s], h[s \ {pick[s]}]>>]
        OBVIOUS
    <3>1. CASE s = {}
        BY <3>1
    <3>2. CASE s # {}
      <4>1. h[s] = F[<<pick[s], g[s \ {pick[s]}]>>]
          BY <3>2
      <4>2. h[s \ {pick[s]}] = g[s \ {pick[s]}]
          BY <2>2, <2>5, <3>2
      <4> HIDE DEF h
      <4> QED  BY <3>2, <4>1, <4>2
    <3> QED  BY <3>1, <3>2
  <2> HIDE DEF h, Upto, Folds
  <2>7. n + 1 \in Nat
      OBVIOUS
  <2> QED  BY <2>3, <2>6, <2>7
<1>6. Cardinality(S) \in Z
  <2> HIDE DEF Z
  <2>1. Nat \subseteq Z
      BY <1>4, <1>5, NatSet
  <2> QED  BY <2>1, FS_CardinalityType
<1>7. Upto(Cardinality(S)) = SUBSET S
    BY <1>1
<1> QED  BY <1>6, <1>7 DEF IsFoldBy

\* A property that a fold's step preserves holds of its value.
LEMMA FoldInductionBy ==
    ASSUME NEW S, IsFiniteSet(S), NEW pick, Picks(pick, S), NEW Z, {} \in Z,
           \A s \in SUBSET S : s # {} /\ s \ {pick[s]} \in Z => s \in Z
    PROVE  SUBSET S \subseteq Z
<1>1. ASSUME NEW s \in SUBSET S, \A u \in SUBSET s : u # s => u \in Z PROVE s \in Z
  <2>1. CASE s = {}
      BY <2>1
  <2>2. CASE s # {}
    <3>1. pick[s] \in s
        BY <2>2 DEF Picks
    <3>2. s \ {pick[s]} \in SUBSET s /\ s \ {pick[s]} # s
        BY <3>1
    <3> QED  BY <1>1, <2>2, <3>2
  <2> QED  BY <2>1, <2>2
<1> QED  BY <1>1, SubsetInduction

\* The folds over a set take any element.
Chosen(s) == CHOOSE x \in s : TRUE

\* It is one of them.
LEMMA ChosenIn == \A s : s # {} => Chosen(s) \in s
    BY DEF Chosen

\* g is the fold of the step F over the subsets of S.
IsFold(g, S, base, F) ==
    \A s \in SUBSET S : g[s] = IF s = {} THEN base ELSE F[<<Chosen(s), g[s \ {Chosen(s)}]>>]

\* FoldExistsBy for a fold over a set.
LEMMA FoldExists ==
    ASSUME NEW S, IsFiniteSet(S), NEW T, NEW base \in T, NEW F \in [S \X T -> T]
    PROVE  \E g \in [SUBSET S -> T] : IsFold(g, S, base, F)
<1> DEFINE pick == [s \in SUBSET S |-> Chosen(s)]
<1>1. \A s \in SUBSET S : pick[s] = Chosen(s)
    OBVIOUS
<1> HIDE DEF pick
<1>2. Picks(pick, S)
    BY <1>1, ChosenIn DEF Picks
<1>3. PICK g \in [SUBSET S -> T] : IsFoldBy(g, S, pick, base, F)
    BY <1>2, FoldExistsBy
<1>4. IsFold(g, S, base, F)
    BY <1>1, <1>3 DEF IsFold, IsFoldBy
<1> QED  BY <1>4

\* FoldInductionBy for a fold over a set.
LEMMA FoldInduction ==
    ASSUME NEW S, IsFiniteSet(S), NEW Z, {} \in Z,
           \A s \in SUBSET S : s # {} /\ s \ {Chosen(s)} \in Z => s \in Z
    PROVE  SUBSET S \subseteq Z
<1> DEFINE pick == [s \in SUBSET S |-> Chosen(s)]
<1>1. \A s \in SUBSET S : pick[s] = Chosen(s)
    OBVIOUS
<1> HIDE DEF pick
<1>2. Picks(pick, S)
    BY <1>1, ChosenIn DEF Picks
<1> QED  BY <1>1, <1>2, FoldInductionBy

-----------------------------------------------------------------------------
(* Sums. *)

\* The recursive function in SumFunction(a).
SumUpto(a, S) ==
    CHOOSE f : f = [s \in SUBSET S |->
                       IF s = {} THEN 0 ELSE a[Chosen(s)] + f[s \ {Chosen(s)}]]

\* It is what it says.
LEMMA SumUptoDef ==
    ASSUME NEW S, IsFiniteSet(S), NEW a \in [S -> Int]
    PROVE  /\ SumFunction(a) = SumUpto(a, S)[S]
           /\ \A s \in SUBSET S :
                  /\ SumUpto(a, S)[s] \in Int
                  /\ SumUpto(a, S)[s] =
                         IF s = {} THEN 0 ELSE a[Chosen(s)] + SumUpto(a, S)[s \ {Chosen(s)}]
<1> DEFINE f == SumUpto(a, S)
<1>1. SumFunction(a) = f[S]
  <2>1. DOMAIN a = S
      OBVIOUS
  <2>2. SumFunction(a) = SumFunctionOnSet(a, S)
      BY <2>1 DEF SumFunction
  <2>3. SumFunctionOnSet(a, S) = f[S]
      BY DEF SumFunctionOnSet, FoldFunctionOnSet, MapThenFoldSet, SumUpto, Chosen
  <2> QED  BY <2>2, <2>3
<1>2. f = [s \in SUBSET S |-> IF s = {} THEN 0 ELSE a[Chosen(s)] + f[s \ {Chosen(s)}]]
  <2> DEFINE F == [p \in S \X Int |-> a[p[1]] + p[2]]
  <2>1. F \in [S \X Int -> Int]
      OBVIOUS
  <2>2. \A x \in S, n \in Int : F[<<x, n>>] = a[x] + n
      OBVIOUS
  <2> HIDE DEF F
  <2>3. PICK g \in [SUBSET S -> Int] : IsFold(g, S, 0, F)
    <3> DEFINE base == 0
               T == Int
    <3>1. base \in T
        OBVIOUS
    <3>2. F \in [S \X T -> T]
        BY <2>1
    <3> HIDE DEF base, T
    <3>3. \E g \in [SUBSET S -> T] : IsFold(g, S, base, F)
        BY <3>1, <3>2, FoldExists
    <3> QED  BY <3>3 DEF base, T
  <2>4. ASSUME NEW s \in SUBSET S
        PROVE  g[s] = IF s = {} THEN 0 ELSE a[Chosen(s)] + g[s \ {Chosen(s)}]
    <3>1. s # {} => Chosen(s) \in S /\ g[s \ {Chosen(s)}] \in Int
        BY <2>3, ChosenIn
    <3> QED  BY <2>2, <2>3, <3>1 DEF IsFold
  <2>5. g = [s \in SUBSET S |-> IF s = {} THEN 0 ELSE a[Chosen(s)] + g[s \ {Chosen(s)}]]
      BY <2>3, <2>4
  <2> QED  BY <2>5 DEF SumUpto
<1> HIDE DEF f
<1>3. \A s \in SUBSET S : f[s] = IF s = {} THEN 0 ELSE a[Chosen(s)] + f[s \ {Chosen(s)}]
    BY <1>2
<1> DEFINE Z == {s \in SUBSET S : f[s] \in Int}
<1>4. {} \in Z
  <2>1. {} \in SUBSET S
      OBVIOUS
  <2>2. f[{}] = 0
      BY <1>3, <2>1
  <2>3. f[{}] \in Int
      BY <2>2
  <2> QED  BY <2>1, <2>3
<1>5. ASSUME NEW s \in SUBSET S, s # {}, s \ {Chosen(s)} \in Z PROVE s \in Z
  <2>1. Chosen(s) \in S
      BY <1>5, ChosenIn
  <2> QED  BY <1>3, <1>5, <2>1
<1>6. SUBSET S \subseteq Z
  <2> HIDE DEF Z
  <2> QED  BY <1>4, <1>5, FoldInduction
<1> QED  BY <1>1, <1>3, <1>6 DEF f

\* Any of the terms may be taken first.
LEMMA SumAny ==
    ASSUME NEW S, IsFiniteSet(S), NEW a \in [S -> Int]
    PROVE  \A s \in SUBSET S : \A x \in s : SumUpto(a, S)[s] = a[x] + SumUpto(a, S)[s \ {x}]
<1> DEFINE f == SumUpto(a, S)
           Z == {s \in SUBSET S : \A x \in s : f[s] = a[x] + f[s \ {x}]}
<1>1. \A s \in SUBSET S : f[s] \in Int /\ (s # {} => f[s] = a[Chosen(s)] + f[s \ {Chosen(s)}])
    BY SumUptoDef
<1> HIDE DEF f
<1>2. ASSUME NEW s \in SUBSET S, \A u \in SUBSET s : u # s => u \in Z PROVE s \in Z
  <2> SUFFICES ASSUME NEW x \in s PROVE f[s] = a[x] + f[s \ {x}]
      OBVIOUS
  <2> DEFINE y == Chosen(s)
  <2>1. y \in s /\ f[s] = a[y] + f[s \ {y}] /\ a[x] \in Int /\ a[y] \in Int
      BY <1>1, ChosenIn
  <2> HIDE DEF y
  <2>2. CASE x = y
      BY <2>1, <2>2
  <2>3. CASE x # y
    <3> DEFINE r == (s \ {y}) \ {x}
    <3>1. s \ {y} \in Z /\ s \ {x} \in Z /\ (s \ {x}) \ {y} = r /\ r \in SUBSET S
        BY <1>2, <2>1
    <3>2. f[s \ {y}] = a[x] + f[r]
        BY <2>1, <2>3, <3>1
    <3>3. f[s \ {x}] = a[y] + f[r]
        BY <2>1, <2>3, <3>1
    <3>4. f[r] \in Int
        BY <1>1, <3>1
    <3> HIDE DEF r
    <3> QED  BY <2>1, <3>2, <3>3, <3>4
  <2> QED  BY <2>2, <2>3
<1>3. SUBSET S \subseteq Z
  <2> HIDE DEF Z
  <2> QED  BY <1>2, SubsetInduction
<1> QED  BY <1>3 DEF f

\* The sum of a function, with one of its terms apart.
LEMMA SumRemove ==
    ASSUME NEW S, IsFiniteSet(S), NEW a \in [S -> Int], NEW x \in S
    PROVE  /\ SumFunction(a) \in Int /\ SumFunction([i \in S \ {x} |-> a[i]]) \in Int
           /\ SumFunction(a) = a[x] + SumFunction([i \in S \ {x} |-> a[i]])
<1> DEFINE T == S \ {x}
           b == [i \in T |-> a[i]]
           f == SumUpto(a, S)
           g == SumUpto(b, T)
           Z == {s \in SUBSET T : f[s] = g[s]}
<1>1. b \in [T -> Int] /\ IsFiniteSet(T)
    BY FS_RemoveElement
<1>2. /\ SumFunction(a) = f[S]
      /\ \A s \in SUBSET S : f[s] \in Int /\ f[s] = IF s = {} THEN 0 ELSE a[Chosen(s)] + f[s \ {Chosen(s)}]
    BY SumUptoDef
<1>3. /\ SumFunction(b) = g[T]
      /\ \A s \in SUBSET T : g[s] \in Int /\ g[s] = IF s = {} THEN 0 ELSE b[Chosen(s)] + g[s \ {Chosen(s)}]
  <2> HIDE DEF b, T
  <2> QED  BY <1>1, SumUptoDef
<1>4. f[S] = a[x] + f[T]
    BY SumAny
<1> HIDE DEF f, g
<1>5. {} \in Z
    BY <1>2, <1>3
<1>6. ASSUME NEW s \in SUBSET T, s # {}, s \ {Chosen(s)} \in Z PROVE s \in Z
  <2>1. Chosen(s) \in T /\ b[Chosen(s)] = a[Chosen(s)] /\ s \in SUBSET S
      BY <1>6, ChosenIn
  <2> QED  BY <1>2, <1>3, <1>6, <2>1
<1>7. f[T] = g[T]
  <2>1. SUBSET T \subseteq Z
    <3> HIDE DEF Z, T
    <3> QED  BY <1>1, <1>5, <1>6, FoldInduction
  <2> QED  BY <2>1
<1> QED  BY <1>2, <1>3, <1>4, <1>7

\* The sum of nothing.
LEMMA SumNothing == ASSUME NEW a \in [{} -> Int] PROVE SumFunction(a) = 0
    BY SumUptoDef, FS_EmptySet

-----------------------------------------------------------------------------
(* The tables, and what one row adds to a cell. *)

Txns == TableOf(TxnIds, Txn)
Sums == TableOf(Cells, Int)
Table == [txn : Txns, sum : Sums, red : Seq(Cells)]

\* What a row adds to a cell of the summary.
Share(r, cell) == IF ~r.is_memo /\ Cell(r) = cell THEN r.amount ELSE 0

\* What the summary says of a cell.
Val(s, cell) == IF cell \in DOMAIN s THEN s[cell] ELSE 0

\* A table is a function on some of its keys.
LEMMA TableDef ==
    \A keys, rows, t : t \in TableOf(keys, rows) <=>
        DOMAIN t \subseteq keys /\ t \in [DOMAIN t -> rows]
<1> SUFFICES ASSUME NEW keys, NEW rows, NEW t
             PROVE  t \in TableOf(keys, rows) <=>
                        DOMAIN t \subseteq keys /\ t \in [DOMAIN t -> rows]
    OBVIOUS
<1>1. ASSUME t \in TableOf(keys, rows)
      PROVE  DOMAIN t \subseteq keys /\ t \in [DOMAIN t -> rows]
  <2>1. PICK D \in SUBSET keys : t \in [D -> rows]
      BY <1>1 DEF TableOf
  <2>2. DOMAIN t = D
      BY <2>1
  <2> QED  BY <2>1, <2>2
<1>2. ASSUME DOMAIN t \subseteq keys, t \in [DOMAIN t -> rows]
      PROVE  t \in TableOf(keys, rows)
    BY <1>2 DEF TableOf
<1> QED  BY <1>1, <1>2

\* Writing a row and dropping rows leave a table.
LEMMA WithTable ==
    ASSUME NEW keys, NEW rows, NEW t \in TableOf(keys, rows), NEW k \in keys, NEW r \in rows
    PROVE  /\ With(t, k, r) \in TableOf(keys, rows)
           /\ DOMAIN With(t, k, r) = DOMAIN t \cup {k}
           /\ With(t, k, r)[k] = r
           /\ \A x \in DOMAIN t : x # k => With(t, k, r)[x] = t[x]
<1>1. DOMAIN t \subseteq keys /\ t \in [DOMAIN t -> rows]
    BY TableDef
<1>2. /\ DOMAIN With(t, k, r) = DOMAIN t \cup {k}
      /\ With(t, k, r)[k] = r
      /\ \A x \in DOMAIN t : x # k => With(t, k, r)[x] = t[x]
      /\ With(t, k, r) \in [DOMAIN t \cup {k} -> rows]
    BY <1>1 DEF With
<1>3. With(t, k, r) \in TableOf(keys, rows)
    BY <1>1, <1>2, TableDef
<1> QED  BY <1>2, <1>3

\* WithTable for the ledger.
LEMMA WithTxns ==
    ASSUME NEW txn \in Txns, NEW i \in TxnIds, NEW r \in Txn
    PROVE  /\ With(txn, i, r) \in Txns
           /\ DOMAIN With(txn, i, r) = DOMAIN txn \cup {i}
           /\ With(txn, i, r)[i] = r
           /\ \A x \in DOMAIN txn : x # i => With(txn, i, r)[x] = txn[x]
    BY WithTable DEF Txns

\* The same of a restriction.
LEMMA RestrictTable ==
    ASSUME NEW keys, NEW rows, NEW t \in TableOf(keys, rows), NEW D \in SUBSET DOMAIN t
    PROVE  /\ Restrict(t, D) \in TableOf(keys, rows)
           /\ DOMAIN Restrict(t, D) = D
           /\ \A x \in D : Restrict(t, D)[x] = t[x]
<1>1. DOMAIN t \subseteq keys /\ t \in [DOMAIN t -> rows]
    BY TableDef
<1>2. /\ DOMAIN Restrict(t, D) = D
      /\ \A x \in D : Restrict(t, D)[x] = t[x]
      /\ Restrict(t, D) \in [D -> rows]
    BY <1>1 DEF Restrict
<1>3. Restrict(t, D) \in TableOf(keys, rows)
    BY <1>1, <1>2, TableDef
<1> QED  BY <1>2, <1>3

\* A row's cell, its amount and its share.
LEMMA TxnFacts ==
    ASSUME NEW r \in Txn
    PROVE  /\ Cell(r) \in Cells /\ r.amount \in Int /\ r.is_memo \in BOOLEAN
           /\ \A cell : Share(r, cell) \in Int
<1>1. /\ r.date \in Dates \cup {OpeningDate} /\ r.account \in Accounts
      /\ r.amount \in Amounts /\ r.is_memo \in BOOLEAN
    BY DEF Txn
<1>2. r.amount \in Int
  <2>1. \A n \in Amounts : n \in Int
      BY DailySummaryAssumption
  <2> QED  BY <1>1, <2>1, Zenon
<1>3. Cell(r) \in Cells
    BY <1>1 DEF Cell, Cells
<1>4. \A cell : Share(r, cell) \in Int
    BY <1>2 DEF Share
<1> QED  BY <1>1, <1>2, <1>3, <1>4

\* A ledger's sum on a cell, with one of its rows apart.
LEMMA BookedApart ==
    ASSUME NEW txn \in Txns, NEW i \in DOMAIN txn, NEW cell
    PROVE  /\ BookedIn(txn, cell) \in Int
           /\ BookedIn(Restrict(txn, DOMAIN txn \ {i}), cell) \in Int
           /\ BookedIn(txn, cell) =
                  BookedIn(Restrict(txn, DOMAIN txn \ {i}), cell) + Share(txn[i], cell)
<1> DEFINE rest == Restrict(txn, DOMAIN txn \ {i})
           S == LinesOn(txn, cell)
           a == [x \in S |-> txn[x].amount]
<1>1. DOMAIN txn \subseteq TxnIds /\ \A x \in DOMAIN txn : txn[x] \in Txn
    BY TableDef DEF Txns
<1>2. DOMAIN rest = DOMAIN txn \ {i} /\ \A x \in DOMAIN rest : rest[x] = txn[x]
    BY DEF Restrict
<1>3. S \subseteq DOMAIN txn
    BY DEF LinesOn
<1>4. IsFiniteSet(S)
    BY <1>1, <1>3, FS_Subset, DailySummaryAssumption
<1>5. a \in [S -> Int]
    BY <1>1, <1>3, TxnFacts
<1>6. BookedIn(txn, cell) = SumFunction(a)
    BY DEF BookedIn
<1> HIDE DEF rest
<1>7. LinesOn(rest, cell) = S \ {i}
    BY <1>2 DEF LinesOn
<1>8. BookedIn(rest, cell) = SumFunction([x \in S \ {i} |-> a[x]])
  <2>1. [x \in LinesOn(rest, cell) |-> rest[x].amount] = [x \in S \ {i} |-> a[x]]
      BY <1>2, <1>3, <1>7
  <2> QED  BY <2>1 DEF BookedIn
<1>9. i \in S <=> ~txn[i].is_memo /\ Cell(txn[i]) = cell
    BY DEF LinesOn
<1>10. CASE i \in S
  <2>1. a[i] = Share(txn[i], cell)
      BY <1>9, <1>10 DEF Share
  <2> HIDE DEF a, S
  <2>2. /\ SumFunction(a) \in Int /\ SumFunction([x \in S \ {i} |-> a[x]]) \in Int
        /\ SumFunction(a) = a[i] + SumFunction([x \in S \ {i} |-> a[x]])
      BY <1>4, <1>5, <1>10, SumRemove
  <2>3. a[i] \in Int
      BY <1>5, <1>10
  <2> QED  BY <1>6, <1>8, <2>1, <2>2, <2>3 DEF rest
<1>11. CASE i \notin S
  <2>1. Share(txn[i], cell) = 0
      BY <1>9, <1>11 DEF Share
  <2>2. [x \in S \ {i} |-> a[x]] = a
      BY <1>11
  <2> HIDE DEF a, S
  <2>3. SumFunction(a) \in Int
    <3>1. SumFunction(a) = SumUpto(a, S)[S] /\ \A s \in SUBSET S : SumUpto(a, S)[s] \in Int
        BY <1>4, <1>5, SumUptoDef
    <3> QED  BY <3>1
  <2> QED  BY <1>6, <1>8, <2>1, <2>2, <2>3 DEF rest
<1> QED  BY <1>10, <1>11

\* An empty ledger has booked nothing.
LEMMA BookedNothing == ASSUME NEW cell PROVE BookedIn(<< >>, cell) = 0
<1>1. LinesOn(<< >>, cell) = {}
    BY DEF LinesOn
<1>2. [i \in LinesOn(<< >>, cell) |-> << >>[i].amount] \in [{} -> Int]
    BY <1>1
<1> QED  BY <1>2, SumNothing DEF BookedIn

\* The sum on a cell after an insert of a row.
LEMMA BookedInsert ==
    ASSUME NEW txn \in Txns, NEW i \in TxnIds, i \notin DOMAIN txn, NEW r \in Txn, NEW cell
    PROVE  /\ BookedIn(txn, cell) \in Int
           /\ BookedIn(With(txn, i, r), cell) = BookedIn(txn, cell) + Share(r, cell)
<1> DEFINE w == With(txn, i, r)
<1>1. /\ w \in Txns /\ DOMAIN w = DOMAIN txn \cup {i} /\ w[i] = r
      /\ \A x \in DOMAIN txn : x # i => w[x] = txn[x]
    BY WithTxns
<1> HIDE DEF w
<1>2. Restrict(w, DOMAIN w \ {i}) = txn
  <2>1. DOMAIN w \ {i} = DOMAIN txn
      BY <1>1
  <2>2. txn = [x \in DOMAIN txn |-> txn[x]]
      BY TableDef DEF Txns
  <2> QED  BY <1>1, <2>1, <2>2 DEF Restrict
<1> QED  BY <1>1, <1>2, BookedApart DEF w

\* The sum on a cell after an update of a row.
LEMMA BookedUpdate ==
    ASSUME NEW txn \in Txns, NEW i \in DOMAIN txn, NEW r \in Txn, NEW cell
    PROVE  /\ BookedIn(txn, cell) \in Int
           /\ BookedIn(With(txn, i, r), cell) =
                  BookedIn(txn, cell) - Share(txn[i], cell) + Share(r, cell)
<1> DEFINE w == With(txn, i, r)
<1>0. i \in TxnIds /\ txn[i] \in Txn
    BY TableDef DEF Txns
<1>1. /\ w \in Txns /\ DOMAIN w = DOMAIN txn \cup {i} /\ w[i] = r
      /\ \A x \in DOMAIN txn : x # i => w[x] = txn[x]
    BY <1>0, WithTxns
<1> HIDE DEF w
<1>2. Restrict(w, DOMAIN w \ {i}) = Restrict(txn, DOMAIN txn \ {i})
    BY <1>1 DEF Restrict
<1>3. /\ BookedIn(txn, cell) \in Int
      /\ BookedIn(Restrict(txn, DOMAIN txn \ {i}), cell) \in Int
      /\ BookedIn(txn, cell) = BookedIn(Restrict(txn, DOMAIN txn \ {i}), cell) + Share(txn[i], cell)
    BY BookedApart
<1>4. BookedIn(w, cell) = BookedIn(Restrict(txn, DOMAIN txn \ {i}), cell) + Share(r, cell)
    BY <1>1, <1>2, BookedApart
<1>5. Share(txn[i], cell) \in Int /\ Share(r, cell) \in Int
    BY <1>0, TxnFacts
<1> QED  BY <1>3, <1>4, <1>5 DEF w

-----------------------------------------------------------------------------
(* The triggers, one cell at a time. *)

\* u is s with the cell inserted as n or changed by d.
Upserted(u, s, cell, n, d) ==
    /\ u \in Sums
    /\ DOMAIN u = DOMAIN s \cup {cell}
    /\ Val(u, cell) = IF cell \in DOMAIN s THEN Val(s, cell) + d ELSE n
    /\ \A x : x # cell => Val(u, x) = Val(s, x)
    /\ \A x : Val(s, x) \in Int

\* The upsert writes its cell and no other.
LEMMA UpsertFacts ==
    ASSUME NEW s \in Sums, NEW cell \in Cells, NEW n \in Int, NEW d \in Int
    PROVE  Upserted(Upsert(s, cell, n, d), s, cell, n, d)
<1> DEFINE w == IF cell \in DOMAIN s THEN s[cell] + d ELSE n
           u == With(s, cell, w)
<1>1. DOMAIN s \subseteq Cells /\ \A x \in DOMAIN s : s[x] \in Int
    BY TableDef DEF Sums
<1>2. w \in Int
    BY <1>1
<1>3. Upsert(s, cell, n, d) = u
    BY DEF Upsert
<1>4. cell \in DOMAIN s => w = s[cell] + d
    OBVIOUS
<1>5. cell \notin DOMAIN s => w = n
    OBVIOUS
<1> HIDE DEF w
<1>6. /\ u \in Sums /\ DOMAIN u = DOMAIN s \cup {cell} /\ u[cell] = w
      /\ \A x \in DOMAIN s : x # cell => u[x] = s[x]
  <2>1. /\ DOMAIN u = DOMAIN s \cup {cell} /\ u[cell] = w
        /\ \A x \in DOMAIN s : x # cell => u[x] = s[x]
        /\ u = [x \in DOMAIN u |-> u[x]]
      BY DEF With
  <2> HIDE DEF u
  <2>2. \A x \in DOMAIN u : u[x] \in Int
      BY <1>1, <1>2, <2>1
  <2>3. u \in [DOMAIN u -> Int] /\ DOMAIN u \subseteq Cells
      BY <1>1, <2>1, <2>2
  <2>4. u \in Sums
      BY <2>3, TableDef DEF Sums
  <2> QED  BY <2>1, <2>4
<1> HIDE DEF u
<1>7. Val(u, cell) = IF cell \in DOMAIN s THEN Val(s, cell) + d ELSE n
    BY <1>4, <1>5, <1>6 DEF Val
<1>8. \A x : x # cell => Val(u, x) = Val(s, x)
    BY <1>6 DEF Val
<1>9. \A x : Val(s, x) \in Int
    BY <1>1 DEF Val
<1> QED  BY <1>3, <1>6, <1>7, <1>8, <1>9 DEF Upserted

\* A cell that is not there reads as nothing.
LEMMA ValAbsent == \A s, cell : cell \notin DOMAIN s => Val(s, cell) = 0
    BY DEF Val

\* The insert trigger adds the row's share to every cell.
LEMMA InsertTrigger ==
    ASSUME NEW s \in Sums, NEW r \in Txn
    PROVE  /\ tgf_insert_on_ac_txn(s, r) \in Sums
           /\ DOMAIN s \subseteq DOMAIN tgf_insert_on_ac_txn(s, r)
           /\ ~r.is_memo => Cell(r) \in DOMAIN tgf_insert_on_ac_txn(s, r)
           /\ \A cell : /\ Val(s, cell) \in Int
                        /\ Val(tgf_insert_on_ac_txn(s, r), cell) = Val(s, cell) + Share(r, cell)
<1>1. Cell(r) \in Cells /\ r.amount \in Int /\ r.is_memo \in BOOLEAN
    BY TxnFacts
<1> DEFINE u == Upsert(s, Cell(r), r.amount, r.amount)
           c == Cell(r)
           n == r.amount
           d == n
<1>2. /\ u \in Sums
      /\ DOMAIN u = DOMAIN s \cup {c}
      /\ Val(u, c) = IF c \in DOMAIN s THEN Val(s, c) + d ELSE n
      /\ \A x : x # c => Val(u, x) = Val(s, x)
      /\ \A x : Val(s, x) \in Int
  <2>1. c \in Cells /\ n \in Int /\ d \in Int /\ u = Upsert(s, c, n, d)
      BY <1>1
  <2> HIDE DEF c, n, u, d
  <2>2. Upserted(u, s, c, n, d)
      BY <2>1, UpsertFacts
  <2> QED  BY <2>2 DEF Upserted
<1>3. CASE r.is_memo
  <2>1. \A cell : Share(r, cell) = 0
      BY <1>3 DEF Share
  <2>2. tgf_insert_on_ac_txn(s, r) = s
      BY <1>3 DEF tgf_insert_on_ac_txn
  <2> QED  BY <1>2, <1>3, <2>1, <2>2
<1>4. CASE ~r.is_memo
  <2>1. \A cell : Share(r, cell) = IF cell = c THEN n ELSE 0
      BY <1>4 DEF Share
  <2>2. tgf_insert_on_ac_txn(s, r) = u
      BY <1>4 DEF tgf_insert_on_ac_txn
  <2>3. n \in Int /\ d = n
      BY <1>1
  <2> HIDE DEF c, n, u, d
  <2>4. Val(u, c) = Val(s, c) + n
      BY <1>2, <2>3, ValAbsent
  <2>5. \A cell : Val(u, cell) = Val(s, cell) + Share(r, cell)
      BY <1>2, <2>1, <2>3, <2>4
  <2>6. Cell(r) \in DOMAIN u
      BY <1>2 DEF c
  <2> QED  BY <1>2, <2>2, <2>5, <2>6
<1> QED  BY <1>3, <1>4

\* The delete trigger takes it away, when the cell is there.
LEMMA DeleteTrigger ==
    ASSUME NEW s \in Sums, NEW r \in Txn, ~r.is_memo => Cell(r) \in DOMAIN s
    PROVE  /\ tgf_delete_on_ac_txn(s, r) \in Sums
           /\ DOMAIN tgf_delete_on_ac_txn(s, r) = DOMAIN s
           /\ \A cell : /\ Val(s, cell) \in Int
                        /\ Val(tgf_delete_on_ac_txn(s, r), cell) = Val(s, cell) - Share(r, cell)
<1>1. Cell(r) \in Cells /\ r.amount \in Int /\ r.is_memo \in BOOLEAN
    BY TxnFacts
<1> DEFINE u == Upsert(s, Cell(r), r.amount, 0 - r.amount)
           c == Cell(r)
           n == r.amount
           d == 0 - n
<1>2. /\ u \in Sums
      /\ DOMAIN u = DOMAIN s \cup {c}
      /\ Val(u, c) = IF c \in DOMAIN s THEN Val(s, c) + d ELSE n
      /\ \A x : x # c => Val(u, x) = Val(s, x)
      /\ \A x : Val(s, x) \in Int
  <2>1. c \in Cells /\ n \in Int /\ d \in Int /\ u = Upsert(s, c, n, d)
      BY <1>1
  <2> HIDE DEF c, n, u, d
  <2>2. Upserted(u, s, c, n, d)
      BY <2>1, UpsertFacts
  <2> QED  BY <2>2 DEF Upserted
<1>3. CASE r.is_memo
  <2>1. \A cell : Share(r, cell) = 0
      BY <1>3 DEF Share
  <2>2. tgf_delete_on_ac_txn(s, r) = s
      BY <1>3 DEF tgf_delete_on_ac_txn
  <2> QED  BY <1>2, <1>3, <2>1, <2>2
<1>4. CASE ~r.is_memo
  <2>1. \A cell : Share(r, cell) = IF cell = c THEN n ELSE 0
      BY <1>4 DEF Share
  <2>2. tgf_delete_on_ac_txn(s, r) = u
      BY <1>4 DEF tgf_delete_on_ac_txn
  <2>3. n \in Int /\ d = 0 - n /\ c \in DOMAIN s
      BY <1>1, <1>4
  <2> HIDE DEF c, n, u, d
  <2>4. Val(u, c) = Val(s, c) - n
      BY <1>2, <2>3
  <2>5. \A cell : Val(u, cell) = Val(s, cell) - Share(r, cell)
      BY <1>2, <2>1, <2>3, <2>4
  <2>6. DOMAIN u = DOMAIN s
      BY <1>2, <2>3
  <2> QED  BY <1>2, <2>2, <2>5, <2>6
<1> QED  BY <1>3, <1>4

\* The update trigger moves the share of a row that keeps its account, but
\* takes the new amount from the old day.
LEMMA UpdateTrigger ==
    ASSUME NEW s \in Sums, NEW old \in Txn, NEW new \in Txn,
           new.account = old.account, new.is_memo = old.is_memo,
           ~old.is_memo => Cell(old) \in DOMAIN s
    PROVE  /\ tgf_update_on_ac_txn(s, old, new) \in Sums
           /\ DOMAIN s \subseteq DOMAIN tgf_update_on_ac_txn(s, old, new)
           /\ ~new.is_memo => Cell(new) \in DOMAIN tgf_update_on_ac_txn(s, old, new)
           /\ \A cell :
                 /\ Val(s, cell) \in Int
                 /\ (\/ old.is_memo \/ new.date = old.date
                     \/ new.amount = old.amount \/ cell # Cell(old)) =>
                    Val(tgf_update_on_ac_txn(s, old, new), cell) =
                        Val(s, cell) - Share(old, cell) + Share(new, cell)
<1> DEFINE c == Cell(new)
           n == new.amount
           b == Cell(old)
           m == old.amount
           p == n - m
           q == 0 - n
           v == Upsert(s, c, n, p)
           u == Upsert(s, c, n, n)
           w == Upsert(u, b, n, q)
<1>1. /\ c \in Cells /\ n \in Int /\ b \in Cells /\ m \in Int /\ p \in Int /\ q \in Int
      /\ p = n - m /\ q = 0 - n
    BY TxnFacts
<1>2. c = b <=> new.date = old.date
    BY DEF Cell
<1>3. b = <<old.date, new.account>>
    BY DEF Cell
<1>4. CASE old.is_memo
  <2>1. \A cell : Share(old, cell) = 0 /\ Share(new, cell) = 0
      BY <1>4 DEF Share
  <2>2. tgf_update_on_ac_txn(s, old, new) = s
      BY <1>4 DEF tgf_update_on_ac_txn
  <2>3. \A x : Val(s, x) \in Int
    <3> HIDE DEF c, n, b, m, p, q
    <3>1. Upserted(Upsert(s, c, n, n), s, c, n, n)
        BY <1>1, UpsertFacts
    <3> QED  BY <3>1 DEF Upserted
  <2> QED  BY <1>4, <2>1, <2>2, <2>3
<1>5. CASE ~old.is_memo /\ new.date = old.date
  <2>1. \A cell : /\ Share(old, cell) = IF cell = b THEN m ELSE 0
                  /\ Share(new, cell) = IF cell = c THEN n ELSE 0
      BY <1>5 DEF Share
  <2>2. tgf_update_on_ac_txn(s, old, new) = v
      BY <1>5 DEF tgf_update_on_ac_txn
  <2>3. c = b /\ c \in DOMAIN s
      BY <1>2, <1>5
  <2>4. c = Cell(new)
      OBVIOUS
  <2> HIDE DEF c, n, b, m, p, q
  <2>5. /\ v \in Sums
        /\ DOMAIN v = DOMAIN s \cup {c}
        /\ Val(v, c) = IF c \in DOMAIN s THEN Val(s, c) + p ELSE n
        /\ \A x : x # c => Val(v, x) = Val(s, x)
        /\ \A x : Val(s, x) \in Int
    <3>1. v = Upsert(s, c, n, p)
        OBVIOUS
    <3> HIDE DEF v
    <3>2. Upserted(v, s, c, n, p)
        BY <1>1, <3>1, UpsertFacts
    <3> QED  BY <3>2 DEF Upserted
  <2> HIDE DEF v
  <2>6. Val(v, c) = Val(s, c) - m + n
      BY <1>1, <2>3, <2>5
  <2>7. \A cell : Val(v, cell) = Val(s, cell) - Share(old, cell) + Share(new, cell)
      BY <1>1, <2>1, <2>3, <2>5, <2>6
  <2> QED  BY <2>2, <2>4, <2>5, <2>7
<1>6. CASE ~old.is_memo /\ new.date # old.date
  <2>1. \A cell : /\ Share(old, cell) = IF cell = b THEN m ELSE 0
                  /\ Share(new, cell) = IF cell = c THEN n ELSE 0
      BY <1>6 DEF Share
  <2>2. tgf_update_on_ac_txn(s, old, new) = w
      BY <1>3, <1>6 DEF tgf_update_on_ac_txn
  <2>3. c # b /\ b \in DOMAIN s
      BY <1>2, <1>6
  <2>4. c = Cell(new) /\ b = Cell(old) /\ n = new.amount /\ m = old.amount
      OBVIOUS
  <2> HIDE DEF c, n, b, m, p, q
  <2>5. /\ u \in Sums
        /\ DOMAIN u = DOMAIN s \cup {c}
        /\ Val(u, c) = IF c \in DOMAIN s THEN Val(s, c) + n ELSE n
        /\ \A x : x # c => Val(u, x) = Val(s, x)
        /\ \A x : Val(s, x) \in Int
    <3>1. Upserted(u, s, c, n, n)
        BY <1>1, UpsertFacts
    <3> HIDE DEF u
    <3> QED  BY <3>1 DEF Upserted
  <2>6. Val(u, c) = Val(s, c) + n
      BY <1>1, <2>5, ValAbsent
  <2> HIDE DEF u
  <2>7. /\ w \in Sums
        /\ DOMAIN w = DOMAIN u \cup {b}
        /\ Val(w, b) = IF b \in DOMAIN u THEN Val(u, b) + q ELSE n
        /\ \A x : x # b => Val(w, x) = Val(u, x)
    <3>1. w = Upsert(u, b, n, q)
        OBVIOUS
    <3> HIDE DEF w
    <3>2. Upserted(w, u, b, n, q)
        BY <1>1, <2>5, <3>1, UpsertFacts
    <3> QED  BY <3>2 DEF Upserted
  <2> HIDE DEF w
  <2>8. Val(w, c) = Val(s, c) + n /\ Val(w, b) = Val(s, b) - n
      BY <1>1, <2>3, <2>5, <2>6, <2>7
  <2>9. ASSUME NEW cell, cell # b \/ n = m
        PROVE  Val(w, cell) = Val(s, cell) - Share(old, cell) + Share(new, cell)
    <3>1. CASE cell = c
        BY <1>1, <2>1, <2>3, <2>5, <2>8, <3>1
    <3>2. CASE cell = b
        BY <1>1, <2>1, <2>3, <2>5, <2>8, <2>9, <3>2
    <3>3. CASE cell # c /\ cell # b
        BY <1>1, <2>1, <2>5, <2>7, <3>3
    <3> QED  BY <3>1, <3>2, <3>3
  <2> QED  BY <1>6, <2>2, <2>4, <2>5, <2>7, <2>9
<1>7. old.is_memo \in BOOLEAN
    BY TxnFacts
<1> QED  BY <1>4, <1>5, <1>6, <1>7

-----------------------------------------------------------------------------
(* The inductive invariant, of the tables a statement works on, and the    *)
(* statements on one row that keep it.                                     *)

HasCells(txn, sum) == \A i \in DOMAIN txn : ~txn[i].is_memo => Cell(txn[i]) \in DOMAIN sum
Matches(txn, sum, red) ==
    \A cell \in Cells \ Range(red) : BookedIn(txn, cell) = Val(sum, cell)
Agree(txn, sum, red) ==
    /\ txn \in Txns /\ sum \in Sums /\ red \in Seq(Cells)
    /\ HasCells(txn, sum)
    /\ Matches(txn, sum, red)

\* The rows of a ledger are rows.
LEMMA RowsAreRows ==
    ASSUME NEW txn \in Txns
    PROVE  DOMAIN txn \subseteq TxnIds /\ \A i \in DOMAIN txn : txn[i] \in Txn
    BY TableDef DEF Txns

\* An insert with its trigger.
LEMMA InsertAgrees ==
    ASSUME NEW txn, NEW sum, NEW red, Agree(txn, sum, red),
           NEW i \in TxnIds, i \notin DOMAIN txn, NEW r \in Txn
    PROVE  Agree(With(txn, i, r), tgf_insert_on_ac_txn(sum, r), red)
<1> DEFINE w == With(txn, i, r)
           u == tgf_insert_on_ac_txn(sum, r)
<1>0. /\ txn \in Txns /\ sum \in Sums /\ red \in Seq(Cells)
      /\ HasCells(txn, sum) /\ Matches(txn, sum, red)
    BY DEF Agree
<1>1. /\ w \in Txns /\ DOMAIN w = DOMAIN txn \cup {i} /\ w[i] = r
      /\ \A x \in DOMAIN txn : x # i => w[x] = txn[x]
    BY <1>0, WithTxns, ZenonT(30)
<1>2. /\ u \in Sums /\ DOMAIN sum \subseteq DOMAIN u
      /\ ~r.is_memo => Cell(r) \in DOMAIN u
      /\ \A cell : Val(u, cell) = Val(sum, cell) + Share(r, cell)
    BY <1>0, InsertTrigger
<1>3. \A cell : BookedIn(w, cell) = BookedIn(txn, cell) + Share(r, cell)
    BY <1>0, BookedInsert
<1> HIDE DEF w, u
<1>4. HasCells(w, u)
    BY <1>0, <1>1, <1>2 DEF HasCells
<1>5. Matches(w, u, red)
    BY <1>0, <1>2, <1>3 DEF Matches
<1> QED  BY <1>0, <1>1, <1>2, <1>4, <1>5 DEF Agree, w, u

\* A delete of one row with its trigger.
LEMMA DeleteAgrees ==
    ASSUME NEW txn, NEW sum, NEW red, Agree(txn, sum, red), NEW i \in DOMAIN txn
    PROVE  Agree(Restrict(txn, DOMAIN txn \ {i}), tgf_delete_on_ac_txn(sum, txn[i]), red)
<1> DEFINE w == Restrict(txn, DOMAIN txn \ {i})
           r == txn[i]
           u == tgf_delete_on_ac_txn(sum, r)
<1>0. /\ txn \in Txns /\ sum \in Sums /\ red \in Seq(Cells)
      /\ HasCells(txn, sum) /\ Matches(txn, sum, red)
    BY DEF Agree
<1>1. r \in Txn /\ (~r.is_memo => Cell(r) \in DOMAIN sum)
    BY <1>0, RowsAreRows DEF HasCells
<1>2. /\ w \in Txns /\ DOMAIN w = DOMAIN txn \ {i}
      /\ \A x \in DOMAIN w : w[x] = txn[x]
    BY <1>0, RestrictTable DEF Txns
<1>3. \A cell : /\ BookedIn(w, cell) \in Int
                /\ BookedIn(txn, cell) = BookedIn(w, cell) + Share(r, cell)
    BY <1>0, BookedApart
<1>4. \A cell : Share(r, cell) \in Int
    BY <1>1, TxnFacts
<1> HIDE DEF w, r
<1>5. /\ u \in Sums /\ DOMAIN u = DOMAIN sum
      /\ \A cell : Val(sum, cell) \in Int /\ Val(u, cell) = Val(sum, cell) - Share(r, cell)
    BY <1>0, <1>1, DeleteTrigger
<1> HIDE DEF u
<1>6. HasCells(w, u)
    BY <1>0, <1>2, <1>5 DEF HasCells
<1>7. Matches(w, u, red)
    BY <1>0, <1>3, <1>4, <1>5 DEF Matches
<1> QED  BY <1>0, <1>2, <1>5, <1>6, <1>7 DEF Agree, w, u, r

\* An update of one row with its trigger: the cell it may leave wrong is noted.
LEMMA UpdateAgrees ==
    ASSUME NEW txn, NEW sum, NEW red, Agree(txn, sum, red), NEW i \in DOMAIN txn,
           NEW new \in Txn, new.account = txn[i].account, new.is_memo = txn[i].is_memo,
           NEW red2 \in Seq(Cells), Range(red) \subseteq Range(red2),
           (~txn[i].is_memo /\ new.date # txn[i].date /\ new.amount # txn[i].amount)
               => Cell(txn[i]) \in Range(red2)
    PROVE  Agree(With(txn, i, new), tgf_update_on_ac_txn(sum, txn[i], new), red2)
<1> DEFINE w == With(txn, i, new)
           r == txn[i]
           u == tgf_update_on_ac_txn(sum, r, new)
<1>0. /\ txn \in Txns /\ sum \in Sums /\ red \in Seq(Cells)
      /\ HasCells(txn, sum) /\ Matches(txn, sum, red)
    BY DEF Agree
<1>1. r \in Txn /\ (~r.is_memo => Cell(r) \in DOMAIN sum) /\ i \in TxnIds
    BY <1>0, RowsAreRows DEF HasCells
<1>2. /\ w \in Txns /\ DOMAIN w = DOMAIN txn \cup {i} /\ w[i] = new
      /\ \A x \in DOMAIN txn : x # i => w[x] = txn[x]
    BY <1>0, <1>1, WithTxns
<1>3. \A cell : BookedIn(w, cell) = BookedIn(txn, cell) - Share(r, cell) + Share(new, cell)
    BY <1>0, BookedUpdate
<1>4. /\ new.account = r.account /\ new.is_memo = r.is_memo
      /\ ~r.is_memo /\ new.date # r.date /\ new.amount # r.amount => Cell(r) \in Range(red2)
    OBVIOUS
<1> HIDE DEF w, r
<1>5. /\ u \in Sums /\ DOMAIN sum \subseteq DOMAIN u
      /\ ~new.is_memo => Cell(new) \in DOMAIN u
      /\ \A cell : (\/ r.is_memo \/ new.date = r.date
                    \/ new.amount = r.amount \/ cell # Cell(r)) =>
                   Val(u, cell) = Val(sum, cell) - Share(r, cell) + Share(new, cell)
    BY <1>0, <1>1, <1>4, UpdateTrigger, SMTT(30)
<1> HIDE DEF u
<1>6. HasCells(w, u)
    BY <1>0, <1>2, <1>5 DEF HasCells
<1>7. Matches(w, u, red2)
  <2> SUFFICES ASSUME NEW cell \in Cells \ Range(red2) PROVE BookedIn(w, cell) = Val(u, cell)
      BY DEF Matches
  <2>1. BookedIn(txn, cell) = Val(sum, cell)
      BY <1>0 DEF Matches
  <2>2. Val(u, cell) = Val(sum, cell) - Share(r, cell) + Share(new, cell)
      BY <1>4, <1>5
  <2> QED  BY <1>3, <2>1, <2>2
<1> QED  BY <1>0, <1>2, <1>5, <1>6, <1>7 DEF Agree, w, u, r

-----------------------------------------------------------------------------
(* The statements on many rows: the folds. *)

Good(t) == t \in Table /\ Agree(t.txn, t.sum, t.red)

\* The delete trigger leaves a summary, whatever it finds.
LEMMA DeleteTriggerType ==
    ASSUME NEW s \in Sums, NEW r \in Txn PROVE tgf_delete_on_ac_txn(s, r) \in Sums
<1> DEFINE c == Cell(r)
           n == r.amount
           d == 0 - n
<1>1. c \in Cells /\ n \in Int /\ d \in Int
    BY TxnFacts
<1>2. tgf_delete_on_ac_txn(s, r) = s \/ tgf_delete_on_ac_txn(s, r) = Upsert(s, c, n, d)
    BY DEF tgf_delete_on_ac_txn
<1> HIDE DEF c, n, d
<1>3. Upserted(Upsert(s, c, n, d), s, c, n, d)
    BY <1>1, UpsertFacts
<1>4. Upsert(s, c, n, d) \in Sums
    BY <1>3 DEF Upserted
<1> QED  BY <1>2, <1>4

\* The deletes of a statement, each with its trigger.
LEMMA DeleteRowsGood ==
    ASSUME NEW t, Good(t), NEW ids \in SUBSET DOMAIN t.txn
    PROVE  /\ Good(DeleteRows(t, ids))
           /\ DeleteRows(t, ids).txn = Restrict(t.txn, DOMAIN t.txn \ ids)
           /\ DeleteRows(t, ids).red = t.red
<1> DEFINE txn == t.txn
           sum == t.sum
           f == CHOOSE f : f = [s \in SUBSET ids |->
                   IF s = {} THEN sum
                   ELSE tgf_delete_on_ac_txn(f[s \ {Chosen(s)}], txn[Chosen(s)])]
           rest(s) == Restrict(txn, DOMAIN txn \ s)
<1>1. /\ txn \in Txns /\ sum \in Sums /\ t.red \in Seq(Cells)
      /\ Agree(txn, sum, t.red)
      /\ t = [txn |-> txn, sum |-> sum, red |-> t.red]
    BY DEF Good, Table
<1>2. DOMAIN txn \subseteq TxnIds /\ \A i \in DOMAIN txn : txn[i] \in Txn
    BY <1>1, RowsAreRows
<1>3. IsFiniteSet(ids)
    BY <1>2, FS_Subset, DailySummaryAssumption
<1>4. DeleteRows(t, ids) = [txn |-> rest(ids), sum |-> f[ids], red |-> t.red]
    BY DEF DeleteRows, FoldSet, MapThenFoldSet, Chosen
<1> HIDE DEF txn, sum
<1>5. f = [s \in SUBSET ids |->
              IF s = {} THEN sum
              ELSE tgf_delete_on_ac_txn(f[s \ {Chosen(s)}], txn[Chosen(s)])]
  <2> DEFINE F == [p \in ids \X Sums |-> tgf_delete_on_ac_txn(p[2], txn[p[1]])]
  <2>1. \A i \in ids, u \in Sums : F[<<i, u>>] = tgf_delete_on_ac_txn(u, txn[i])
      OBVIOUS
  <2>2. F \in [ids \X Sums -> Sums]
    <3>1. \A p \in ids \X Sums : txn[p[1]] \in Txn /\ p[2] \in Sums
        BY <1>2 DEF txn
    <3> QED  BY <3>1, DeleteTriggerType
  <2> HIDE DEF F
  <2>3. PICK g \in [SUBSET ids -> Sums] : IsFold(g, ids, sum, F)
      BY <1>1, <1>3, <2>2, FoldExists
  <2>4. ASSUME NEW s \in SUBSET ids
        PROVE  g[s] = IF s = {} THEN sum
                      ELSE tgf_delete_on_ac_txn(g[s \ {Chosen(s)}], txn[Chosen(s)])
    <3>1. s # {} => Chosen(s) \in ids /\ g[s \ {Chosen(s)}] \in Sums
        BY <2>3, ChosenIn
    <3> QED  BY <2>1, <2>3, <3>1 DEF IsFold
  <2>5. g = [s \in SUBSET ids |->
                IF s = {} THEN sum
                ELSE tgf_delete_on_ac_txn(g[s \ {Chosen(s)}], txn[Chosen(s)])]
      BY <2>3, <2>4
  <2> QED  BY <2>5
<1> HIDE DEF f
<1> DEFINE Z == {s \in SUBSET ids : Agree(rest(s), f[s], t.red)}
<1>6. {} \in Z
  <2>1. {} \in SUBSET ids /\ f[{}] = sum
      BY <1>5
  <2>2. txn = [x \in DOMAIN txn |-> txn[x]]
      BY <1>1, TableDef DEF Txns
  <2>3. rest({}) = txn
      BY <2>2 DEF Restrict
  <2> HIDE DEF rest
  <2> QED  BY <1>1, <2>1, <2>3
<1>7. ASSUME NEW s \in SUBSET ids, s # {}, s \ {Chosen(s)} \in Z PROVE s \in Z
  <2> DEFINE x == Chosen(s)
             r == s \ {x}
  <2>1. x \in s /\ x \in ids /\ x \in DOMAIN txn
      BY <1>7, ChosenIn DEF txn
  <2>2. f[s] = tgf_delete_on_ac_txn(f[r], txn[x])
      BY <1>5, <1>7
  <2>3. Agree(rest(r), f[r], t.red)
      BY <1>7
  <2> HIDE DEF x
  <2>4. /\ DOMAIN rest(r) = DOMAIN txn \ r
        /\ x \in DOMAIN rest(r)
        /\ rest(r)[x] = txn[x]
        /\ rest(s) = Restrict(rest(r), DOMAIN rest(r) \ {x})
      BY <2>1 DEF Restrict
  <2> HIDE DEF r, rest
  <2>5. Agree(Restrict(rest(r), DOMAIN rest(r) \ {x}), tgf_delete_on_ac_txn(f[r], rest(r)[x]), t.red)
      BY <2>3, <2>4, DeleteAgrees
  <2> QED  BY <2>2, <2>4, <2>5
<1>8. Agree(rest(ids), f[ids], t.red)
  <2>1. SUBSET ids \subseteq Z
    <3> HIDE DEF Z
    <3> QED  BY <1>3, <1>6, <1>7, FoldInduction
  <2> QED  BY <2>1
<1>9. rest(ids) = Restrict(t.txn, DOMAIN t.txn \ ids)
    BY DEF txn
<1>10. rest(ids) \in Txns /\ f[ids] \in Sums
    BY <1>8 DEF Agree
<1> HIDE DEF rest
<1>11. /\ DeleteRows(t, ids) \in Table
       /\ DeleteRows(t, ids).txn = rest(ids)
       /\ DeleteRows(t, ids).sum = f[ids]
       /\ DeleteRows(t, ids).red = t.red
    BY <1>1, <1>4, <1>10 DEF Table
<1> QED  BY <1>8, <1>9, <1>11 DEF Good

\* An insert leaves tables, and good ones when the id is new.
LEMMA InsertRowGood ==
    ASSUME NEW t \in Table, NEW i \in TxnIds, NEW r \in Txn
    PROVE  /\ InsertRow(t, i, r) \in Table
           /\ DOMAIN InsertRow(t, i, r).txn = DOMAIN t.txn \cup {i}
           /\ Good(t) /\ i \notin DOMAIN t.txn => Good(InsertRow(t, i, r))
<1> DEFINE w == With(t.txn, i, r)
           u == tgf_insert_on_ac_txn(t.sum, r)
<1>1. t.txn \in Txns /\ t.sum \in Sums /\ t.red \in Seq(Cells)
    BY DEF Table
<1>2. w \in Txns /\ DOMAIN w = DOMAIN t.txn \cup {i}
    BY <1>1, WithTxns
<1>3. u \in Sums
    BY <1>1, InsertTrigger
<1>4. Good(t) /\ i \notin DOMAIN t.txn => Agree(w, u, t.red)
    BY InsertAgrees DEF Good
<1>5. InsertRow(t, i, r) = [txn |-> w, sum |-> u, red |-> t.red]
    BY DEF InsertRow
<1> HIDE DEF w, u
<1>6. InsertRow(t, i, r) \in Table
    BY <1>1, <1>2, <1>3, <1>5 DEF Table
<1>7. InsertRow(t, i, r).txn = w /\ InsertRow(t, i, r).sum = u /\ InsertRow(t, i, r).red = t.red
    BY <1>5
<1> QED  BY <1>2, <1>4, <1>6, <1>7 DEF Good

\* A sequence with one more element has the elements it had, and that one.
LEMMA AppendRange ==
    ASSUME NEW red \in Seq(Cells), NEW c \in Cells
    PROVE  /\ Append(red, c) \in Seq(Cells)
           /\ Range(red) \subseteq Range(Append(red, c))
           /\ c \in Range(Append(red, c))
<1> DEFINE b == Append(red, c)
<1>1. /\ b \in Seq(Cells) /\ DOMAIN b = 1 .. (Len(red) + 1) /\ DOMAIN red = 1 .. Len(red)
      /\ Len(red) \in Nat /\ b[Len(red) + 1] = c
      /\ \A k \in DOMAIN red : b[k] = red[k]
    OBVIOUS
<1> HIDE DEF b
<1>2. \A k \in DOMAIN red : k \in DOMAIN b
    BY <1>1
<1>3. Len(red) + 1 \in DOMAIN b
    BY <1>1
<1> QED  BY <1>1, <1>2, <1>3 DEF Range, b

\* An update of a row keeps the tables good.
LEMMA UpdateRowGood ==
    ASSUME NEW t, Good(t), NEW i \in DOMAIN t.txn,
           NEW date \in Dates \cup {OpeningDate}, NEW amount \in Amounts
    PROVE  /\ Good(UpdateRow(t, i, date, amount))
           /\ DOMAIN UpdateRow(t, i, date, amount).txn = DOMAIN t.txn
<1> DEFINE old == t.txn[i]
           new == [old EXCEPT !.date = date, !.amount = amount]
           left == ~old.is_memo /\ date # old.date /\ amount # old.amount
           red2 == IF left THEN Append(t.red, Cell(old)) ELSE t.red
           w == With(t.txn, i, new)
           u == tgf_update_on_ac_txn(t.sum, old, new)
<1>1. t.txn \in Txns /\ t.sum \in Sums /\ t.red \in Seq(Cells) /\ Agree(t.txn, t.sum, t.red)
    BY DEF Good, Table
<1>2. old \in Txn /\ i \in TxnIds
    BY <1>1, RowsAreRows
<1>3. UpdateRow(t, i, date, amount) = [txn |-> w, sum |-> u, red |-> red2]
    BY DEF UpdateRow
<1>4. /\ new \in Txn /\ new.account = old.account /\ new.is_memo = old.is_memo
      /\ new.date = date /\ new.amount = amount
  <2> HIDE DEF old
  <2> QED  BY <1>2 DEF Txn
<1>5. Cell(old) \in Cells
    BY <1>2, TxnFacts
<1>6. /\ red2 \in Seq(Cells) /\ Range(t.red) \subseteq Range(red2)
      /\ left => Cell(old) \in Range(red2)
  <2> HIDE DEF left, old
  <2> QED  BY <1>1, <1>5, AppendRange
<1>7. ~old.is_memo /\ new.date # old.date /\ new.amount # old.amount => left
    BY <1>4
<1> HIDE DEF new, red2, left
<1>8. Agree(w, u, red2)
    BY <1>1, <1>4, <1>6, <1>7, UpdateAgrees
<1>9. DOMAIN w = DOMAIN t.txn
    BY DEF With
<1>10. w \in Txns /\ u \in Sums
    BY <1>8 DEF Agree
<1> HIDE DEF w, u
<1> DEFINE v == UpdateRow(t, i, date, amount)
<1>11. v \in Table
    BY <1>3, <1>6, <1>10 DEF Table
<1>12. v.txn = w /\ v.sum = u /\ v.red = red2
    BY <1>3
<1> QED  BY <1>8, <1>9, <1>11, <1>12 DEF Good

\* The lines of an input make rows.
LEMMA LinesRows ==
    ASSUME NEW lines \in Lines, NEW v \in Vouchers, NEW date \in Dates, NEW base
    PROVE  /\ DOMAIN lines \subseteq TxnIds /\ IsFiniteSet(DOMAIN lines)
           /\ \A i \in DOMAIN lines :
                 NewRow(v, base, date, lines[i]) \in Txn /\ lines[i].amount \in Amounts
<1>1. PICK ids \in SUBSET TxnIds : lines \in [ids -> Line]
    BY DEF Lines
<1>2. DOMAIN lines = ids
    BY <1>1
<1>3. IsFiniteSet(ids)
    BY <1>1, FS_Subset, DailySummaryAssumption
<1>4. \A i \in ids : lines[i] \in Line
    BY <1>1
<1>5. \A l \in Line : NewRow(v, base, date, l) \in Txn /\ l.amount \in Amounts
    BY DEF Line, NewRow, Txn
<1> QED  BY <1>2, <1>3, <1>4, <1>5

\* The inserts of a new voucher's lines, none of whose ids are there.
LEMMA InsertLinesGood ==
    ASSUME NEW t, Good(t), NEW lines \in Lines, NEW v \in Vouchers, NEW base, NEW date \in Dates,
           DOMAIN lines \cap DOMAIN t.txn = {}
    PROVE  Good(insert_ac_txn(t, v, base, date, lines))
<1> DEFINE S == DOMAIN lines
           row(i) == NewRow(v, base, date, lines[i])
           f == CHOOSE f : f = [s \in SUBSET S |->
                   IF s = {} THEN t
                   ELSE InsertRow(f[s \ {Chosen(s)}], Chosen(s), row(Chosen(s)))]
<1>1. t \in Table
    BY DEF Good
<1>2. S \subseteq TxnIds /\ IsFiniteSet(S) /\ \A i \in S : row(i) \in Txn
    BY LinesRows
<1>3. insert_ac_txn(t, v, base, date, lines) = f[S]
    BY DEF insert_ac_txn, FoldSet, MapThenFoldSet, Chosen
<1>4. S \cap DOMAIN t.txn = {}
    OBVIOUS
<1> HIDE DEF S, row
<1>5. f = [s \in SUBSET S |->
              IF s = {} THEN t
              ELSE InsertRow(f[s \ {Chosen(s)}], Chosen(s), row(Chosen(s)))]
  <2> DEFINE F == [p \in S \X Table |-> InsertRow(p[2], p[1], row(p[1]))]
  <2>1. \A i \in S, u \in Table : F[<<i, u>>] = InsertRow(u, i, row(i))
      OBVIOUS
  <2>2. F \in [S \X Table -> Table]
    <3>1. \A p \in S \X Table : row(p[1]) \in Txn /\ p[2] \in Table /\ p[1] \in TxnIds
        BY <1>2
    <3> QED  BY <3>1, InsertRowGood
  <2> HIDE DEF F
  <2>3. PICK g \in [SUBSET S -> Table] : IsFold(g, S, t, F)
      BY <1>1, <1>2, <2>2, FoldExists
  <2>4. ASSUME NEW s \in SUBSET S
        PROVE  g[s] = IF s = {} THEN t
                      ELSE InsertRow(g[s \ {Chosen(s)}], Chosen(s), row(Chosen(s)))
    <3>1. s # {} => Chosen(s) \in S /\ g[s \ {Chosen(s)}] \in Table
        BY <2>3, ChosenIn
    <3> QED  BY <2>1, <2>3, <3>1 DEF IsFold
  <2>5. g = [s \in SUBSET S |->
                IF s = {} THEN t
                ELSE InsertRow(g[s \ {Chosen(s)}], Chosen(s), row(Chosen(s)))]
      BY <2>3, <2>4
  <2> QED  BY <2>5
<1> HIDE DEF f
<1> DEFINE Z == {s \in SUBSET S : Good(f[s]) /\ DOMAIN f[s].txn = DOMAIN t.txn \cup s}
<1>6. {} \in Z
  <2>1. {} \in SUBSET S /\ f[{}] = t
      BY <1>5
  <2> QED  BY <2>1
<1>7. ASSUME NEW s \in SUBSET S, s # {}, s \ {Chosen(s)} \in Z PROVE s \in Z
  <2> DEFINE x == Chosen(s)
             r == s \ {x}
             u == f[r]
  <2>1. x \in s /\ x \in S
      BY <1>7, ChosenIn
  <2>2. f[s] = InsertRow(u, x, row(x))
      BY <1>5, <1>7
  <2>3. Good(u) /\ DOMAIN u.txn = DOMAIN t.txn \cup r
      BY <1>7
  <2> HIDE DEF x
  <2>4. x \notin DOMAIN u.txn
      BY <1>4, <2>1, <2>3
  <2>5. DOMAIN u.txn \cup {x} = DOMAIN t.txn \cup s
      BY <2>1, <2>3
  <2> HIDE DEF r, u
  <2>6. u \in Table /\ x \in TxnIds /\ row(x) \in Txn
      BY <1>2, <2>1, <2>3 DEF Good
  <2>7. Good(f[s]) /\ DOMAIN f[s].txn = DOMAIN u.txn \cup {x}
      BY <2>2, <2>3, <2>4, <2>6, InsertRowGood
  <2> QED  BY <2>5, <2>7
<1>8. Good(f[S])
  <2>1. SUBSET S \subseteq Z
    <3> HIDE DEF Z
    <3> QED  BY <1>2, <1>6, <1>7, FoldInduction
  <2> QED  BY <2>1
<1> QED  BY <1>3, <1>8

\* A fold whose step keeps the tables good and their rows at least those of D.
GoodOver(D) == {u \in Table : Good(u) /\ D \subseteq DOMAIN u.txn}

\* An edit: the rows it drops, then the lines it updates or inserts.
LEMMA UpdateLinesGood ==
    ASSUME NEW t, Good(t), NEW lines \in Lines, NEW v \in Vouchers, NEW base, NEW date \in Dates
    PROVE  Good(update_ac_txn(t, v, base, date, lines))
<1> DEFINE S == DOMAIN lines
           missed == {i \in VoucherRows(t, v) :
                        i \notin DOMAIN lines \/ lines[i].account # t.txn[i].account}
           t0 == DeleteRows(t, missed)
           T == GoodOver({})
           row(i) == NewRow(v, base, date, lines[i])
           upsert(i, u) == IF i \in DOMAIN u.txn
                           THEN UpdateRow(u, i, date, lines[i].amount)
                           ELSE InsertRow(u, i, row(i))
           f == CHOOSE f : f = [s \in SUBSET S |->
                   IF s = {} THEN t0 ELSE upsert(Chosen(s), f[s \ {Chosen(s)}])]
<1>1. t0 \in T
  <2>1. missed \in SUBSET DOMAIN t.txn
      BY DEF VoucherRows
  <2> HIDE DEF missed
  <2>2. Good(t0)
      BY <2>1, DeleteRowsGood
  <2> QED  BY <2>2 DEF Good, GoodOver
<1>2. /\ S \subseteq TxnIds /\ IsFiniteSet(S)
      /\ \A i \in S : row(i) \in Txn /\ lines[i].amount \in Amounts
    BY LinesRows
<1>3. update_ac_txn(t, v, base, date, lines) = f[S]
    BY DEF update_ac_txn, FoldSet, MapThenFoldSet, Chosen
<1> HIDE DEF S, row, t0, missed
<1>4. ASSUME NEW i \in S, NEW u \in T PROVE upsert(i, u) \in T
  <2>1. u \in Table /\ Good(u) /\ i \in TxnIds /\ row(i) \in Txn /\ lines[i].amount \in Amounts
      BY <1>2 DEF GoodOver
  <2>2. CASE i \in DOMAIN u.txn
    <3>1. Good(UpdateRow(u, i, date, lines[i].amount))
        BY <2>1, <2>2, UpdateRowGood
    <3> QED  BY <2>2, <3>1 DEF Good, GoodOver
  <2>3. CASE i \notin DOMAIN u.txn
    <3>1. Good(InsertRow(u, i, row(i)))
        BY <2>1, <2>3, InsertRowGood
    <3> QED  BY <2>3, <3>1 DEF Good, GoodOver
  <2> QED  BY <2>2, <2>3
<1> HIDE DEF upsert, T
<1>5. f = [s \in SUBSET S |->
              IF s = {} THEN t0 ELSE upsert(Chosen(s), f[s \ {Chosen(s)}])]
  <2> DEFINE F == [p \in S \X T |-> upsert(p[1], p[2])]
  <2>1. \A i \in S, u \in T : F[<<i, u>>] = upsert(i, u)
      OBVIOUS
  <2>2. F \in [S \X T -> T]
      BY <1>4
  <2> HIDE DEF F
  <2>3. PICK g \in [SUBSET S -> T] : IsFold(g, S, t0, F)
      BY <1>1, <1>2, <2>2, FoldExists
  <2>4. ASSUME NEW s \in SUBSET S
        PROVE  g[s] = IF s = {} THEN t0 ELSE upsert(Chosen(s), g[s \ {Chosen(s)}])
    <3>1. s # {} => Chosen(s) \in S /\ g[s \ {Chosen(s)}] \in T
        BY <2>3, ChosenIn
    <3> QED  BY <2>1, <2>3, <3>1 DEF IsFold
  <2>5. g = [s \in SUBSET S |->
                IF s = {} THEN t0 ELSE upsert(Chosen(s), g[s \ {Chosen(s)}])]
      BY <2>3, <2>4
  <2> QED  BY <2>5
<1> HIDE DEF f
<1> DEFINE Z == {s \in SUBSET S : f[s] \in T}
<1>6. {} \in Z
  <2>1. {} \in SUBSET S /\ f[{}] = t0
      BY <1>5
  <2> QED  BY <1>1, <2>1
<1>7. ASSUME NEW s \in SUBSET S, s # {}, s \ {Chosen(s)} \in Z PROVE s \in Z
  <2>1. Chosen(s) \in S
      BY <1>7, ChosenIn
  <2>2. f[s] = upsert(Chosen(s), f[s \ {Chosen(s)}])
      BY <1>5, <1>7
  <2> QED  BY <1>4, <1>7, <2>1, <2>2
<1>8. f[S] \in T
  <2>1. SUBSET S \subseteq Z
    <3> HIDE DEF Z
    <3> QED  BY <1>2, <1>6, <1>7, FoldInduction
  <2> QED  BY <2>1
<1> QED  BY <1>3, <1>8 DEF T, GoodOver

\* The update of an account's opening rows.
LEMMA UpdateRowsGood ==
    ASSUME NEW t, Good(t), NEW S \in SUBSET DOMAIN t.txn, NEW amount \in Amounts
    PROVE  Good(UpdateRows(t, S, amount))
<1> DEFINE date(i) == t.txn[i].date
           T == GoodOver(S)
           step(i, u) == UpdateRow(u, i, date(i), amount)
           f == CHOOSE f : f = [s \in SUBSET S |->
                   IF s = {} THEN t ELSE step(Chosen(s), f[s \ {Chosen(s)}])]
<1>1. t \in T
    BY DEF Good, GoodOver
<1>2. /\ IsFiniteSet(S)
      /\ \A i \in S : date(i) \in Dates \cup {OpeningDate}
  <2>1. t.txn \in Txns
      BY DEF Good, Table
  <2>2. S \subseteq TxnIds /\ \A i \in S : t.txn[i] \in Txn
      BY <2>1, RowsAreRows
  <2>3. IsFiniteSet(S)
      BY <2>2, FS_Subset, DailySummaryAssumption
  <2>4. \A r \in Txn : r.date \in Dates \cup {OpeningDate}
      BY DEF Txn
  <2> QED  BY <2>2, <2>3, <2>4
<1>3. UpdateRows(t, S, amount) = f[S]
    BY DEF UpdateRows, FoldSet, MapThenFoldSet, Chosen
<1> HIDE DEF date
<1>4. ASSUME NEW i \in S, NEW u \in T PROVE step(i, u) \in T
  <2>1. u \in Table /\ Good(u) /\ S \subseteq DOMAIN u.txn /\ i \in DOMAIN u.txn
      BY DEF GoodOver
  <2>2. Good(step(i, u)) /\ DOMAIN step(i, u).txn = DOMAIN u.txn
      BY <1>2, <2>1, UpdateRowGood
  <2> HIDE DEF step
  <2> QED  BY <2>1, <2>2 DEF Good, GoodOver
<1> HIDE DEF step, T
<1>5. f = [s \in SUBSET S |->
              IF s = {} THEN t ELSE step(Chosen(s), f[s \ {Chosen(s)}])]
  <2> DEFINE F == [p \in S \X T |-> step(p[1], p[2])]
  <2>1. \A i \in S, u \in T : F[<<i, u>>] = step(i, u)
      OBVIOUS
  <2>2. F \in [S \X T -> T]
      BY <1>4
  <2> HIDE DEF F
  <2>3. PICK g \in [SUBSET S -> T] : IsFold(g, S, t, F)
      BY <1>1, <1>2, <2>2, FoldExists
  <2>4. ASSUME NEW s \in SUBSET S
        PROVE  g[s] = IF s = {} THEN t ELSE step(Chosen(s), g[s \ {Chosen(s)}])
    <3>1. s # {} => Chosen(s) \in S /\ g[s \ {Chosen(s)}] \in T
        BY <2>3, ChosenIn
    <3> QED  BY <2>1, <2>3, <3>1 DEF IsFold
  <2>5. g = [s \in SUBSET S |->
                IF s = {} THEN t ELSE step(Chosen(s), g[s \ {Chosen(s)}])]
      BY <2>3, <2>4
  <2> QED  BY <2>5
<1> HIDE DEF f
<1> DEFINE Z == {s \in SUBSET S : f[s] \in T}
<1>6. {} \in Z
  <2>1. {} \in SUBSET S /\ f[{}] = t
      BY <1>5
  <2> QED  BY <1>1, <2>1
<1>7. ASSUME NEW s \in SUBSET S, s # {}, s \ {Chosen(s)} \in Z PROVE s \in Z
  <2>1. Chosen(s) \in S
      BY <1>7, ChosenIn
  <2>2. f[s] = step(Chosen(s), f[s \ {Chosen(s)}])
      BY <1>5, <1>7
  <2> QED  BY <1>4, <1>7, <2>1, <2>2
<1>8. f[S] \in T
  <2>1. SUBSET S \subseteq Z
    <3> HIDE DEF Z
    <3> QED  BY <1>2, <1>6, <1>7, FoldInduction
  <2> QED  BY <2>1
<1> QED  BY <1>3, <1>8 DEF T, GoodOver

-----------------------------------------------------------------------------
(* The specification. *)

\* The inductive invariant.
LedgerInv ==
    /\ voucher \in [Vouchers -> {"absent", "MEMO", "PAYMENT"}]
    /\ account_opening \in TableOf(Accounts, Amounts)
    /\ Agree(ac_txn, summary, redated)

\* The tables of a state in which it holds are good.
LEMMA TablesGood ==
    ASSUME Agree(ac_txn, summary, redated)
    PROVE  Good(Tables) /\ Tables.txn = ac_txn
<1>1. Tables.txn = ac_txn /\ Tables.sum = summary /\ Tables.red = redated
    BY DEF Tables
<1>2. ac_txn \in Txns /\ summary \in Sums /\ redated \in Seq(Cells)
    BY DEF Agree
<1>3. Tables \in Table
    BY <1>2 DEF Tables, Table
<1> QED  BY <1>1, <1>3 DEF Good

\* A call that stores good tables leaves them in the state.
LEMMA StoreGood ==
    ASSUME NEW t, Good(t), Store(t)
    PROVE  Agree(ac_txn', summary', redated')
    BY DEF Good, Store

\* Converting a memo is a delete, or nothing.
LEMMA ConvertMemoGood ==
    ASSUME NEW t, Good(t), NEW m PROVE Good(ConvertMemo(t, m))
<1>1. VoucherRows(t, m) \in SUBSET DOMAIN t.txn
    BY DEF VoucherRows
<1>2. Good(DeleteRows(t, VoucherRows(t, m)))
    BY <1>1, DeleteRowsGood
<1> QED  BY <1>2 DEF ConvertMemo

\* It holds at first.
LEMMA LedgerInit == Init => LedgerInv
<1> SUFFICES ASSUME Init PROVE LedgerInv
    OBVIOUS
<1>1. \A keys, rows : << >> \in TableOf(keys, rows)
  <2>1. DOMAIN << >> = {} /\ \A rows : << >> \in [{} -> rows]
      OBVIOUS
  <2> QED  BY <2>1, TableDef
<1>2. ac_txn \in Txns /\ summary \in Sums /\ account_opening \in TableOf(Accounts, Amounts)
    BY <1>1 DEF Init, Txns, Sums
<1>3. redated \in Seq(Cells)
    BY DEF Init
<1>4. HasCells(ac_txn, summary)
    BY DEF Init, HasCells
<1>5. Matches(ac_txn, summary, redated)
  <2>1. \A cell : Val(<< >>, cell) = 0
      BY DEF Val
  <2>2. \A cell : BookedIn(<< >>, cell) = 0
      BY BookedNothing
  <2> QED  BY <2>1, <2>2 DEF Matches, Init
<1>6. voucher \in [Vouchers -> {"absent", "MEMO", "PAYMENT"}]
    BY DEF Init
<1> QED  BY <1>2, <1>3, <1>4, <1>5, <1>6 DEF LedgerInv, Agree

\* A step keeps it.
LEMMA LedgerStep == LedgerInv /\ [Next]_vars => LedgerInv'
<1> SUFFICES ASSUME LedgerInv, [Next]_vars PROVE LedgerInv'
    OBVIOUS
<1> DEFINE V == [Vouchers -> {"absent", "MEMO", "PAYMENT"}]
           O == TableOf(Accounts, Amounts)
<1>0. voucher \in V /\ account_opening \in O /\ Agree(ac_txn, summary, redated)
    BY DEF LedgerInv
<1>1. Good(Tables) /\ Tables.txn = ac_txn
    BY <1>0, TablesGood
<1>2. SUFFICES voucher' \in V /\ account_opening' \in O /\ Agree(ac_txn', summary', redated')
    BY DEF LedgerInv
<1>3. ASSUME NEW v \in Vouchers, NEW base \in {"MEMO", "PAYMENT"}, NEW date \in Dates,
             NEW lines \in Lines, NEW m, CreateVoucher(v, base, date, lines, m)
      PROVE  voucher' \in V /\ account_opening' \in O /\ Agree(ac_txn', summary', redated')
  <2> DEFINE t == ConvertMemo(Tables, m)
             u == insert_ac_txn(t, v, base, date, lines)
  <2>1. Good(t)
      BY <1>1, ConvertMemoGood
  <2>2. DOMAIN lines \cap DOMAIN t.txn = {} /\ Store(u) /\ account_opening' = account_opening
      BY <1>3 DEF CreateVoucher
  <2>3. voucher' \in V
      BY <1>0, <1>3 DEF CreateVoucher
  <2> HIDE DEF t
  <2>4. Good(u)
      BY <2>1, <2>2, InsertLinesGood
  <2> HIDE DEF u
  <2> QED  BY <1>0, <2>2, <2>3, <2>4, StoreGood
<1>4. ASSUME NEW v \in Vouchers, NEW date \in Dates, NEW lines \in Lines, NEW m,
             UpdateVoucher(v, date, lines, m)
      PROVE  voucher' \in V /\ account_opening' \in O /\ Agree(ac_txn', summary', redated')
  <2> DEFINE t == ConvertMemo(Tables, m)
             u == update_ac_txn(t, v, voucher[v], date, lines)
  <2>1. Good(t)
      BY <1>1, ConvertMemoGood
  <2>2. Store(u) /\ account_opening' = account_opening
      BY <1>4 DEF UpdateVoucher
  <2>3. voucher' \in V
      BY <1>0, <1>4 DEF UpdateVoucher
  <2> HIDE DEF t
  <2>4. Good(u)
      BY <2>1, UpdateLinesGood
  <2> HIDE DEF u
  <2> QED  BY <1>0, <2>2, <2>3, <2>4, StoreGood
<1>5. ASSUME NEW v \in Vouchers, DeleteVoucher(v)
      PROVE  voucher' \in V /\ account_opening' \in O /\ Agree(ac_txn', summary', redated')
  <2> DEFINE ids == VoucherRows(Tables, v)
             u == DeleteRows(Tables, ids)
  <2>1. Store(u) /\ account_opening' = account_opening
      BY <1>5 DEF DeleteVoucher
  <2>2. voucher' \in V
      BY <1>0, <1>5 DEF DeleteVoucher
  <2>3. ids \in SUBSET DOMAIN Tables.txn
      BY DEF VoucherRows
  <2> HIDE DEF ids
  <2>4. Good(u)
      BY <1>1, <2>3, DeleteRowsGood
  <2> HIDE DEF u
  <2> QED  BY <1>0, <2>1, <2>2, <2>4, StoreGood
<1>6. ASSUME NEW a \in Accounts, ClearOpening(a)
      PROVE  voucher' \in V /\ account_opening' \in O /\ Agree(ac_txn', summary', redated')
  <2> DEFINE ids == OpeningRows(a)
             u == DeleteRows(Tables, ids)
  <2>1. Store(u) /\ voucher' = voucher
      BY <1>6 DEF ClearOpening
  <2>2. account_opening' \in O
    <3>1. account_opening' = Restrict(account_opening, DOMAIN account_opening \ {a})
        BY <1>6 DEF ClearOpening
    <3> QED  BY <1>0, <3>1, RestrictTable
  <2>3. ids \in SUBSET DOMAIN Tables.txn
      BY <1>1 DEF OpeningRows
  <2> HIDE DEF ids
  <2>4. Good(u)
      BY <1>1, <2>3, DeleteRowsGood
  <2> HIDE DEF u
  <2> QED  BY <1>0, <2>1, <2>2, <2>4, StoreGood
<1>7. ASSUME NEW a \in Accounts, NEW amount \in Amounts, UpdateOpening(a, amount)
      PROVE  voucher' \in V /\ account_opening' \in O /\ Agree(ac_txn', summary', redated')
  <2> DEFINE S == OpeningRows(a)
             u == UpdateRows(Tables, S, amount)
  <2>1. Store(u) /\ voucher' = voucher
      BY <1>7 DEF UpdateOpening
  <2>2. account_opening' \in O
    <3>1. account_opening' = With(account_opening, a, amount)
        BY <1>7 DEF UpdateOpening
    <3> QED  BY <1>0, <3>1, WithTable
  <2>3. S \in SUBSET DOMAIN Tables.txn
      BY <1>1 DEF OpeningRows
  <2>4. Good(u)
    <3> HIDE DEF S
    <3> QED  BY <1>1, <2>3, UpdateRowsGood
  <2> HIDE DEF u
  <2> QED  BY <1>0, <2>1, <2>2, <2>4, StoreGood
<1>8. ASSUME NEW a \in Accounts, NEW i \in TxnIds, NEW amount \in Amounts,
             InsertOpening(a, i, amount)
      PROVE  voucher' \in V /\ account_opening' \in O /\ Agree(ac_txn', summary', redated')
  <2> DEFINE r == [voucher |-> None, account |-> a, date |-> OpeningDate,
                   amount |-> amount, is_memo |-> FALSE]
             u == InsertRow(Tables, i, r)
  <2>1. Store(u) /\ voucher' = voucher /\ i \notin DOMAIN ac_txn
      BY <1>8 DEF InsertOpening
  <2>2. account_opening' \in O
    <3>1. account_opening' = With(account_opening, a, amount)
        BY <1>8 DEF InsertOpening
    <3> QED  BY <1>0, <3>1, WithTable
  <2>3. r \in Txn
      BY DEF Txn
  <2> HIDE DEF r
  <2>4. Tables \in Table
      BY <1>1 DEF Good
  <2>5. Good(u)
      BY <1>1, <2>1, <2>3, <2>4, InsertRowGood
  <2> HIDE DEF u
  <2> QED  BY <1>0, <2>1, <2>2, <2>5, StoreGood
<1>9. ASSUME vars' = vars
      PROVE  voucher' \in V /\ account_opening' \in O /\ Agree(ac_txn', summary', redated')
    BY <1>0, <1>9 DEF vars
<1> HIDE DEF V, O
<1> QED  BY <1>3, <1>4, <1>5, <1>6, <1>7, <1>8, <1>9 DEF Next

\* What the invariant says of a state.
LEMMA LedgerImplies == LedgerInv => TypeOK /\ SummaryMatchesLedger /\ BookedHasCell
<1> SUFFICES ASSUME LedgerInv PROVE TypeOK /\ SummaryMatchesLedger /\ BookedHasCell
    OBVIOUS
<1>1. /\ ac_txn \in Txns /\ summary \in Sums /\ redated \in Seq(Cells)
      /\ HasCells(ac_txn, summary) /\ Matches(ac_txn, summary, redated)
    BY DEF LedgerInv, Agree
<1>2. TypeOK
    BY <1>1 DEF LedgerInv, TypeOK, Txns, Sums
<1>3. SummaryMatchesLedger
    BY <1>1 DEF SummaryMatchesLedger, Matches, Val
<1>4. BookedHasCell
    BY <1>1 DEF BookedHasCell, HasCells
<1> QED  BY <1>2, <1>3, <1>4

\* The tables hold rows of their types, whatever calls are made.
THEOREM LedgerTypeCorrect == Spec => []TypeOK
    BY LedgerInit, LedgerStep, LedgerImplies, PTL DEF Spec

(***************************************************************************)
(* SummaryMatchesLedger, for every ledger: the row triggers of             *)
(* 051_ac_txn.sql keep each day's total equal to the sum of the booked     *)
(* lines, over all creations, edits, conversions, deletions and openings,  *)
(* on every cell that no line left with its amount changed.                *)
(***************************************************************************)
THEOREM SummaryMatchesLedgerCorrect == Spec => []SummaryMatchesLedger
    BY LedgerInit, LedgerStep, LedgerImplies, PTL DEF Spec

(***************************************************************************)
(* BookedHasCell, for every ledger: a booked line's summary row exists, so *)
(* the `on conflict' arm of the update and delete triggers is the one that *)
(* is taken for it.                                                        *)
(***************************************************************************)
THEOREM BookedHasCellCorrect == Spec => []BookedHasCell
    BY LedgerInit, LedgerStep, LedgerImplies, PTL DEF Spec

-----------------------------------------------------------------------------
(* Bill allocations. *)

\* A call in progress.
Calls == [bill : TableOf(BillIds \cup {None}, Allocation), p_id : Pendings \cup {None},
          raised : BOOLEAN]

\* What a call is made of.
LEMMA CallFacts ==
    ASSUME NEW c \in Calls
    PROVE  /\ DOMAIN c.bill \subseteq BillIds \cup {None}
           /\ c.bill \in [DOMAIN c.bill -> Allocation]
           /\ \A i \in DOMAIN c.bill :
                 /\ c.bill[i] \in Allocation
                 /\ c.bill[i].owner \in Vouchers \cup {Opening}
                 /\ c.bill[i].ref_type \in {"NEW", "ADJ", "ON_ACC"}
                 /\ c.bill[i].pending \in Pendings \cup {None}
           /\ c.p_id \in Pendings \cup {None} /\ c.raised \in BOOLEAN
<1>1. /\ c.bill \in TableOf(BillIds \cup {None}, Allocation)
      /\ c.p_id \in Pendings \cup {None} /\ c.raised \in BOOLEAN
    BY DEF Calls
<1>2. DOMAIN c.bill \subseteq BillIds \cup {None} /\ c.bill \in [DOMAIN c.bill -> Allocation]
    BY <1>1, TableDef
<1>3. \A i \in DOMAIN c.bill : c.bill[i] \in Allocation
    BY <1>2
<1> QED  BY <1>1, <1>2, <1>3 DEF Allocation, RefTypes

\* w is b with the row r under i.
Written(w, b, i, r) ==
    /\ DOMAIN w = DOMAIN b \cup {i}
    /\ w[i] = r
    /\ \A x \in DOMAIN b : x # i => w[x] = b[x]

\* What With does.
LEMMA BillWith ==
    ASSUME NEW ids, NEW b \in TableOf(ids, Allocation), NEW i \in ids, NEW r \in Allocation
    PROVE  With(b, i, r) \in TableOf(ids, Allocation) /\ Written(With(b, i, r), b, i, r)
<1> DEFINE w == With(b, i, r)
<1>1. DOMAIN b \subseteq ids /\ b \in [DOMAIN b -> Allocation]
    BY TableDef
<1>2. Written(w, b, i, r) /\ w \in [DOMAIN b \cup {i} -> Allocation]
    BY <1>1 DEF With, Written
<1> HIDE DEF w
<1>3. DOMAIN w \subseteq ids /\ w \in [DOMAIN w -> Allocation]
    BY <1>1, <1>2
<1>4. w \in TableOf(ids, Allocation)
    BY <1>3, TableDef
<1> QED  BY <1>2, <1>4 DEF w

\* A generated value is new, or there is none.
LEMMA PickFacts ==
    \A S : Pick(S) \in S \cup {None} /\ (Pick(S) # None => Pick(S) \in S)
    BY DEF Pick

\* gen_random_uuid() for a pending: one that no row and no item has.
LEMMA GenPendingFacts ==
    ASSUME NEW b, NEW items
    PROVE  LET p == Pick(GenPending(b, items))
           IN  /\ p \in Pendings \cup {None}
               /\ p # None => /\ \A i \in DOMAIN b : b[i].pending # p
                              /\ p \notin Named(items, "pending")
<1> DEFINE p == Pick(GenPending(b, items))
<1>1. p \in GenPending(b, items) \cup {None} /\ (p # None => p \in GenPending(b, items))
    BY PickFacts
<1> HIDE DEF p
<1>2. /\ p \in Pendings \cup {None}
      /\ p # None => /\ \A i \in DOMAIN b : b[i].pending # p
                     /\ p \notin Named(items, "pending")
    BY <1>1 DEF GenPending, PendingsOf
<1> QED  BY <1>2 DEF p

-----------------------------------------------------------------------------
(* The trigger. *)

\* c is what it has come to when it has freed the rows s of kept.
FreedUpto(c, kept, s, items) ==
    /\ c \in Calls /\ c.p_id = None
    /\ DOMAIN c.bill = DOMAIN kept
    /\ ~c.raised =>
         /\ \A k \in DOMAIN kept \ s : c.bill[k] = kept[k]
         /\ \A k \in s :
               /\ c.bill[k].owner = kept[k].owner /\ c.bill[k].ref_type = "NEW"
               /\ c.bill[k].pending \notin Named(items, "pending") \cup {None}
               /\ \A m \in DOMAIN kept \ {k} : c.bill[m].pending # c.bill[k].pending

\* Its next row.
FreeNext(i, c, items) == Free(i, c, Pick(GenPending(c.bill, items)))

\* A call's type survives the freeing of one of its rows.
LEMMA FreeType ==
    ASSUME NEW c \in Calls, NEW i \in DOMAIN c.bill, NEW items,
           NEW p, p = Pick(GenPending(c.bill, items)),
           NEW n, n = FreeNext(i, c, items)
    PROVE  /\ n \in Calls /\ n.p_id = c.p_id /\ n.raised = (c.raised \/ p = None)
           /\ Written(n.bill, c.bill, i,
                      [owner |-> c.bill[i].owner, ref_type |-> "NEW", pending |-> p])
<1> DEFINE r == [owner |-> c.bill[i].owner, ref_type |-> "NEW", pending |-> p]
           w == With(c.bill, i, r)
<1>1. p \in Pendings \cup {None}
    BY GenPendingFacts
<1>2. r \in Allocation
    BY <1>1, CallFacts DEF Allocation, RefTypes
<1>3. n = [bill |-> w, p_id |-> c.p_id, raised |-> c.raised \/ p = None]
    BY DEF FreeNext, Free
<1>4. i \in BillIds \cup {None} /\ c.bill \in TableOf(BillIds \cup {None}, Allocation)
    BY CallFacts DEF Calls
<1> HIDE DEF r
<1>5. w \in TableOf(BillIds \cup {None}, Allocation) /\ Written(w, c.bill, i, r)
    BY <1>2, <1>4, BillWith
<1> HIDE DEF w
<1>6. c.p_id \in Pendings \cup {None} /\ c.raised \in BOOLEAN
    BY CallFacts
<1>7. n \in Calls
    BY <1>3, <1>5, <1>6 DEF Calls
<1> QED  BY <1>3, <1>5, <1>7 DEF r

\* It frees one more.
LEMMA FreeStep ==
    ASSUME NEW c, NEW kept, NEW s, NEW items, FreedUpto(c, kept, s, items),
           NEW i \in DOMAIN kept, i \notin s, s \subseteq DOMAIN kept
    PROVE  FreedUpto(FreeNext(i, c, items), kept, s \cup {i}, items)
<1> DEFINE p == Pick(GenPending(c.bill, items))
           n == FreeNext(i, c, items)
           r == [owner |-> c.bill[i].owner, ref_type |-> "NEW", pending |-> p]
<1>1. c \in Calls /\ c.p_id = None /\ DOMAIN c.bill = DOMAIN kept /\ i \in DOMAIN c.bill
    BY DEF FreedUpto
<1>2. /\ n \in Calls /\ n.p_id = c.p_id /\ n.raised = (c.raised \/ p = None)
      /\ Written(n.bill, c.bill, i, r)
  <2> HIDE DEF p, n
  <2>1. p = Pick(GenPending(c.bill, items)) /\ n = FreeNext(i, c, items)
      BY DEF p, n
  <2> QED  BY <1>1, <2>1, FreeType
<1>3. p # None => /\ \A k \in DOMAIN c.bill : c.bill[k].pending # p
                  /\ p \notin Named(items, "pending")
    BY GenPendingFacts
<1>4. r.owner = c.bill[i].owner /\ r.ref_type = "NEW" /\ r.pending = p
    OBVIOUS
<1> HIDE DEF p, n, r
<1>5. DOMAIN n.bill = DOMAIN kept
    BY <1>1, <1>2 DEF Written
<1>6. ASSUME ~n.raised
      PROVE  /\ \A k \in DOMAIN kept \ (s \cup {i}) : n.bill[k] = kept[k]
             /\ \A k \in s \cup {i} :
                   /\ n.bill[k].owner = kept[k].owner /\ n.bill[k].ref_type = "NEW"
                   /\ n.bill[k].pending \notin Named(items, "pending") \cup {None}
                   /\ \A m \in DOMAIN kept \ {k} : n.bill[m].pending # n.bill[k].pending
  <2>1. ~c.raised /\ p # None
      BY <1>2, <1>6
  <2>2. /\ \A k \in DOMAIN kept \ s : c.bill[k] = kept[k]
        /\ \A k \in s :
              /\ c.bill[k].owner = kept[k].owner /\ c.bill[k].ref_type = "NEW"
              /\ c.bill[k].pending \notin Named(items, "pending") \cup {None}
              /\ \A m \in DOMAIN kept \ {k} : c.bill[m].pending # c.bill[k].pending
      BY <2>1 DEF FreedUpto
  <2>3. n.bill[i] = r /\ \A k \in DOMAIN kept : k # i => n.bill[k] = c.bill[k]
      BY <1>1, <1>2 DEF Written
  <2>4. \A k \in DOMAIN kept \ (s \cup {i}) : n.bill[k] = kept[k]
      BY <2>2, <2>3
  <2>5. ASSUME NEW k \in s
        PROVE  /\ n.bill[k].owner = kept[k].owner /\ n.bill[k].ref_type = "NEW"
               /\ n.bill[k].pending \notin Named(items, "pending") \cup {None}
               /\ \A m \in DOMAIN kept \ {k} : n.bill[m].pending # n.bill[k].pending
    <3>1. k # i /\ k \in DOMAIN kept /\ n.bill[k] = c.bill[k]
        BY <2>3
    <3>2. n.bill[i].pending # n.bill[k].pending
        BY <1>1, <1>3, <1>4, <2>1, <2>3, <3>1
    <3> QED  BY <2>2, <2>3, <3>1, <3>2
  <2>6. /\ n.bill[i].owner = kept[i].owner /\ n.bill[i].ref_type = "NEW"
        /\ n.bill[i].pending \notin Named(items, "pending") \cup {None}
        /\ \A m \in DOMAIN kept \ {i} : n.bill[m].pending # n.bill[i].pending
      BY <1>1, <1>3, <1>4, <2>1, <2>2, <2>3
  <2> QED  BY <2>4, <2>5, <2>6
<1> QED  BY <1>1, <1>2, <1>5, <1>6 DEF FreedUpto, n

\* The recursive function in tgf_del_on_bill_allc.
FreeRec(kept, S, items) ==
    CHOOSE f : f = [s \in SUBSET S |->
                       IF s = {} THEN Start(kept)
                       ELSE FreeNext(Chosen(s), f[s \ {Chosen(s)}], items)]

\* The trigger frees the adjusters of the deleted rows, and only them.
LEMMA TriggerFrees ==
    ASSUME NEW b \in TableOf(BillIds, Allocation), IsFiniteSet(DOMAIN b), NEW deleted, NEW items
    PROVE  FreedUpto(tgf_del_on_bill_allc(b, deleted, items),
                     Restrict(b, DOMAIN b \ deleted), Adjusters(b, deleted), items)
<1> DEFINE kept == Restrict(b, DOMAIN b \ deleted)
           S == Adjusters(b, deleted)
           f == FreeRec(kept, S, items)
           T == {c \in Calls : DOMAIN c.bill = DOMAIN kept}
           base == Start(kept)
<1>1. tgf_del_on_bill_allc(b, deleted, items) = f[S]
    BY DEF tgf_del_on_bill_allc, FoldSet, MapThenFoldSet, Chosen, FreeRec, FreeNext
<1>2. /\ DOMAIN kept = DOMAIN b \ deleted /\ kept \in [DOMAIN kept -> Allocation]
      /\ DOMAIN kept \subseteq BillIds
  <2>1. DOMAIN b \subseteq BillIds /\ b \in [DOMAIN b -> Allocation]
      BY TableDef
  <2> QED  BY <2>1 DEF Restrict
<1>3. S \subseteq DOMAIN kept
    BY <1>2 DEF Adjusters
<1>4. IsFiniteSet(S)
  <2>1. S \subseteq DOMAIN b
      BY <1>2, <1>3
  <2> HIDE DEF S
  <2> QED  BY <2>1, FS_Subset
<1>5. base \in Calls /\ base.bill = kept /\ base.p_id = None /\ base.raised = FALSE
  <2>1. base = [bill |-> kept, p_id |-> None, raised |-> FALSE]
      BY DEF Start
  <2>2. kept \in TableOf(BillIds \cup {None}, Allocation)
    <3> HIDE DEF kept
    <3>1. DOMAIN kept \subseteq BillIds \cup {None}
        BY <1>2
    <3> QED  BY <1>2, <3>1, TableDef
  <2> HIDE DEF kept, base
  <2> QED  BY <2>1, <2>2 DEF Calls
<1> HIDE DEF kept, S, base
<1>6. f = [s \in SUBSET S |-> IF s = {} THEN base ELSE FreeNext(Chosen(s), f[s \ {Chosen(s)}], items)]
  <2> DEFINE F == [q \in S \X T |-> FreeNext(q[1], q[2], items)]
  <2>1. ASSUME NEW i \in S, NEW c \in T PROVE FreeNext(i, c, items) \in T
    <3>1. c \in Calls /\ DOMAIN c.bill = DOMAIN kept /\ i \in DOMAIN c.bill
        BY <1>3
    <3> DEFINE n == FreeNext(i, c, items)
               p == Pick(GenPending(c.bill, items))
    <3>2. n = FreeNext(i, c, items) /\ p = Pick(GenPending(c.bill, items))
        OBVIOUS
    <3> HIDE DEF n, p
    <3>3. /\ n \in Calls
          /\ Written(n.bill, c.bill, i,
                     [owner |-> c.bill[i].owner, ref_type |-> "NEW", pending |-> p])
        BY <3>1, <3>2, FreeType
    <3>4. DOMAIN n.bill = DOMAIN c.bill \cup {i}
        BY <3>3 DEF Written
    <3> QED  BY <3>1, <3>2, <3>3, <3>4
  <2>2. F \in [S \X T -> T] /\ \A i \in S, c \in T : F[<<i, c>>] = FreeNext(i, c, items)
      BY <2>1
  <2>3. base \in T
      BY <1>5
  <2> HIDE DEF F, T
  <2>4. PICK g \in [SUBSET S -> T] : IsFold(g, S, base, F)
      BY <1>4, <2>2, <2>3, FoldExists
  <2>5. ASSUME NEW s \in SUBSET S
        PROVE  g[s] = IF s = {} THEN base ELSE FreeNext(Chosen(s), g[s \ {Chosen(s)}], items)
    <3>1. s # {} => Chosen(s) \in S /\ g[s \ {Chosen(s)}] \in T
        BY <2>4, ChosenIn
    <3> QED  BY <2>2, <2>4, <3>1 DEF IsFold
  <2>6. g = [s \in SUBSET S |-> IF s = {} THEN base ELSE FreeNext(Chosen(s), g[s \ {Chosen(s)}], items)]
      BY <2>4, <2>5
  <2> QED  BY <2>6 DEF FreeRec, base
<1> HIDE DEF f
<1>7. \A s \in SUBSET S : f[s] = IF s = {} THEN base ELSE FreeNext(Chosen(s), f[s \ {Chosen(s)}], items)
    BY <1>6
<1> DEFINE Z == {s \in SUBSET S : FreedUpto(f[s], kept, s, items)}
<1>8. {} \in Z
  <2>1. f[{}] = base
      BY <1>7
  <2>2. FreedUpto(base, kept, {}, items)
      BY <1>5 DEF FreedUpto
  <2> QED  BY <2>1, <2>2
<1>9. ASSUME NEW s \in SUBSET S, s # {}, s \ {Chosen(s)} \in Z PROVE s \in Z
  <2> DEFINE i == Chosen(s)
             u == s \ {i}
  <2>1. i \in s
      BY <1>9, ChosenIn
  <2>2. f[s] = FreeNext(i, f[u], items) /\ FreedUpto(f[u], kept, u, items)
      BY <1>7, <1>9
  <2>3. i \in DOMAIN kept /\ i \notin u /\ u \subseteq DOMAIN kept /\ u \cup {i} = s
      BY <1>3, <2>1
  <2> HIDE DEF i, u
  <2>4. FreedUpto(FreeNext(i, f[u], items), kept, u \cup {i}, items)
      BY <2>2, <2>3, FreeStep
  <2> QED  BY <2>2, <2>3, <2>4
<1>10. SUBSET S \subseteq Z
  <2> HIDE DEF Z
  <2> QED  BY <1>4, <1>8, <1>9, FoldInduction
<1> QED  BY <1>1, <1>10 DEF kept, S

-----------------------------------------------------------------------------
(* The loops over the items of a document. *)

\* The inductive part: a voucher's allocation has a pending unless it is on
\* account, and the opening never adjusts.
Fits(b) ==
    \A i \in DOMAIN b :
        /\ b[i].owner = Opening => b[i].ref_type # "ADJ"
        /\ b[i].owner # Opening => (b[i].pending = None <=> b[i].ref_type = "ON_ACC")

\* What a document of this owner may send, given the ids it owns.
ItemOf(own) == [id : own \cup {None}, ref_type : {"NEW", "ADJ", "ON_ACC"},
                pending : Pendings \cup {None}]

\* The loop of a document's items starts from c0; free are the rows that the
\* trigger freed and that are not its own.
Loop(c0, owner, own, free, items) ==
    /\ c0 \in Calls /\ owner \in Vouchers \cup {Opening}
    /\ own \subseteq BillIds
    /\ items \in Seq(ItemOf(own))
    /\ ~c0.raised =>
          /\ free \subseteq DOMAIN c0.bill /\ free \cap own = {}
          /\ \A j \in free : c0.bill[j].pending \notin Named(items, "pending") \cup {None}

\* What holds after every turn of it.
Going(c, c0, owner, own, free) ==
    /\ c \in Calls
    /\ c0.raised => c.raised
    /\ ~c.raised =>
         /\ DOMAIN c0.bill \subseteq DOMAIN c.bill /\ DOMAIN c.bill \subseteq BillIds
         /\ IsFiniteSet(DOMAIN c.bill)
         /\ Fits(c.bill)
         /\ \A i \in own \cap DOMAIN c.bill : c.bill[i].owner = owner
         /\ \A j \in free :
               /\ c.bill[j] = c0.bill[j] /\ c.p_id # c0.bill[j].pending
               /\ \A k \in DOMAIN c.bill \ {j} : c.bill[k].pending # c0.bill[j].pending

\* A row written under i: what keeps Going.
LEMMA WriteGoing ==
    ASSUME NEW c0, NEW owner, NEW own, NEW free, NEW items,
           Loop(c0, owner, own, free, items),
           NEW c, Going(c, c0, owner, own, free),
           NEW n \in Calls, c.raised => n.raised,
           NEW i, NEW r \in Allocation,
           ~n.raised =>
             /\ Written(n.bill, c.bill, i, r)
             /\ i \in BillIds /\ i \notin free
             /\ r.owner = owner
             /\ owner = Opening => r.ref_type # "ADJ"
             /\ owner # Opening => (r.pending = None <=> r.ref_type = "ON_ACC")
             /\ \A j \in free : /\ r.pending # c0.bill[j].pending
                                /\ n.p_id # c0.bill[j].pending
    PROVE  Going(n, c0, owner, own, free)
<1>1. c0.raised => n.raised
    BY DEF Going
<1>2. ASSUME ~n.raised
      PROVE  /\ DOMAIN c0.bill \subseteq DOMAIN n.bill /\ DOMAIN n.bill \subseteq BillIds
             /\ IsFiniteSet(DOMAIN n.bill)
             /\ Fits(n.bill)
             /\ \A x \in own \cap DOMAIN n.bill : n.bill[x].owner = owner
             /\ \A j \in free :
                   /\ n.bill[j] = c0.bill[j] /\ n.p_id # c0.bill[j].pending
                   /\ \A k \in DOMAIN n.bill \ {j} : n.bill[k].pending # c0.bill[j].pending
  <2>1. ~c.raised /\ ~c0.raised
      BY <1>1, <1>2
  <2>2. /\ DOMAIN c0.bill \subseteq DOMAIN c.bill /\ DOMAIN c.bill \subseteq BillIds
        /\ IsFiniteSet(DOMAIN c.bill)
        /\ Fits(c.bill)
        /\ \A x \in own \cap DOMAIN c.bill : c.bill[x].owner = owner
        /\ \A j \in free :
              /\ c.bill[j] = c0.bill[j] /\ c.p_id # c0.bill[j].pending
              /\ \A k \in DOMAIN c.bill \ {j} : c.bill[k].pending # c0.bill[j].pending
      BY <2>1 DEF Going
  <2>3. /\ DOMAIN n.bill = DOMAIN c.bill \cup {i} /\ n.bill[i] = r
        /\ \A x \in DOMAIN c.bill : x # i => n.bill[x] = c.bill[x]
      BY <1>2 DEF Written
  <2>4. free \subseteq DOMAIN c0.bill
      BY <2>1 DEF Loop
  <2>5. IsFiniteSet(DOMAIN n.bill)
      BY <2>2, <2>3, FS_AddElement
  <2>6. Fits(n.bill)
      BY <1>2, <2>2, <2>3 DEF Fits
  <2>7. \A x \in own \cap DOMAIN n.bill : n.bill[x].owner = owner
      BY <1>2, <2>2, <2>3
  <2>8. ASSUME NEW j \in free
        PROVE  /\ n.bill[j] = c0.bill[j] /\ n.p_id # c0.bill[j].pending
               /\ \A k \in DOMAIN n.bill \ {j} : n.bill[k].pending # c0.bill[j].pending
    <3>1. j # i /\ j \in DOMAIN c.bill
        BY <1>2, <2>2, <2>4
    <3> QED  BY <1>2, <2>2, <2>3, <3>1
  <2> QED  BY <1>2, <2>2, <2>3, <2>5, <2>6, <2>7, <2>8
<1> QED  BY <1>1, <1>2 DEF Going

\* gen_random_uuid() for a row: an id that no row has.
LEMMA GenIdFacts ==
    ASSUME NEW b, NEW items, NEW i, i = Pick(GenId(b, items))
    PROVE  i \in BillIds \cup {None} /\ (i # None => i \in BillIds /\ i \notin DOMAIN b)
<1>1. i \in GenId(b, items) \cup {None} /\ (i # None => i \in GenId(b, items))
    BY PickFacts
<1> QED  BY <1>1 DEF GenId

\* Put keeps it, for a p_id that fits the item and is of no freed row.
LEMMA PutGoing ==
    ASSUME NEW c0, NEW owner, NEW own, NEW free, NEW items,
           Loop(c0, owner, own, free, items),
           NEW c, Going(c, c0, owner, own, free),
           NEW item \in ItemOf(own), NEW p \in Pendings \cup {None}, NEW refused \in BOOLEAN,
           ~c.raised /\ ~refused =>
             /\ owner = Opening => item.ref_type # "ADJ"
             /\ owner # Opening => (p = None <=> item.ref_type = "ON_ACC")
             /\ \A j \in free : p # c0.bill[j].pending
    PROVE  Going(Put(c, owner, item, p, refused, items), c0, owner, own, free)
<1> DEFINE i == IF item.id = None THEN Pick(GenId(c.bill, items)) ELSE item.id
           r == [owner |-> owner, ref_type |-> item.ref_type, pending |-> p]
           w == With(c.bill, i, r)
           n == Put(c, owner, item, p, refused, items)
<1>1. n = [bill |-> w, p_id |-> p, raised |-> c.raised \/ refused \/ i = None]
    BY DEF Put
<1>2. /\ own \subseteq BillIds /\ owner \in Vouchers \cup {Opening} /\ None \notin BillIds
      /\ ~c0.raised => free \subseteq DOMAIN c0.bill /\ free \cap own = {}
    BY BillAllocationAssumption DEF Loop
<1>3. item.id \in own \cup {None} /\ item.ref_type \in {"NEW", "ADJ", "ON_ACC"}
    BY DEF ItemOf
<1>4. /\ i \in BillIds \cup {None}
      /\ i # None => i \in BillIds /\ (i \in own \/ i \notin DOMAIN c.bill)
  <2>1. CASE item.id = None
      BY <2>1, GenIdFacts
  <2>2. CASE item.id # None
      BY <1>2, <1>3, <2>2
  <2> QED  BY <2>1, <2>2
<1>5. r \in Allocation
    BY <1>2, <1>3 DEF Allocation, RefTypes
<1>6. r.owner = owner /\ r.ref_type = item.ref_type /\ r.pending = p
    OBVIOUS
<1>7. c \in Calls /\ (c0.raised => c.raised)
    BY DEF Going
<1> HIDE DEF i, r
<1>8. w \in TableOf(BillIds \cup {None}, Allocation) /\ Written(w, c.bill, i, r)
  <2>1. c.bill \in TableOf(BillIds \cup {None}, Allocation)
      BY <1>7 DEF Calls
  <2> QED  BY <1>4, <1>5, <2>1, BillWith
<1> HIDE DEF w, n
<1>9. n.bill = w /\ n.p_id = p /\ n.raised = (c.raised \/ refused \/ i = None)
    BY <1>1
<1>10. c.raised \in BOOLEAN
    BY <1>7, CallFacts
<1>11. n \in Calls
    BY <1>1, <1>8, <1>10 DEF Calls
<1>12. ASSUME ~n.raised
       PROVE  /\ Written(n.bill, c.bill, i, r)
              /\ i \in BillIds /\ i \notin free
              /\ r.owner = owner
              /\ owner = Opening => r.ref_type # "ADJ"
              /\ owner # Opening => (r.pending = None <=> r.ref_type = "ON_ACC")
              /\ \A j \in free : /\ r.pending # c0.bill[j].pending
                                 /\ n.p_id # c0.bill[j].pending
  <2>1. ~c.raised /\ ~refused /\ i # None
      BY <1>9, <1>12
  <2>2. DOMAIN c0.bill \subseteq DOMAIN c.bill
      BY <2>1 DEF Going
  <2>3. i \notin free
      BY <1>2, <1>4, <1>7, <2>1, <2>2
  <2> QED  BY <1>4, <1>6, <1>8, <1>9, <2>1, <2>3
<1>13. c.raised => n.raised
    BY <1>9
<1>14. Going(n, c0, owner, own, free)
    BY <1>5, <1>11, <1>12, <1>13, WriteGoing
<1> QED  BY <1>14 DEF n

\* p_id of an item: nothing on account, and never that of a freed row.
LEMMA ItemPendingFacts ==
    ASSUME NEW c0, NEW owner, NEW own, NEW free, NEW items,
           Loop(c0, owner, own, free, items),
           NEW c, Going(c, c0, owner, own, free),
           NEW k \in DOMAIN items, NEW item, item = items[k],
           NEW p, p = ItemPending(c, item, items)
    PROVE  /\ item \in ItemOf(own)
           /\ p \in Pendings \cup {None}
           /\ item.ref_type = "ON_ACC" => p = None
           /\ ~c.raised => \A j \in free : p # c0.bill[j].pending
<1>1. item \in ItemOf(own)
    BY DEF Loop
<1>2. item.ref_type \in {"NEW", "ADJ", "ON_ACC"} /\ item.pending \in Pendings \cup {None}
    BY <1>1 DEF ItemOf
<1>3. item.pending \in Named(items, "pending")
    BY DEF Named
<1> DEFINE q == Pick(GenPending(c.bill, items))
<1>4. p = IF item.ref_type = "NEW" /\ item.pending = None THEN q
          ELSE IF item.ref_type = "ON_ACC" THEN None ELSE item.pending
    BY DEF ItemPending
<1>5. /\ q \in Pendings \cup {None}
      /\ q # None => \A i \in DOMAIN c.bill : c.bill[i].pending # q
    BY GenPendingFacts
<1> HIDE DEF q
<1>6. ASSUME ~c.raised, NEW j \in free PROVE p # c0.bill[j].pending
  <2>1. ~c0.raised /\ DOMAIN c0.bill \subseteq DOMAIN c.bill /\ c.bill[j] = c0.bill[j]
      BY <1>6 DEF Going
  <2>2. j \in DOMAIN c.bill /\ c0.bill[j].pending \notin Named(items, "pending") \cup {None}
      BY <2>1 DEF Loop
  <2> QED  BY <1>3, <1>4, <1>5, <2>1, <2>2
<1> QED  BY <1>1, <1>2, <1>4, <1>5, <1>6

\* A turn of the loop of insert_bill_allocation keeps it.
LEMMA InsertItemGoing ==
    ASSUME NEW c0, NEW owner \in Vouchers, NEW own, NEW free, NEW items,
           Loop(c0, owner, own, free, items),
           NEW c, Going(c, c0, owner, own, free), NEW k \in DOMAIN items
    PROVE  Going(insert_item(c, owner, items[k], items), c0, owner, own, free)
<1> DEFINE item == items[k]
           p == ItemPending(c, item, items)
           refused == \/ NeedsPending(item, p)
                      \/ item.ref_type = "NEW" /\ NewRefs(c.bill, p) # {}
<1>1. /\ item \in ItemOf(own) /\ p \in Pendings \cup {None}
      /\ item.ref_type = "ON_ACC" => p = None
      /\ ~c.raised => \A j \in free : p # c0.bill[j].pending
  <2>1. item = items[k] /\ p = ItemPending(c, item, items)
      OBVIOUS
  <2> HIDE DEF item, p
  <2> QED  BY <2>1, ItemPendingFacts
<1>2. insert_item(c, owner, item, items) = Put(c, owner, item, p, refused, items)
    BY DEF insert_item
<1>3. owner # Opening
    BY BillAllocationAssumption DEF Loop
<1>4. item.ref_type \in {"NEW", "ADJ", "ON_ACC"}
    BY <1>1 DEF ItemOf
<1>5. ~refused => (p = None <=> item.ref_type = "ON_ACC")
    BY <1>1, <1>4 DEF NeedsPending
<1>6. refused \in BOOLEAN
    BY DEF NeedsPending
<1> HIDE DEF item, p, refused
<1>7. Going(Put(c, owner, item, p, refused, items), c0, owner, own, free)
    BY <1>1, <1>3, <1>5, <1>6, PutGoing
<1> QED  BY <1>2, <1>7 DEF item

\* So does one of update_bill_allocation.
LEMMA UpdateItemGoing ==
    ASSUME NEW c0, NEW owner \in Vouchers, NEW own, NEW free, NEW items,
           Loop(c0, owner, own, free, items),
           NEW c, Going(c, c0, owner, own, free), NEW k \in DOMAIN items
    PROVE  Going(update_item(c, owner, items[k], items), c0, owner, own, free)
<1> DEFINE item == items[k]
           p == ItemPending(c, item, items)
           refused == \/ NeedsPending(item, p)
                      \/ item.ref_type = "NEW" /\ item.id # None
                           /\ NewRefs(c.bill, p) \ {item.id} # {}
<1>1. /\ item \in ItemOf(own) /\ p \in Pendings \cup {None}
      /\ item.ref_type = "ON_ACC" => p = None
      /\ ~c.raised => \A j \in free : p # c0.bill[j].pending
  <2>1. item = items[k] /\ p = ItemPending(c, item, items)
      OBVIOUS
  <2> HIDE DEF item, p
  <2> QED  BY <2>1, ItemPendingFacts
<1>2. update_item(c, owner, item, items) = Put(c, owner, item, p, refused, items)
    BY DEF update_item
<1>3. owner # Opening
    BY BillAllocationAssumption DEF Loop
<1>4. item.ref_type \in {"NEW", "ADJ", "ON_ACC"}
    BY <1>1 DEF ItemOf
<1>5. ~refused => (p = None <=> item.ref_type = "ON_ACC")
    BY <1>1, <1>4 DEF NeedsPending
<1>6. refused \in BOOLEAN
    BY DEF NeedsPending
<1> HIDE DEF item, p, refused
<1>7. Going(Put(c, owner, item, p, refused, items), c0, owner, own, free)
    BY <1>1, <1>3, <1>5, <1>6, PutGoing
<1> QED  BY <1>2, <1>7 DEF item

\* And one of set_account_opening, which may change the ref_type of a row of
\* the opening and takes over the p_id of an earlier item.
LEMMA OpeningItemGoing ==
    ASSUME NEW c0, NEW own, NEW free, NEW items,
           Loop(c0, Opening, own, free, items),
           NEW c, Going(c, c0, Opening, own, free), NEW k \in DOMAIN items
    PROVE  Going(opening_item(c, items[k], items), c0, Opening, own, free)
<1> DEFINE item == items[k]
           g == ItemPending(c, item, items)
           p == IF item.ref_type # "NEW" THEN c.p_id ELSE g
           refused == \/ item.ref_type = "ADJ"
                      \/ item.ref_type = "ON_ACC" /\ item.pending # None
                      \/ NeedsPending(item, p)
           n == opening_item(c, item, items)
<1>1. /\ item \in ItemOf(own) /\ g \in Pendings \cup {None}
      /\ ~c.raised => \A j \in free : g # c0.bill[j].pending
  <2>1. item = items[k] /\ g = ItemPending(c, item, items)
      OBVIOUS
  <2> HIDE DEF item, g
  <2> QED  BY <2>1, ItemPendingFacts
<1>2. c \in Calls /\ c.p_id \in Pendings \cup {None} /\ c.raised \in BOOLEAN
    BY CallFacts DEF Going
<1>3. p \in Pendings \cup {None}
    BY <1>1, <1>2
<1>4. ~c.raised => \A j \in free : p # c0.bill[j].pending
    BY <1>1 DEF Going
<1>5. refused \in BOOLEAN /\ (~refused => item.ref_type # "ADJ")
    BY DEF NeedsPending
<1>6. item.id \in own \cup {None} /\ item.ref_type \in {"NEW", "ADJ", "ON_ACC"}
    BY <1>1 DEF ItemOf
<1>7. CASE item.id \notin DOMAIN c.bill
  <2>1. n = Put(c, Opening, item, p, refused, items)
      BY <1>7 DEF opening_item
  <2> HIDE DEF item, p, refused, n
  <2>2. Going(Put(c, Opening, item, p, refused, items), c0, Opening, own, free)
      BY <1>1, <1>3, <1>4, <1>5, PutGoing
  <2> QED  BY <2>1, <2>2 DEF n, item
<1>8. CASE item.id \in DOMAIN c.bill
  <2> DEFINE i == item.id
             r == [owner |-> c.bill[i].owner, ref_type |-> item.ref_type, pending |-> c.bill[i].pending]
             w == With(c.bill, i, r)
  <2>1. n = [bill |-> w, p_id |-> p, raised |-> c.raised \/ refused]
      BY <1>8 DEF opening_item
  <2>2. i \in DOMAIN c.bill /\ i \in own \cup {None}
      BY <1>6, <1>8
  <2>3. /\ DOMAIN c.bill \subseteq BillIds \cup {None}
        /\ c.bill[i].owner \in Vouchers \cup {Opening} /\ c.bill[i].pending \in Pendings \cup {None}
    <3> HIDE DEF i
    <3> QED  BY <1>2, <2>2, CallFacts
  <2>4. r \in Allocation
      BY <1>6, <2>3 DEF Allocation, RefTypes
  <2>5. r.owner = c.bill[i].owner /\ r.ref_type = item.ref_type /\ r.pending = c.bill[i].pending
      OBVIOUS
  <2> HIDE DEF i, r
  <2>6. w \in TableOf(BillIds \cup {None}, Allocation) /\ Written(w, c.bill, i, r)
    <3>1. c.bill \in TableOf(BillIds \cup {None}, Allocation) /\ i \in BillIds \cup {None}
        BY <1>2, <2>2, <2>3 DEF Calls
    <3> QED  BY <2>4, <3>1, BillWith
  <2> HIDE DEF w, n, p, refused, item
  <2>7. n.bill = w /\ n.p_id = p /\ n.raised = (c.raised \/ refused)
      BY <2>1
  <2>8. n \in Calls
      BY <1>2, <1>3, <1>5, <2>1, <2>6 DEF Calls
  <2>9. ASSUME ~n.raised
        PROVE  /\ Written(n.bill, c.bill, i, r)
               /\ i \in BillIds /\ i \notin free
               /\ r.owner = Opening
               /\ Opening = Opening => r.ref_type # "ADJ"
               /\ Opening # Opening => (r.pending = None <=> r.ref_type = "ON_ACC")
               /\ \A j \in free : /\ r.pending # c0.bill[j].pending
                                  /\ n.p_id # c0.bill[j].pending
    <3>1. ~c.raised /\ ~refused /\ ~c0.raised
        BY <2>7, <2>9 DEF Going
    <3>2. /\ DOMAIN c.bill \subseteq BillIds
          /\ \A x \in own \cap DOMAIN c.bill : c.bill[x].owner = Opening
          /\ \A j \in free : \A x \in DOMAIN c.bill \ {j} : c.bill[x].pending # c0.bill[j].pending
        BY <3>1 DEF Going
    <3>3. free \cap own = {} /\ None \notin BillIds
        BY <3>1, BillAllocationAssumption DEF Loop
    <3>4. i \in BillIds /\ i \in own /\ i \notin free
        BY <2>2, <3>2, <3>3
    <3> QED  BY <1>4, <1>5, <2>2, <2>5, <2>6, <2>7, <3>1, <3>2, <3>4
  <2>10. Going(n, c0, Opening, own, free)
    <3> DEFINE owner == Opening
    <3>1. /\ Loop(c0, owner, own, free, items) /\ Going(c, c0, owner, own, free)
          /\ c.raised => n.raised
          /\ ~n.raised =>
               /\ Written(n.bill, c.bill, i, r)
               /\ i \in BillIds /\ i \notin free
               /\ r.owner = owner
               /\ owner = Opening => r.ref_type # "ADJ"
               /\ owner # Opening => (r.pending = None <=> r.ref_type = "ON_ACC")
               /\ \A j \in free : /\ r.pending # c0.bill[j].pending
                                  /\ n.p_id # c0.bill[j].pending
        BY <2>7, <2>9
    <3>2. owner = Opening
        OBVIOUS
    <3> HIDE DEF owner
    <3>3. Going(n, c0, owner, own, free)
        BY <2>4, <2>8, <3>1, WriteGoing
    <3> QED  BY <3>2, <3>3
  <2> QED  BY <2>10 DEF n, item
<1> QED  BY <1>7, <1>8

-----------------------------------------------------------------------------
(* What the loops compute: the folds over a sequence take the last item    *)
(* last.                                                                   *)

\* The largest of some positions is one of them.
LEMMA MaxIn == \A n \in Nat : \A s \in SUBSET (1..n) : s # {} => Max(s) \in s
<1> DEFINE Z == {n \in Nat : \A s \in SUBSET (1..n) :
                     s # {} => \E x \in s : \A y \in s : x >= y}
<1>1. 0 \in Z
  <2>1. 1..0 = {}
      OBVIOUS
  <2> QED  BY <2>1
<1>2. ASSUME NEW n \in Nat, n \in Z PROVE n + 1 \in Z
  <2> SUFFICES ASSUME NEW s \in SUBSET (1..n + 1), s # {}
               PROVE  \E x \in s : \A y \in s : x >= y
      OBVIOUS
  <2>1. CASE n + 1 \in s
      BY <2>1
  <2>2. CASE n + 1 \notin s
    <3>1. s \in SUBSET (1..n)
        BY <2>2
    <3> QED  BY <1>2, <3>1
  <2> QED  BY <2>1, <2>2
<1>3. Nat \subseteq Z
  <2> HIDE DEF Z
  <2> QED  BY <1>1, <1>2, NatSet
<1>4. ASSUME NEW n \in Nat, NEW s \in SUBSET (1..n), s # {} PROVE Max(s) \in s
  <2>1. \E x \in s : \A y \in s : x >= y
      BY <1>3, <1>4
  <2> QED  BY <2>1 DEF Max
<1> QED  BY <1>4

\* The positions of a sequence, and the last one of some of them.
LastOf(items) == [s \in SUBSET DOMAIN items |-> Max(s)]

\* There are finitely many, and the last one of some is one of them.
LEMMA Positions ==
    ASSUME NEW own, NEW items \in Seq(ItemOf(own))
    PROVE  /\ IsFiniteSet(DOMAIN items) /\ Picks(LastOf(items), DOMAIN items)
           /\ \A s \in SUBSET DOMAIN items : LastOf(items)[s] = Max(s)
<1>1. Len(items) \in Nat /\ DOMAIN items = 1..Len(items)
    OBVIOUS
<1>2. IsFiniteSet(DOMAIN items)
    BY <1>1, FS_Interval
<1>3. \A s \in SUBSET DOMAIN items : LastOf(items)[s] = Max(s)
    BY DEF LastOf
<1>4. Picks(LastOf(items), DOMAIN items)
    BY <1>1, <1>3, MaxIn DEF Picks
<1> QED  BY <1>2, <1>3, <1>4

\* A fold stays where its base is and its steps stay.
LEMMA FoldStays ==
    ASSUME NEW S, IsFiniteSet(S), NEW pick, Picks(pick, S), NEW T, NEW base \in T, NEW f,
           \A s \in SUBSET S : s = {} => f[s] = base,
           \A s \in SUBSET S : s # {} /\ f[s \ {pick[s]}] \in T => f[s] \in T
    PROVE  f[S] \in T
<1> DEFINE Z == {s \in SUBSET S : f[s] \in T}
<1>1. {} \in Z
    OBVIOUS
<1>2. \A s \in SUBSET S : s # {} /\ s \ {pick[s]} \in Z => s \in Z
    OBVIOUS
<1>3. SUBSET S \subseteq Z
  <2> HIDE DEF Z
  <2> QED  BY <1>1, <1>2, FoldInductionBy
<1> QED  BY <1>3

\* The recursive function in insert_bill_allocation.
InsertRec(base, owner, items) ==
    CHOOSE f : f = [s \in SUBSET DOMAIN items |->
                       IF s = {} THEN base
                       ELSE insert_item(f[s \ {Max(s)}], owner, items[Max(s)], items)]

\* The whole of its loop keeps Going.
LEMMA InsertLoop ==
    ASSUME NEW c0, NEW owner \in Vouchers, NEW own, NEW free, NEW items,
           Loop(c0, owner, own, free, items), Going(c0, c0, owner, own, free)
    PROVE  Going(InsertRec(c0, owner, items)[DOMAIN items], c0, owner, own, free)
<1> DEFINE S == DOMAIN items
           pick == LastOf(items)
           T == {c \in Calls : Going(c, c0, owner, own, free)}
           F == [q \in S \X T |-> insert_item(q[2], owner, items[q[1]], items)]
           f == InsertRec(c0, owner, items)
<1>1. IsFiniteSet(S) /\ Picks(pick, S) /\ \A s \in SUBSET S : pick[s] = Max(s)
    BY Positions DEF Loop
<1>2. ASSUME NEW k \in S, NEW c \in T PROVE insert_item(c, owner, items[k], items) \in T
  <2> DEFINE n == insert_item(c, owner, items[k], items)
  <2>1. Going(n, c0, owner, own, free)
      BY InsertItemGoing
  <2> HIDE DEF n
  <2>2. n \in T
      BY <2>1 DEF Going
  <2> QED  BY <2>2 DEF n
<1>3. F \in [S \X T -> T] /\ \A k \in S, c \in T : F[<<k, c>>] = insert_item(c, owner, items[k], items)
    BY <1>2
<1>4. c0 \in T
    BY DEF Loop
<1> HIDE DEF S, pick, T, F
<1>5. PICK g \in [SUBSET S -> T] : IsFoldBy(g, S, pick, c0, F)
    BY <1>1, <1>3, <1>4, FoldExistsBy
<1>6. ASSUME NEW s \in SUBSET S
      PROVE  g[s] = IF s = {} THEN c0
                    ELSE insert_item(g[s \ {Max(s)}], owner, items[Max(s)], items)
  <2>1. CASE s = {}
      BY <1>5, <2>1 DEF IsFoldBy
  <2>2. CASE s # {}
    <3>1. pick[s] \in S /\ pick[s] = Max(s) /\ g[s \ {pick[s]}] \in T
        BY <1>1, <1>5, <2>2 DEF Picks
    <3>2. g[s] = F[<<pick[s], g[s \ {pick[s]}]>>]
        BY <1>5, <2>2 DEF IsFoldBy
    <3> QED  BY <1>3, <2>2, <3>1, <3>2
  <2> QED  BY <2>1, <2>2
<1>7. g = [s \in SUBSET S |->
             IF s = {} THEN c0 ELSE insert_item(g[s \ {Max(s)}], owner, items[Max(s)], items)]
    BY <1>5, <1>6
<1>8. f = [s \in SUBSET S |->
             IF s = {} THEN c0 ELSE insert_item(f[s \ {Max(s)}], owner, items[Max(s)], items)]
    BY <1>7 DEF InsertRec, S
<1> HIDE DEF f
<1>9. \A s \in SUBSET S : s = {} => f[s] = c0
    BY <1>8
<1>10. ASSUME NEW s \in SUBSET S, s # {}, f[s \ {pick[s]}] \in T PROVE f[s] \in T
  <2>1. pick[s] \in S /\ pick[s] = Max(s)
      BY <1>1, <1>10 DEF Picks
  <2>2. f[s] = insert_item(f[s \ {pick[s]}], owner, items[pick[s]], items)
      BY <1>8, <1>10, <2>1
  <2> QED  BY <1>2, <1>10, <2>1, <2>2
<1>11. f[S] \in T
    BY <1>1, <1>4, <1>9, <1>10, FoldStays
<1> QED  BY <1>11 DEF f, S, T

\* The recursive function in update_bill_allocation.
UpdateRec(base, owner, items) ==
    CHOOSE f : f = [s \in SUBSET DOMAIN items |->
                       IF s = {} THEN base
                       ELSE update_item(f[s \ {Max(s)}], owner, items[Max(s)], items)]

\* The whole of its loop keeps Going.
LEMMA UpdateLoop ==
    ASSUME NEW c0, NEW owner \in Vouchers, NEW own, NEW free, NEW items,
           Loop(c0, owner, own, free, items), Going(c0, c0, owner, own, free)
    PROVE  Going(UpdateRec(c0, owner, items)[DOMAIN items], c0, owner, own, free)
<1> DEFINE S == DOMAIN items
           pick == LastOf(items)
           T == {c \in Calls : Going(c, c0, owner, own, free)}
           F == [q \in S \X T |-> update_item(q[2], owner, items[q[1]], items)]
           f == UpdateRec(c0, owner, items)
<1>1. IsFiniteSet(S) /\ Picks(pick, S) /\ \A s \in SUBSET S : pick[s] = Max(s)
    BY Positions DEF Loop
<1>2. ASSUME NEW k \in S, NEW c \in T PROVE update_item(c, owner, items[k], items) \in T
  <2> DEFINE n == update_item(c, owner, items[k], items)
  <2>1. Going(n, c0, owner, own, free)
      BY UpdateItemGoing
  <2> HIDE DEF n
  <2>2. n \in T
      BY <2>1 DEF Going
  <2> QED  BY <2>2 DEF n
<1>3. F \in [S \X T -> T] /\ \A k \in S, c \in T : F[<<k, c>>] = update_item(c, owner, items[k], items)
    BY <1>2
<1>4. c0 \in T
    BY DEF Loop
<1> HIDE DEF S, pick, T, F
<1>5. PICK g \in [SUBSET S -> T] : IsFoldBy(g, S, pick, c0, F)
    BY <1>1, <1>3, <1>4, FoldExistsBy
<1>6. ASSUME NEW s \in SUBSET S
      PROVE  g[s] = IF s = {} THEN c0
                    ELSE update_item(g[s \ {Max(s)}], owner, items[Max(s)], items)
  <2>1. CASE s = {}
      BY <1>5, <2>1 DEF IsFoldBy
  <2>2. CASE s # {}
    <3>1. pick[s] \in S /\ pick[s] = Max(s) /\ g[s \ {pick[s]}] \in T
        BY <1>1, <1>5, <2>2 DEF Picks
    <3>2. g[s] = F[<<pick[s], g[s \ {pick[s]}]>>]
        BY <1>5, <2>2 DEF IsFoldBy
    <3> QED  BY <1>3, <2>2, <3>1, <3>2
  <2> QED  BY <2>1, <2>2
<1>7. g = [s \in SUBSET S |->
             IF s = {} THEN c0 ELSE update_item(g[s \ {Max(s)}], owner, items[Max(s)], items)]
    BY <1>5, <1>6
<1>8. f = [s \in SUBSET S |->
             IF s = {} THEN c0 ELSE update_item(f[s \ {Max(s)}], owner, items[Max(s)], items)]
    BY <1>7 DEF UpdateRec, S
<1> HIDE DEF f
<1>9. \A s \in SUBSET S : s = {} => f[s] = c0
    BY <1>8
<1>10. ASSUME NEW s \in SUBSET S, s # {}, f[s \ {pick[s]}] \in T PROVE f[s] \in T
  <2>1. pick[s] \in S /\ pick[s] = Max(s)
      BY <1>1, <1>10 DEF Picks
  <2>2. f[s] = update_item(f[s \ {pick[s]}], owner, items[pick[s]], items)
      BY <1>8, <1>10, <2>1
  <2> QED  BY <1>2, <1>10, <2>1, <2>2
<1>11. f[S] \in T
    BY <1>1, <1>4, <1>9, <1>10, FoldStays
<1> QED  BY <1>11 DEF f, S, T

\* The recursive function in opening_allocations.
OpeningRec(base, items) ==
    CHOOSE f : f = [s \in SUBSET DOMAIN items |->
                       IF s = {} THEN base
                       ELSE opening_item(f[s \ {Max(s)}], items[Max(s)], items)]

\* The whole of its loop keeps Going.
LEMMA OpeningLoop ==
    ASSUME NEW c0, NEW own, NEW free, NEW items,
           Loop(c0, Opening, own, free, items), Going(c0, c0, Opening, own, free)
    PROVE  Going(OpeningRec(c0, items)[DOMAIN items], c0, Opening, own, free)
<1> DEFINE S == DOMAIN items
           pick == LastOf(items)
           T == {c \in Calls : Going(c, c0, Opening, own, free)}
           F == [q \in S \X T |-> opening_item(q[2], items[q[1]], items)]
           f == OpeningRec(c0, items)
<1>1. IsFiniteSet(S) /\ Picks(pick, S) /\ \A s \in SUBSET S : pick[s] = Max(s)
    BY Positions DEF Loop
<1>2. ASSUME NEW k \in S, NEW c \in T PROVE opening_item(c, items[k], items) \in T
  <2> DEFINE n == opening_item(c, items[k], items)
  <2>1. Going(n, c0, Opening, own, free)
      BY OpeningItemGoing
  <2> HIDE DEF n
  <2>2. n \in T
      BY <2>1 DEF Going
  <2> QED  BY <2>2 DEF n
<1>3. F \in [S \X T -> T] /\ \A k \in S, c \in T : F[<<k, c>>] = opening_item(c, items[k], items)
    BY <1>2
<1>4. c0 \in T
    BY DEF Loop
<1> HIDE DEF S, pick, T, F
<1>5. PICK g \in [SUBSET S -> T] : IsFoldBy(g, S, pick, c0, F)
    BY <1>1, <1>3, <1>4, FoldExistsBy
<1>6. ASSUME NEW s \in SUBSET S
      PROVE  g[s] = IF s = {} THEN c0 ELSE opening_item(g[s \ {Max(s)}], items[Max(s)], items)
  <2>1. CASE s = {}
      BY <1>5, <2>1 DEF IsFoldBy
  <2>2. CASE s # {}
    <3>1. pick[s] \in S /\ pick[s] = Max(s) /\ g[s \ {pick[s]}] \in T
        BY <1>1, <1>5, <2>2 DEF Picks
    <3>2. g[s] = F[<<pick[s], g[s \ {pick[s]}]>>]
        BY <1>5, <2>2 DEF IsFoldBy
    <3> QED  BY <1>3, <2>2, <3>1, <3>2
  <2> QED  BY <2>1, <2>2
<1>7. g = [s \in SUBSET S |->
             IF s = {} THEN c0 ELSE opening_item(g[s \ {Max(s)}], items[Max(s)], items)]
    BY <1>5, <1>6
<1>8. f = [s \in SUBSET S |->
             IF s = {} THEN c0 ELSE opening_item(f[s \ {Max(s)}], items[Max(s)], items)]
    BY <1>7 DEF OpeningRec, S
<1> HIDE DEF f
<1>9. \A s \in SUBSET S : s = {} => f[s] = c0
    BY <1>8
<1>10. ASSUME NEW s \in SUBSET S, s # {}, f[s \ {pick[s]}] \in T PROVE f[s] \in T
  <2>1. pick[s] \in S /\ pick[s] = Max(s)
      BY <1>1, <1>10 DEF Picks
  <2>2. f[s] = opening_item(f[s \ {pick[s]}], items[pick[s]], items)
      BY <1>8, <1>10, <2>1
  <2> QED  BY <1>2, <1>10, <2>1, <2>2
<1>11. f[S] \in T
    BY <1>1, <1>4, <1>9, <1>10, FoldStays
<1> QED  BY <1>11 DEF f, S, T

-----------------------------------------------------------------------------
(* The calls. *)

\* What a document sends is a sequence of its items.
LEMMA ItemsSeq ==
    ASSUME NEW owner, NEW items \in Items(owner)
    PROVE  items \in Seq(ItemOf(Owned(bill_allocation, owner)))
<1> DEFINE I == ItemOf(Owned(bill_allocation, owner))
<1>1. PICK n \in 0..MaxItems : items \in [1..n -> I]
    BY DEF Items, ItemOf, RefTypes
<1>2. n \in Nat
    BY BillAllocationAssumption
<1> HIDE DEF I
<1>3. items \in Seq(I)
    BY <1>1, <1>2
<1> QED  BY <1>3 DEF I

\* A table between two calls.
Book(b) == b \in TableOf(BillIds, Allocation) /\ IsFiniteSet(DOMAIN b) /\ Fits(b)

\* Its rows.
LEMMA BookFacts ==
    ASSUME NEW b, Book(b)
    PROVE  /\ DOMAIN b \subseteq BillIds /\ b \in [DOMAIN b -> Allocation]
           /\ \A i \in DOMAIN b : /\ b[i].owner \in Vouchers \cup {Opening}
                                  /\ b[i].ref_type \in {"NEW", "ADJ", "ON_ACC"}
                                  /\ b[i].pending \in Pendings \cup {None}
<1>1. DOMAIN b \subseteq BillIds /\ b \in [DOMAIN b -> Allocation]
    BY TableDef DEF Book
<1>2. \A i \in DOMAIN b : b[i] \in Allocation
    BY <1>1
<1> QED  BY <1>1, <1>2 DEF Allocation, RefTypes

\* insert_bill_allocation starts from the table as it is.
LEMMA StartGoing ==
    ASSUME NEW b, Book(b), NEW owner \in Vouchers \cup {Opening},
           NEW items \in Seq(ItemOf(Owned(b, owner))), NEW c0, c0 = Start(b)
    PROVE  /\ Loop(c0, owner, Owned(b, owner), {}, items)
           /\ Going(c0, c0, owner, Owned(b, owner), {})
           /\ DOMAIN c0.bill = DOMAIN b
<1>1. DOMAIN b \subseteq BillIds /\ b \in [DOMAIN b -> Allocation]
    BY BookFacts
<1>2. c0 = [bill |-> b, p_id |-> None, raised |-> FALSE]
    BY DEF Start
<1>3. b \in TableOf(BillIds \cup {None}, Allocation)
  <2>1. DOMAIN b \subseteq BillIds \cup {None}
      BY <1>1
  <2> QED  BY <1>1, <2>1, TableDef
<1>4. c0 \in Calls /\ c0.bill = b /\ c0.raised = FALSE
    BY <1>2, <1>3 DEF Calls
<1>5. Owned(b, owner) \subseteq BillIds /\ \A i \in Owned(b, owner) : b[i].owner = owner
    BY <1>1 DEF Owned
<1>6. IsFiniteSet(DOMAIN b) /\ Fits(b)
    BY DEF Book
<1>7. Loop(c0, owner, Owned(b, owner), {}, items)
    BY <1>4, <1>5 DEF Loop
<1>8. Going(c0, c0, owner, Owned(b, owner), {})
    BY <1>1, <1>4, <1>5, <1>6 DEF Going
<1> QED  BY <1>4, <1>7, <1>8

\* The others start from what the trigger leaves when rows of the document go.
LEMMA TriggerGoing ==
    ASSUME NEW b, Book(b), NEW owner \in Vouchers \cup {Opening},
           NEW items \in Seq(ItemOf(Owned(b, owner))),
           NEW deleted \in SUBSET Owned(b, owner),
           NEW free, free = Adjusters(b, deleted) \ Owned(b, owner),
           NEW c0, c0 = tgf_del_on_bill_allc(b, deleted, items)
    PROVE  /\ Loop(c0, owner, Owned(b, owner), free, items)
           /\ Going(c0, c0, owner, Owned(b, owner), free)
           /\ DOMAIN c0.bill = DOMAIN b \ deleted
           /\ ~c0.raised => \A j \in free : c0.bill[j].ref_type = "NEW"
<1> DEFINE kept == Restrict(b, DOMAIN b \ deleted)
           S == Adjusters(b, deleted)
           own == Owned(b, owner)
<1>1. /\ DOMAIN b \subseteq BillIds /\ b \in [DOMAIN b -> Allocation]
      /\ \A i \in DOMAIN b : b[i].owner \in Vouchers \cup {Opening}
    BY BookFacts
<1>2. FreedUpto(c0, kept, S, items)
    BY TriggerFrees DEF Book
<1>3. DOMAIN kept = DOMAIN b \ deleted /\ \A i \in DOMAIN kept : kept[i] = b[i]
    BY DEF Restrict
<1>4. S \subseteq DOMAIN kept /\ \A i \in S : b[i].ref_type = "ADJ"
    BY <1>3 DEF Adjusters
<1>5. own \subseteq BillIds /\ own \subseteq DOMAIN b /\ \A i \in own : b[i].owner = owner
    BY <1>1 DEF Owned
<1>6. free \subseteq S /\ free \cap own = {} /\ items \in Seq(ItemOf(own))
    OBVIOUS
<1> HIDE DEF kept, S, own
<1>7. c0 \in Calls /\ c0.p_id = None /\ DOMAIN c0.bill = DOMAIN kept
    BY <1>2 DEF FreedUpto
<1>8. ~c0.raised =>
         /\ \A k \in DOMAIN kept \ S : c0.bill[k] = b[k]
         /\ \A k \in S :
               /\ c0.bill[k].owner = b[k].owner /\ c0.bill[k].ref_type = "NEW"
               /\ c0.bill[k].pending \notin Named(items, "pending") \cup {None}
               /\ \A m \in DOMAIN kept \ {k} : c0.bill[m].pending # c0.bill[k].pending
    BY <1>2, <1>3, <1>4 DEF FreedUpto
<1>9. Loop(c0, owner, own, free, items)
    BY <1>4, <1>5, <1>6, <1>7, <1>8 DEF Loop
<1>10. ASSUME ~c0.raised
       PROVE  /\ DOMAIN c0.bill \subseteq BillIds /\ IsFiniteSet(DOMAIN c0.bill)
              /\ Fits(c0.bill)
              /\ \A i \in own \cap DOMAIN c0.bill : c0.bill[i].owner = owner
              /\ \A j \in free :
                    /\ c0.p_id # c0.bill[j].pending
                    /\ \A k \in DOMAIN c0.bill \ {j} : c0.bill[k].pending # c0.bill[j].pending
  <2>1. IsFiniteSet(DOMAIN c0.bill)
    <3>1. DOMAIN c0.bill \subseteq DOMAIN b /\ IsFiniteSet(DOMAIN b)
        BY <1>3, <1>7 DEF Book
    <3> QED  BY <3>1, FS_Subset
  <2>2. \A i \in DOMAIN c0.bill : c0.bill[i].owner = b[i].owner
      BY <1>7, <1>8, <1>10
  <2>3. ASSUME NEW i \in DOMAIN c0.bill
        PROVE  /\ c0.bill[i].owner = Opening => c0.bill[i].ref_type # "ADJ"
               /\ c0.bill[i].owner # Opening => (c0.bill[i].pending = None <=> c0.bill[i].ref_type = "ON_ACC")
    <3>1. i \in DOMAIN b
        BY <1>3, <1>7
    <3>2. CASE i \in S
        BY <1>8, <1>10, <3>2
    <3>3. CASE i \notin S
        BY <1>7, <1>8, <1>10, <3>1, <3>3 DEF Book, Fits
    <3> QED  BY <3>2, <3>3
  <2>4. Fits(c0.bill)
      BY <2>3 DEF Fits
  <2>5. DOMAIN c0.bill \subseteq BillIds
      BY <1>1, <1>3, <1>7
  <2>6. \A i \in own \cap DOMAIN c0.bill : c0.bill[i].owner = owner
      BY <1>5, <2>2
  <2>7. ASSUME NEW j \in free
        PROVE  /\ c0.p_id # c0.bill[j].pending
               /\ \A k \in DOMAIN c0.bill \ {j} : c0.bill[k].pending # c0.bill[j].pending
      BY <1>6, <1>7, <1>8, <1>10
  <2> QED  BY <2>1, <2>4, <2>5, <2>6, <2>7
<1>11. Going(c0, c0, owner, own, free)
    BY <1>7, <1>10 DEF Going
<1>12. ~c0.raised => \A j \in free : c0.bill[j].ref_type = "NEW"
    BY <1>6, <1>8
<1> QED  BY <1>3, <1>7, <1>9, <1>11, <1>12 DEF own

\* The step that AdjustersAreFreed asks for.
FreedIn(b, n) ==
    \A i \in DOMAIN b \ DOMAIN n :
        b[i].ref_type = "NEW" =>
          \A j \in DOMAIN b \cap DOMAIN n :
             b[j].ref_type = "ADJ" /\ b[j].pending = b[i].pending /\ b[j].owner # b[i].owner
             => /\ n[j].ref_type = "NEW"
                /\ \A k \in DOMAIN n \ {j} : n[k].pending # n[j].pending

\* What a call that did not raise leaves, if it deleted these rows.
LEMMA CallEffect ==
    ASSUME NEW b, Book(b), NEW owner \in Vouchers \cup {Opening},
           NEW deleted \in SUBSET Owned(b, owner),
           NEW free, free = Adjusters(b, deleted) \ Owned(b, owner),
           NEW c0, DOMAIN c0.bill = DOMAIN b \ deleted,
           ~c0.raised => \A j \in free : c0.bill[j].ref_type = "NEW",
           NEW c, Going(c, c0, owner, Owned(b, owner), free), ~c.raised
    PROVE  Book(c.bill) /\ FreedIn(b, c.bill)
<1>1. /\ c \in Calls /\ ~c0.raised
      /\ DOMAIN c0.bill \subseteq DOMAIN c.bill /\ DOMAIN c.bill \subseteq BillIds
      /\ IsFiniteSet(DOMAIN c.bill) /\ Fits(c.bill)
      /\ \A j \in free :
            /\ c.bill[j] = c0.bill[j]
            /\ \A k \in DOMAIN c.bill \ {j} : c.bill[k].pending # c0.bill[j].pending
    BY DEF Going
<1>2. Book(c.bill)
  <2>1. c.bill \in [DOMAIN c.bill -> Allocation]
      BY <1>1, CallFacts
  <2>2. c.bill \in TableOf(BillIds, Allocation)
      BY <1>1, <2>1, TableDef
  <2> QED  BY <1>1, <2>2 DEF Book
<1>3. ASSUME NEW i \in DOMAIN b \ DOMAIN c.bill, b[i].ref_type = "NEW",
             NEW j \in DOMAIN b \cap DOMAIN c.bill,
             b[j].ref_type = "ADJ", b[j].pending = b[i].pending, b[j].owner # b[i].owner
      PROVE  /\ c.bill[j].ref_type = "NEW"
             /\ \A k \in DOMAIN c.bill \ {j} : c.bill[k].pending # c.bill[j].pending
  <2>1. i \in deleted
      BY <1>1
  <2>2. b[i].owner = owner
      BY <2>1 DEF Owned
  <2>3. j \notin Owned(b, owner)
      BY <1>3, <2>2 DEF Owned
  <2>4. b[j].pending # None
      BY <1>3 DEF Book, Fits
  <2>5. j \in Adjusters(b, deleted)
      BY <1>3, <2>1, <2>3, <2>4 DEF Adjusters
  <2>6. j \in free
      BY <2>3, <2>5
  <2> QED  BY <1>1, <2>6
<1> QED  BY <1>2, <1>3 DEF FreedIn

\* The inductive invariant of the bills.
BillInv == BillTypeOK /\ Book(bill_allocation)

\* What each call does to the table.
BillStep == Book(bill_allocation') /\ FreedIn(bill_allocation, bill_allocation')

\* create_voucher deletes nothing.
LEMMA CreateBillStep ==
    ASSUME Book(bill_allocation), NEW v \in Vouchers,
           NEW items \in Items(v), CreateBills(v, items)
    PROVE  BillStep
<1> DEFINE b == bill_allocation
           c0 == Start(b)
           c == InsertRec(c0, v, items)[DOMAIN items]
           own == Owned(b, v)
<1>1. insert_bill_allocation(b, v, items) = c
    BY DEF insert_bill_allocation, FoldLeft, MapThenFoldSet, InsertRec
<1>2. ~c.raised /\ bill_allocation' = c.bill
    BY <1>1 DEF CreateBills, StoreBills
<1>3. items \in Seq(ItemOf(own)) /\ Book(b)
    BY ItemsSeq
<1>4. /\ Loop(c0, v, own, {}, items) /\ Going(c0, c0, v, own, {})
      /\ DOMAIN c0.bill = DOMAIN b
  <2>1. c0 = Start(b) /\ v \in Vouchers \cup {Opening}
      OBVIOUS
  <2> HIDE DEF c0, b
  <2> QED  BY <1>3, <2>1, StartGoing
<1> HIDE DEF c0, own
<1>5. Going(c, c0, v, own, {})
    BY <1>4, InsertLoop
<1> HIDE DEF c, b
<1>6. Book(c.bill) /\ FreedIn(b, c.bill)
  <2> DEFINE deleted == {}
             free == Adjusters(b, deleted) \ own
  <2>1. free = {}
      BY DEF Adjusters
  <2>2. /\ deleted \in SUBSET Owned(b, v) /\ DOMAIN c0.bill = DOMAIN b \ deleted
        /\ \A j \in free : c0.bill[j].ref_type = "NEW"
        /\ Going(c, c0, v, Owned(b, v), free)
        /\ free = Adjusters(b, deleted) \ Owned(b, v)
      BY <1>4, <1>5, <2>1 DEF own
  <2>3. v \in Vouchers \cup {Opening}
      OBVIOUS
  <2> HIDE DEF deleted, free
  <2> QED  BY <1>2, <1>3, <2>2, <2>3, CallEffect
<1> QED  BY <1>2, <1>6 DEF BillStep, b

\* update_voucher deletes what the items do not name.
LEMMA UpdateBillStep ==
    ASSUME Book(bill_allocation), NEW v \in Vouchers,
           NEW items \in Items(v), UpdateBills(v, items)
    PROVE  BillStep
<1> DEFINE b == bill_allocation
           deleted == Missed(b, v, items)
           free == Adjusters(b, deleted) \ Owned(b, v)
           c0 == tgf_del_on_bill_allc(b, deleted, items)
           c == UpdateRec(c0, v, items)[DOMAIN items]
<1>1. update_bill_allocation(b, v, items) = c
    BY DEF update_bill_allocation, FoldLeft, MapThenFoldSet, UpdateRec
<1>2. ~c.raised /\ bill_allocation' = c.bill
    BY <1>1 DEF UpdateBills, StoreBills
<1>3. items \in Seq(ItemOf(Owned(b, v))) /\ Book(b) /\ v \in Vouchers \cup {Opening}
    BY ItemsSeq
<1>4. deleted \in SUBSET Owned(b, v)
    BY DEF Missed
<1>5. /\ free = Adjusters(b, deleted) \ Owned(b, v)
      /\ c0 = tgf_del_on_bill_allc(b, deleted, items)
    OBVIOUS
<1> HIDE DEF free, c0, deleted, b
<1>6. /\ Loop(c0, v, Owned(b, v), free, items)
      /\ Going(c0, c0, v, Owned(b, v), free)
      /\ DOMAIN c0.bill = DOMAIN b \ deleted
      /\ ~c0.raised => \A j \in free : c0.bill[j].ref_type = "NEW"
    BY <1>3, <1>4, <1>5, TriggerGoing
<1>7. Going(c, c0, v, Owned(b, v), free)
    BY <1>6, UpdateLoop
<1> HIDE DEF c
<1>8. Book(c.bill) /\ FreedIn(b, c.bill)
    BY <1>2, <1>3, <1>4, <1>5, <1>6, <1>7, CallEffect
<1> QED  BY <1>2, <1>8 DEF BillStep, b

\* set_account_opening does the same with the opening's.
LEMMA OpeningBillStep ==
    ASSUME Book(bill_allocation),
           NEW items \in Items(Opening), SetAccountOpening(items)
    PROVE  BillStep
<1> DEFINE b == bill_allocation
           o == Opening
           deleted == Missed(b, o, items)
           free == Adjusters(b, deleted) \ Owned(b, o)
           c0 == tgf_del_on_bill_allc(b, deleted, items)
           c == OpeningRec(c0, items)[DOMAIN items]
<1>1. opening_allocations(b, items) = c
    BY DEF opening_allocations, FoldLeft, MapThenFoldSet, OpeningRec
<1>2. ~c.raised /\ bill_allocation' = c.bill
    BY <1>1 DEF SetAccountOpening, StoreBills
<1>3. items \in Seq(ItemOf(Owned(b, o))) /\ Book(b) /\ o \in Vouchers \cup {Opening}
    BY ItemsSeq
<1>4. deleted \in SUBSET Owned(b, o)
    BY DEF Missed
<1>5. /\ free = Adjusters(b, deleted) \ Owned(b, o)
      /\ c0 = tgf_del_on_bill_allc(b, deleted, items)
    OBVIOUS
<1>6. o = Opening
    OBVIOUS
<1> HIDE DEF free, c0, deleted, b, o
<1>7. /\ Loop(c0, o, Owned(b, o), free, items)
      /\ Going(c0, c0, o, Owned(b, o), free)
      /\ DOMAIN c0.bill = DOMAIN b \ deleted
      /\ ~c0.raised => \A j \in free : c0.bill[j].ref_type = "NEW"
    BY <1>3, <1>4, <1>5, TriggerGoing
<1>8. Going(c, c0, o, Owned(b, o), free)
    BY <1>7, <1>6, OpeningLoop
<1> HIDE DEF c
<1>9. Book(c.bill) /\ FreedIn(b, c.bill)
    BY <1>2, <1>3, <1>4, <1>5, <1>7, <1>8, CallEffect
<1> QED  BY <1>2, <1>9 DEF BillStep, b

\* delete_voucher deletes them all, and the trigger does the rest.
LEMMA DeleteBillStep ==
    ASSUME Book(bill_allocation), NEW v \in Vouchers,
           DeleteBills(v)
    PROVE  BillStep
<1> DEFINE b == bill_allocation
           items == << >>
           deleted == Owned(b, v)
           free == Adjusters(b, deleted) \ Owned(b, v)
           c == tgf_del_on_bill_allc(b, deleted, items)
<1>1. ~c.raised /\ bill_allocation' = c.bill
    BY DEF DeleteBills, StoreBills
<1>2. items \in Seq(ItemOf(Owned(b, v))) /\ Book(b) /\ v \in Vouchers \cup {Opening}
    OBVIOUS
<1>3. /\ deleted \in SUBSET Owned(b, v)
      /\ free = Adjusters(b, deleted) \ Owned(b, v)
      /\ c = tgf_del_on_bill_allc(b, deleted, items)
    OBVIOUS
<1> HIDE DEF free, c, deleted, items, b
<1>4. /\ Going(c, c, v, Owned(b, v), free)
      /\ DOMAIN c.bill = DOMAIN b \ deleted
      /\ ~c.raised => \A j \in free : c.bill[j].ref_type = "NEW"
    BY <1>2, <1>3, TriggerGoing
<1>5. Book(c.bill) /\ FreedIn(b, c.bill)
    BY <1>1, <1>2, <1>3, <1>4, CallEffect
<1> QED  BY <1>1, <1>5 DEF BillStep, b

\* Every step of the bills.
LEMMA BillNextStep ==
    ASSUME BillInv, [BillNext]_bill_vars
    PROVE  BillInv' /\ (BillNext => BillStep)
<1>1. BillTypeOK /\ Book(bill_allocation)
    BY DEF BillInv
<1>2. ASSUME BillNext PROVE BillStep
    BY <1>1, <1>2, CreateBillStep, UpdateBillStep, OpeningBillStep, DeleteBillStep DEF BillNext
<1>3. ASSUME BillNext PROVE bill_voucher' \in [Vouchers -> {"absent", "live"}]
    BY <1>1, <1>3 DEF BillNext, BillTypeOK, CreateBills, UpdateBills,
                      DeleteBills, SetAccountOpening
<1>4. CASE BillNext
  <2>1. Book(bill_allocation)'
      BY <1>2, <1>4 DEF BillStep, Book, Fits
  <2> QED  BY <1>2, <1>3, <1>4, <2>1 DEF BillInv, BillTypeOK, Book
<1>5. CASE UNCHANGED bill_vars
    BY <1>1, <1>2, <1>5 DEF bill_vars, BillInv, BillTypeOK, Book, Fits
<1> QED  BY <1>4, <1>5

\* The invariant holds from the start.
LEMMA BillInvariant == BillSpec => []BillInv
<1>1. BillInit => BillInv
  <2> SUFFICES ASSUME BillInit PROVE BillInv
      OBVIOUS
  <2>1. bill_allocation = << >> /\ bill_voucher = [v \in Vouchers |-> "absent"]
      BY DEF BillInit
  <2>2. DOMAIN bill_allocation = {} /\ bill_allocation \in [{} -> Allocation]
      BY <2>1
  <2>3. bill_allocation \in TableOf(BillIds, Allocation)
      BY <2>2 DEF TableOf
  <2>4. Book(bill_allocation)
      BY <2>2, <2>3, FS_EmptySet DEF Book, Fits
  <2> QED  BY <2>1, <2>3, <2>4 DEF BillInv, BillTypeOK
<1>2. BillInv /\ [BillNext]_bill_vars => BillInv'
    BY BillNextStep
<1> QED  BY <1>1, <1>2, PTL DEF BillSpec

\* The bills are always of their types.
THEOREM BillTypeCorrect == BillSpec => []BillTypeOK
<1>1. BillInv => BillTypeOK
    BY DEF BillInv
<1> QED  BY <1>1, BillInvariant, PTL

\* A voucher's allocation carries a pending id exactly when it belongs to a
\* bill, whatever edits, deletions, openings and freed adjustments came before.
THEOREM VoucherPendingFitsRefCorrect ==
    BillSpec => []VoucherPendingFitsRef
<1>1. BillInv => VoucherPendingFitsRef
    BY DEF BillInv, Book, Fits, VoucherPendingFitsRef, OfVoucher
<1> QED  BY <1>1, BillInvariant, PTL

\* Whenever the NEW of a bill goes, the allocations of other documents that
\* were settling it become bills of their own, under ids no row shares.
THEOREM AdjustersAreFreedCorrect ==
    BillSpec => AdjustersAreFreed
<1> DEFINE A == \A i \in DOMAIN bill_allocation \ DOMAIN bill_allocation' :
         bill_allocation[i].ref_type = "NEW" =>
           \A j \in DOMAIN bill_allocation \cap DOMAIN bill_allocation' :
              /\ bill_allocation[j].ref_type = "ADJ"
              /\ bill_allocation[j].pending = bill_allocation[i].pending
              /\ bill_allocation[j].owner # bill_allocation[i].owner
              => /\ bill_allocation'[j].ref_type = "NEW"
                 /\ \A k \in DOMAIN bill_allocation' \ {j} :
                       bill_allocation'[k].pending # bill_allocation'[j].pending
<1>1. BillInv /\ [BillNext]_bill_vars => [A]_bill_vars
  <2> SUFFICES ASSUME BillInv, BillNext PROVE A
      OBVIOUS
  <2>1. FreedIn(bill_allocation, bill_allocation')
      BY BillNextStep DEF BillStep
  <2> QED  BY <2>1 DEF FreedIn
<1> QED  BY <1>1, BillInvariant, PTL DEF BillSpec, AdjustersAreFreed
=============================================================================
