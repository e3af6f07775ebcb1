---------------------------- MODULE CheckoutStock ----------------------------
(***************************************************************************)
(* The books of Checkout: what there was of a product is in stock or held  *)
(* for the lines of orders, so PAID orders never oversell; until a process *)
(* dies nothing is given back twice; a FAILED order has given back what it *)
(* took and was not charged, as far as the faults that happen allow.       *)
(***************************************************************************)
EXTENDS CheckoutProofs, FiniteSetTheorems

-----------------------------------------------------------------------------
(* Sums of functions with a finite domain.  Induction over the domain goes *)
(* through the well-foundedness of the strict-subset ordering, which needs *)
(* no operator parameter.                                                  *)

\* A finite set has a property that every set has whose proper subsets have it.
LEMMA SmallerFirst ==
  ASSUME NEW D, IsFiniteSet(D), NEW F \in SUBSET (SUBSET D),
         \A S \in SUBSET D : (\A T \in SUBSET S : T # S => T \in F) => S \in F
  PROVE  F = SUBSET D
<1> DEFINE R == StrictSubsetOrdering(D)
           G == (SUBSET D) \ F
<1> SUFFICES ASSUME G # {} PROVE FALSE OBVIOUS
<1>1. FiniteSubsetsOf(D) = SUBSET D BY FS_FiniteSubsetsOfFinite
<1>2. IsWellFoundedOn(R, SUBSET D)
  <2>1. IsWellFoundedOn(R, FiniteSubsetsOf(D)) BY FS_StrictSubsetOrderingWellFounded
  <2> QED BY <1>1, <2>1
<1>3. G \subseteq SUBSET D OBVIOUS
<1>4. PICK S \in G : \A T \in G : <<T, S>> \notin R
  <2> HIDE DEF R, G
  <2> QED BY <1>2, <1>3, WFMin
<1>5. ASSUME NEW T \in SUBSET S, T # S PROVE T \in F
  <2>1. T \in SUBSET D /\ <<T, S>> \in R BY <1>4, <1>5 DEF StrictSubsetOrdering
  <2> QED BY <1>4, <2>1
<1> QED BY <1>4, <1>5

\* ... or that the empty set has, and every set with one element more.
LEMMA OneByOne ==
  ASSUME NEW D, IsFiniteSet(D), NEW F \in SUBSET (SUBSET D), {} \in F,
         \A S \in F : \A x \in D \ S : S \cup {x} \in F
  PROVE  F = SUBSET D
<1>1. ASSUME NEW S \in SUBSET D, \A T \in SUBSET S : T # S => T \in F PROVE S \in F
  <2>1. CASE S = {} BY <2>1
  <2>2. CASE S # {}
    <3>1. PICK x \in S : TRUE BY <2>2
    <3>2. S \ {x} \in F BY <1>1, <3>1
    <3>3. S = (S \ {x}) \cup {x} /\ x \in D \ (S \ {x}) BY <3>1
    <3> QED BY <3>2, <3>3
  <2> QED BY <2>1, <2>2
<1> QED BY <1>1, SmallerFirst

\* g sums f over the subsets of D.
Sums(f, g, D) == /\ g \in [SUBSET D -> Int] /\ g[{}] = 0
                 /\ \A S \in SUBSET D : \A x \in S : g[S] = f[x] + g[S \ {x}]

LEMMA SumsAdd ==
  ASSUME NEW D, NEW f, NEW g, Sums(f, g, D)
  PROVE  \A S \in SUBSET D : \A x \in D \ S : g[S \cup {x}] = f[x] + g[S]
<1> SUFFICES ASSUME NEW S \in SUBSET D, NEW x \in D \ S PROVE g[S \cup {x}] = f[x] + g[S]
  OBVIOUS
<1>1. S \cup {x} \in SUBSET D /\ x \in S \cup {x} /\ (S \cup {x}) \ {x} = S OBVIOUS
<1>2. g[S \cup {x}] = f[x] + g[(S \cup {x}) \ {x}] BY <1>1 DEF Sums
<1> QED BY <1>1, <1>2

LEMMA SumsExist ==
  ASSUME NEW D, IsFiniteSet(D), NEW f \in [D -> Int]
  PROVE  \E g : Sums(f, g, D)
<1> DEFINE F == {T \in SUBSET D : \E g : Sums(f, g, T)}
<1>1. {} \in F
  <2>1. Sums(f, [S \in SUBSET {} |-> 0], {}) BY DEF Sums
  <2> QED BY <2>1
<1>2. ASSUME NEW T \in F, NEW x \in D \ T PROVE T \cup {x} \in F
  <2>1. PICK g : Sums(f, g, T) OBVIOUS
  <2> DEFINE U == T \cup {x}
             h == [S \in SUBSET U |-> IF x \in S THEN g[S \ {x}] + f[x] ELSE g[S]]
  <2>2. ASSUME NEW S \in SUBSET U PROVE S \ {x} \in SUBSET T /\ g[S \ {x}] \in Int /\ (x \notin S => S \in SUBSET T)
    BY <2>1 DEF Sums
  <2>3. h \in [SUBSET U -> Int] BY <2>1, <2>2 DEF Sums
  <2>4. h[{}] = 0 BY <2>1 DEF Sums
  <2>5. ASSUME NEW S \in SUBSET U, NEW y \in S PROVE h[S] = f[y] + h[S \ {y}]
    <3>1. S \ {y} \in SUBSET U /\ f[y] \in Int /\ f[x] \in Int OBVIOUS
    <3>2. CASE x \notin S
      <4>1. g[S] = f[y] + g[S \ {y}] BY <2>1, <2>2, <3>2 DEF Sums
      <4> QED BY <3>1, <3>2, <4>1
    <3>3. CASE y = x
      <4>1. h[S] = g[S \ {x}] + f[x] /\ h[S \ {x}] = g[S \ {x}] BY <3>1, <3>3
      <4> HIDE DEF h
      <4> QED BY <2>2, <3>1, <3>3, <4>1
    <3>4. CASE x \in S /\ y # x
      <4>1. g[S \ {x}] = f[y] + g[(S \ {x}) \ {y}] BY <2>1, <2>2, <3>4 DEF Sums
      <4>2. g[(S \ {x}) \ {y}] = g[(S \ {y}) \ {x}]
        <5>1. (S \ {x}) \ {y} = (S \ {y}) \ {x} OBVIOUS
        <5> QED BY <5>1
      <4>3. g[(S \ {y}) \ {x}] \in Int BY <2>2, <3>1
      <4>4. h[S] = g[S \ {x}] + f[x] /\ h[S \ {y}] = g[(S \ {y}) \ {x}] + f[x] BY <3>1, <3>4
      <4> HIDE DEF h
      <4> QED BY <3>1, <4>1, <4>2, <4>3, <4>4
    <3> QED BY <3>2, <3>3, <3>4
  <2>6. Sums(f, h, U) BY <2>3, <2>4, <2>5 DEF Sums
  <2> QED BY <2>6
<1> HIDE DEF F
<1>3. F \in SUBSET (SUBSET D) BY DEF F
<1>4. F = SUBSET D BY <1>1, <1>2, <1>3, OneByOne
<1> QED BY <1>4 DEF F

\* The recursion behind SumFunctionOnSet.
Pick(S) == CHOOSE x \in S : TRUE
SumStep(f, g, D) == g = [S \in SUBSET D |-> IF S = {} THEN 0 ELSE f[Pick(S)] + g[S \ {Pick(S)}]]

LEMMA SumDef == ASSUME NEW f, NEW D PROVE SumFunctionOnSet(f, D) = (CHOOSE g : SumStep(f, g, D))[D]
  BY DEF SumFunctionOnSet, FoldFunctionOnSet, MapThenFoldSet, SumStep, Pick

LEMMA SumsStep ==
  ASSUME NEW f, NEW g, NEW D, Sums(f, g, D)
  PROVE  SumStep(f, g, D)
<1>1. ASSUME NEW S \in SUBSET D, S # {} PROVE g[S] = f[Pick(S)] + g[S \ {Pick(S)}]
  <2>1. Pick(S) \in S BY <1>1 DEF Pick
  <2> QED BY <2>1 DEF Sums
<1>2. g = [S \in SUBSET D |-> g[S]] BY DEF Sums
<1>3. \A S \in SUBSET D : g[S] = IF S = {} THEN 0 ELSE f[Pick(S)] + g[S \ {Pick(S)}] BY <1>1 DEF Sums
<1> QED BY <1>2, <1>3 DEF SumStep

LEMMA StepUnique ==
  ASSUME NEW D, IsFiniteSet(D), NEW f, NEW g, NEW h, SumStep(f, g, D), SumStep(f, h, D)
  PROVE  g[D] = h[D]
<1> DEFINE F == {S \in SUBSET D : g[S] = h[S]}
<1>1. ASSUME NEW S \in SUBSET D, \A T \in SUBSET S : T # S => T \in F PROVE S \in F
  <2>1. CASE S = {} BY <2>1 DEF SumStep
  <2>2. CASE S # {}
    <3>1. Pick(S) \in S BY <2>2 DEF Pick
    <3>2. g[S \ {Pick(S)}] = h[S \ {Pick(S)}] BY <1>1, <3>1
    <3>3. g[S] = f[Pick(S)] + g[S \ {Pick(S)}] BY <2>2 DEF SumStep
    <3>4. h[S] = f[Pick(S)] + h[S \ {Pick(S)}] BY <2>2 DEF SumStep
    <3> QED BY <3>2, <3>3, <3>4
  <2> QED BY <2>1, <2>2
<1> HIDE DEF F
<1>2. F \in SUBSET (SUBSET D) BY DEF F
<1>3. F = SUBSET D BY <1>1, <1>2, SmallerFirst
<1> QED BY <1>3 DEF F

LEMMA SumOfAll ==
  ASSUME NEW D, IsFiniteSet(D), NEW f \in [D -> Int], NEW g, Sums(f, g, D)
  PROVE  SumFunction(f) = g[D]
<1> DEFINE h == CHOOSE x : SumStep(f, x, D)
<1>1. SumStep(f, g, D) BY SumsStep
<1>2. SumStep(f, h, D) BY <1>1
<1> HIDE DEF h
<1>3. h[D] = g[D] BY <1>1, <1>2, StepUnique
<1>4. SumFunction(f) = SumFunctionOnSet(f, D) BY DEF SumFunction
<1> QED BY <1>3, <1>4, SumDef DEF h

\* What the proofs below use of a sum.
Grows(f, g, D) == /\ g \in [SUBSET D -> Int] /\ g[{}] = 0
                  /\ \A S \in SUBSET D : \A x \in D \ S : g[S \cup {x}] = f[x] + g[S]

LEMMA SumGrows ==
  ASSUME NEW D, IsFiniteSet(D), NEW f \in [D -> Int]
  PROVE  \E g : Grows(f, g, D) /\ SumFunction(f) = g[D]
<1>1. PICK g : Sums(f, g, D) BY SumsExist
<1>2. Grows(f, g, D) BY <1>1, SumsAdd DEF Sums, Grows
<1> QED BY <1>1, <1>2, SumOfAll

LEMMA SumType ==
  ASSUME NEW D, IsFiniteSet(D), NEW f \in [D -> Int] PROVE SumFunction(f) \in Int
<1>1. PICK g : Grows(f, g, D) /\ SumFunction(f) = g[D] BY SumGrows
<1> QED BY <1>1 DEF Grows

LEMMA SumZero ==
  ASSUME NEW D, IsFiniteSet(D), NEW f \in [D -> Int], \A x \in D : f[x] = 0
  PROVE  SumFunction(f) = 0
<1>1. PICK g : Grows(f, g, D) /\ SumFunction(f) = g[D] BY SumGrows
<1> DEFINE F == {S \in SUBSET D : g[S] = 0}
<1>2. {} \in F BY <1>1 DEF Grows
<1>3. ASSUME NEW S \in F, NEW x \in D \ S PROVE S \cup {x} \in F
  BY <1>1 DEF Grows
<1> HIDE DEF F
<1>4. F = SUBSET D
  <2>1. F \in SUBSET (SUBSET D) BY DEF F
  <2> QED BY <1>2, <1>3, <2>1, OneByOne
<1> QED BY <1>1, <1>4 DEF F

\* Two functions that differ at one point.
LEMMA SumUpdate ==
  ASSUME NEW D, IsFiniteSet(D), NEW f \in [D -> Int], NEW h \in [D -> Int], NEW d \in D,
         \A x \in D : x # d => h[x] = f[x]
  PROVE  SumFunction(h) = SumFunction(f) - f[d] + h[d]
<1>1. PICK g : Grows(f, g, D) /\ SumFunction(f) = g[D] BY SumGrows
<1>2. PICK e : Grows(h, e, D) /\ SumFunction(h) = e[D] BY SumGrows
<1> DEFINE F == {S \in SUBSET D : e[S] = IF d \in S THEN g[S] - f[d] + h[d] ELSE g[S]}
<1>3. {} \in F BY <1>1, <1>2 DEF Grows
<1>4. ASSUME NEW S \in F, NEW x \in D \ S PROVE S \cup {x} \in F
  <2>1. g[S \cup {x}] = f[x] + g[S] /\ g[S] \in Int BY <1>1 DEF Grows
  <2>2. e[S \cup {x}] = h[x] + e[S] /\ e[S] \in Int BY <1>2 DEF Grows
  <2> QED BY <2>1, <2>2
<1> HIDE DEF F
<1>5. F = SUBSET D
  <2>1. F \in SUBSET (SUBSET D) BY DEF F
  <2> QED BY <1>3, <1>4, <2>1, OneByOne
<1>6. e[D] = g[D] - f[d] + h[d] BY <1>5 DEF F
<1> QED BY <1>1, <1>2, <1>6

\* A sum of smaller terms is smaller.
LEMMA SumMonotonic ==
  ASSUME NEW D, IsFiniteSet(D), NEW f \in [D -> Int], NEW h \in [D -> Int],
         \A x \in D : f[x] <= h[x]
  PROVE  SumFunction(f) <= SumFunction(h)
<1>1. PICK g : Grows(f, g, D) /\ SumFunction(f) = g[D] BY SumGrows
<1>2. PICK e : Grows(h, e, D) /\ SumFunction(h) = e[D] BY SumGrows
<1> DEFINE F == {S \in SUBSET D : g[S] <= e[S]}
<1>3. {} \in F BY <1>1, <1>2 DEF Grows
<1>4. ASSUME NEW S \in F, NEW x \in D \ S PROVE S \cup {x} \in F
  <2>1. g[S \cup {x}] = f[x] + g[S] /\ g[S] \in Int BY <1>1 DEF Grows
  <2>2. e[S \cup {x}] = h[x] + e[S] /\ e[S] \in Int BY <1>2 DEF Grows
  <2> QED BY <2>1, <2>2
<1> HIDE DEF F
<1>5. F = SUBSET D
  <2>1. F \in SUBSET (SUBSET D) BY DEF F
  <2> QED BY <1>3, <1>4, <2>1, OneByOne
<1>6. g[D] <= e[D] BY <1>5 DEF F
<1> QED BY <1>1, <1>2, <1>6

-----------------------------------------------------------------------------
(* Balance: what there was is in stock or held *)

LEMMA LinesFinite == IsFiniteSet(Keys \X LineNos)
<1>1. IsFiniteSet(LineNos) BY FS_Interval, LinesAssumption DEF LineNos
<1> QED BY <1>1, KeysAssumption, FS_Product

LEMMA AskedType ==
  ASSUME Ownership, NEW k \in Keys, NEW l \in LineNos, NEW p
  PROVE  Asked(k, l, p) \in Nat
<1>1. CASE l \in Items(k)
  <2>1. Ordered(k) /\ l \in 1..Size(orders[k].by)
    BY <1>1 DEF Items, Ownership, TypeOK, OrdersOK, Row, Ordered
  <2> QED BY <2>1, ItemType DEF Asked
<1>2. CASE l \notin Items(k) BY <1>2 DEF Asked
<1> QED BY <1>1, <1>2

LEMMA ShareType ==
  ASSUME Ownership, NEW p, NEW i \in Keys \X LineNos
  PROVE  Share(i, p) \in Int
<1>1. i[1] \in Keys /\ i[2] \in LineNos OBVIOUS
<1>2. Asked(i[1], i[2], p) \in Nat BY <1>1, AskedType
<1>3. held[i[1]][i[2]] \in Int BY <1>1 DEF Ownership, TypeOK, WorldOK
<1> QED BY <1>2, <1>3 DEF Share

\* The same of the next state.
SharesOK == /\ \A p : \A k \in Keys, l \in LineNos : Asked(k, l, p) \in Nat
            /\ \A p : \A i \in Keys \X LineNos : Share(i, p) \in Int

LEMMA SharesType == Ownership => SharesOK
  BY AskedType, ShareType DEF SharesOK

LEMMA NextSharesType == Ownership' => SharesOK'
  BY SharesType, PTL

\* What is asked for depends on who ordered, and on nothing else of a row.
LEMMA AskedStays ==
  ASSUME NEW k \in Keys, NEW l, NEW p, orders'[k].by = orders[k].by
  PROVE  Asked(k, l, p)' = Asked(k, l, p)
  BY DEF Asked, Items, Item

\* Reserving or releasing one line: held and stock move by the same amount.
LEMMA MoveBalance ==
  ASSUME Ownership, Ownership', Balance, \A j \in Keys : orders'[j].by = orders[j].by,
         NEW k \in Keys, NEW l \in LineNos, NEW n \in {1, -1},
         \A j \in Keys, m \in LineNos :
           held'[j][m] = IF j = k /\ m = l THEN held[j][m] + n ELSE held[j][m],
         \A p \in Products : stock'[p] = stock[p] - n * Asked(k, l, p)
  PROVE  Balance'
<1> SUFFICES ASSUME NEW p \in Products PROVE stock'[p] + Taken(p)' = InitStock[p]
  BY DEF Balance
<1> DEFINE D == Keys \X LineNos
           f == [i \in D |-> Share(i, p)]
           h == [i \in D |-> Share(i, p)']
           d == <<k, l>>
<1>1. f \in [D -> Int] /\ h \in [D -> Int] /\ d \in D
  <2>1. \A i \in D : Share(i, p) \in Int BY ShareType
  <2>2. \A i \in D : Share(i, p)' \in Int BY NextSharesType DEF SharesOK
  <2> QED BY <2>1, <2>2
<1>2. \A i \in D : i # d => h[i] = f[i]
  <2> SUFFICES ASSUME NEW i \in D, i # d PROVE Share(i, p)' = Share(i, p) OBVIOUS
  <2>1. i[1] \in Keys /\ i[2] \in LineNos /\ ~(i[1] = k /\ i[2] = l) OBVIOUS
  <2>2. held'[i[1]][i[2]] = held[i[1]][i[2]] BY <2>1
  <2>3. Asked(i[1], i[2], p)' = Asked(i[1], i[2], p) BY <2>1, AskedStays
  <2> QED BY <2>2, <2>3 DEF Share
<1>3. h[d] = f[d] + n * Asked(k, l, p)
  <2>1. Asked(k, l, p)' = Asked(k, l, p) /\ Asked(k, l, p) \in Nat BY AskedStays, AskedType
  <2>2. held'[k][l] = held[k][l] + n /\ held[k][l] \in Int
    BY DEF Ownership, TypeOK, WorldOK
  <2>3. f[d] = held[k][l] * Asked(k, l, p) /\ h[d] = held'[k][l] * Asked(k, l, p)
    BY <1>1, <2>1 DEF Share
  <2> QED BY <2>1, <2>2, <2>3
<1>4. Taken(p) = SumFunction(f) /\ Taken(p)' = SumFunction(h) BY DEF Taken
<1>5. IsFiniteSet(D) BY LinesFinite
<1>6. Asked(k, l, p) \in Nat /\ f[d] \in Int /\ h[d] \in Int BY <1>1, AskedType
<1> HIDE DEF f, h, d, D
<1>7. SumFunction(h) = SumFunction(f) - f[d] + h[d] BY <1>1, <1>2, <1>5, SumUpdate
<1>8. SumFunction(f) \in Int BY <1>1, <1>5, SumType
<1>9. stock[p] \in Int /\ stock[p] + Taken(p) = InitStock[p]
  BY DEF Balance, Ownership, TypeOK, WorldOK
<1> QED BY <1>3, <1>4, <1>6, <1>7, <1>8, <1>9

\* Nothing is reserved or released; a new order holds nothing yet.
LEMMA StillBalance ==
  ASSUME Balance, UNCHANGED <<stock, held>>,
         \A j \in Keys : \/ orders'[j].by = orders[j].by
                         \/ \A l \in LineNos : held[j][l] = 0,
         Ownership, Ownership'
  PROVE  Balance'
<1>1. ASSUME NEW p, NEW i \in Keys \X LineNos PROVE Share(i, p)' = Share(i, p)
  <2>1. i[1] \in Keys /\ i[2] \in LineNos OBVIOUS
  <2>2. CASE orders'[i[1]].by = orders[i[1]].by BY <2>1, <2>2, AskedStays DEF Share
  <2>3. CASE held[i[1]][i[2]] = 0
    <3>1. Asked(i[1], i[2], p) \in Nat BY <2>1, AskedType
    <3>2. Asked(i[1], i[2], p)' \in Nat BY <2>1, NextSharesType DEF SharesOK
    <3> QED BY <2>3, <3>1, <3>2 DEF Share
  <2> QED BY <2>1, <2>2, <2>3
<1>2. \A p : Taken(p)' = Taken(p) BY <1>1 DEF Taken
<1> QED BY <1>2 DEF Balance

LEMMA AskedItem ==
  ASSUME Ownership, NEW k \in Keys, Ordered(k), NEW l \in 1..Size(orders[k].by)
  PROVE  /\ l \in LineNos
         /\ Item(k, l).prod \in Products /\ Item(k, l).qty \in Nat
         /\ \A p : Asked(k, l, p) = IF Item(k, l).prod = p THEN Item(k, l).qty ELSE 0
<1>1. l \in Items(k) BY Constants DEF Items, Ordered
<1> QED BY <1>1, ItemType DEF Asked

LEMMA ReserveBalance ==
  ASSUME Ownership, Ownership', Balance, UNCHANGED orders,
         NEW k \in Keys, Ordered(k), NEW l \in 1..Size(orders[k].by), DoReserve(k, l)
  PROVE  Balance'
<1>1. stock \in [Products -> Nat] /\ held \in [Keys -> [LineNos -> Int]]
  BY DEF Ownership, TypeOK, WorldOK
<1>2. /\ stock' = [stock EXCEPT ![Item(k, l).prod] = @ - Item(k, l).qty]
      /\ held' = [held EXCEPT ![k][l] = @ + 1]
  BY DEF DoReserve, Ledger!Reserve
<1>3. l \in LineNos BY AskedItem
<1>4. \A j \in Keys, m \in LineNos :
        held'[j][m] = IF j = k /\ m = l THEN held[j][m] + 1 ELSE held[j][m]
  BY <1>1, <1>2, <1>3
<1>5. \A p \in Products : stock'[p] = stock[p] - 1 * Asked(k, l, p)
  BY <1>1, <1>2, AskedItem
<1> QED BY <1>3, <1>4, <1>5, MoveBalance

LEMMA ReleaseBalance ==
  ASSUME Ownership, Ownership', Balance, UNCHANGED orders,
         NEW k \in Keys, Ordered(k), NEW l \in 1..Size(orders[k].by), DoRelease(k, l)
  PROVE  Balance'
<1>1. stock \in [Products -> Nat] /\ held \in [Keys -> [LineNos -> Int]]
  BY DEF Ownership, TypeOK, WorldOK
<1>2. /\ stock' = [stock EXCEPT ![Item(k, l).prod] = @ + Item(k, l).qty]
      /\ held' = [held EXCEPT ![k][l] = @ - 1]
  BY DEF DoRelease, Ledger!Release
<1>3. l \in LineNos BY AskedItem
<1>4. \A j \in Keys, m \in LineNos :
        held'[j][m] = IF j = k /\ m = l THEN held[j][m] + (-1) ELSE held[j][m]
  BY <1>1, <1>2, <1>3
<1>5. \A p \in Products : stock'[p] = stock[p] - (-1) * Asked(k, l, p)
  BY <1>1, <1>2, AskedItem
<1> QED BY <1>3, <1>4, <1>5, MoveBalance

\* The owner of a row is written once, by the insert.
LEMMA OwnerStays ==
  ASSUME Ownership, [Next]_vars, NEW j \in Keys, Ordered(j)
  PROVE  orders'[j].by = orders[j].by
<1>1. orders \in [Keys -> Row] /\ orders[j].status # "NONE"
  BY DEF Ownership, TypeOK, OrdersOK, RowsOwned
<1>2. CASE UNCHANGED orders BY <1>2
<1>3. ASSUME NEW k, NEW row, orders' = [orders EXCEPT ![k] = row], row.by = orders[k].by
      PROVE  orders'[j].by = orders[j].by
  BY <1>1, <1>3
<1>4. ASSUME NEW k \in Keys, orders' = [orders EXCEPT ![k].flag = TRUE]
                        \/ orders' = [orders EXCEPT ![k].status = "PAID"]
                        \/ orders' = [orders EXCEPT ![k].delivered = TRUE]
      PROVE  orders'[j].by = orders[j].by
  BY <1>1, <1>4 DEF Row
<1>5. ASSUME NEW k \in Keys, NEW why,
             orders' = [orders EXCEPT ![k] = [@ EXCEPT !.status = "FAILED", !.reason = why]]
      PROVE  orders'[j].by = orders[j].by
  <2> DEFINE row == [orders[k] EXCEPT !.status = "FAILED", !.reason = why]
  <2>1. row.by = orders[k].by BY <1>1 DEF Row
  <2>2. orders' = [orders EXCEPT ![k] = row] BY <1>5
  <2> HIDE DEF row
  <2> QED BY <1>3, <2>1, <2>2
<1>6. ASSUME NEW r \in Requests, Lookup(r) \/ Work(r) \/ Abort(r)
      PROVE  orders'[j].by = orders[j].by
  <2>1. KeyOf[r] \in Keys BY Constants
  <2>2. CASE Insert(r)
    <3>1. orders' = orders \/ (orders' = [orders EXCEPT ![KeyOf[r]] = Pending(r)] /\ j # KeyOf[r])
      BY <1>1, <2>2 DEF Insert, KeyTaken
    <3> QED BY <1>1, <3>1
  <2>3. CASE SetStockReserved(r) \/ CommitFailed(r) \/ CommitPaid(r)
    BY <1>2, <1>4, <1>5, <2>1, <2>3 DEF SetStockReserved, CommitFailed, CommitPaid
  <2>4. \/ Insert(r) \/ SetStockReserved(r) \/ CommitFailed(r) \/ CommitPaid(r) \/ UNCHANGED orders
    BY <1>6 DEF Work, Lookup, Abort, Reject, AnnounceCreated, ReserveLine, ReserveRefused,
       ReserveLost, Reload, Charge, ChargeLost, ReleaseLine, AnnounceOutcome, ClearCart
  <2> QED BY <1>2, <2>2, <2>3, <2>4
<1>7. CASE Reconcile \/ Delivery \/ AbortPass
  <2>1. ReconcileCommit \/ DeliverCommit \/ UNCHANGED orders
    BY <1>7 DEF Reconcile, Delivery, AbortPass, StartReconciliation, ReconcileRelease,
       ReconcileAnnounce, ReconcileClear, StartDelivery, AnnounceDelivered
  <2>2. ReconcileCommit \/ DeliverCommit => loop.cur \in Keys
    BY LoopFacts DEF ReconcileCommit, DeliverCommit
  <2> QED BY <1>2, <1>4, <1>5, <2>1, <2>2 DEF ReconcileCommit, DeliverCommit
<1>8. CASE UNCHANGED vars \/ Crash \/ (\E c \in late : ExecuteLate(c) \/ DropLate(c))
        \/ \E k \in Keys : \E e \in unsent[k] : FlushUnsent(k, e) \/ ExpireUnsent(k, e)
  BY <1>2, <1>8 DEF Crash, vars, ExecuteLate, DropLate, FlushUnsent, ExpireUnsent
<1> QED BY <1>6, <1>7, <1>8 DEF Next

\* Every step leaves stock alone or reserves or releases one line of an order.
Moved == /\ UNCHANGED orders
         /\ \E k \in Keys : /\ Ordered(k)
                            /\ \E l \in 1..Size(orders[k].by) : DoReserve(k, l) \/ DoRelease(k, l)

LEMMA StockSteps == ASSUME Ownership, [Next]_vars PROVE UNCHANGED <<stock, held>> \/ Moved
<1>1. ASSUME NEW r \in Requests, Lookup(r) \/ Work(r) \/ Abort(r)
      PROVE  UNCHANGED <<stock, held>> \/ Moved
  <2>1. CASE ReserveLine(r) \/ ReleaseLine(r)
    <3>1. /\ req[r].pc \in SagaPcs \cup TailPcs /\ UNCHANGED orders
          /\ \/ req[r].pc = "reserve" /\ DoReserve(KeyOf[r], req[r].line)
             \/ req[r].pc = "undo" /\ DoRelease(KeyOf[r], req[r].line)
             \/ UNCHANGED <<stock, held>>
      BY <2>1 DEF ReserveLine, ReleaseLine, At, ReleaseStock, Lose, world, SagaPcs
    <3>2. /\ KeyOf[r] \in Keys /\ Ordered(KeyOf[r]) /\ orders[KeyOf[r]].by = r
          /\ req[r].pc \in {"reserve", "undo"} => req[r].line \in 1..Size(r)
      BY <3>1, SagaFacts
    <3> QED BY <3>1, <3>2 DEF Moved
  <2>2. CASE ~(ReserveLine(r) \/ ReleaseLine(r))
    BY <1>1, <2>2 DEF Work, Lookup, Abort, Reject, Insert, AnnounceCreated, ReserveRefused,
       ReserveLost, SetStockReserved, Reload, Charge, ChargeLost, CommitFailed, CommitPaid,
       AnnounceOutcome, ClearCart, ClearCartItems, DoClear, DoCharge, Lose, world, Ledger!Refuse
  <2> QED BY <2>1, <2>2
<1>2. CASE Reconcile \/ Delivery \/ AbortPass
  <2>1. CASE ReconcileRelease
    <3>1. /\ UNCHANGED orders /\ loop.pc = "release"
          /\ DoRelease(loop.cur, loop.line) \/ UNCHANGED <<stock, held>>
      BY <2>1 DEF ReconcileRelease, ReleaseStock, Lose, world
    <3>2. /\ loop.cur \in Keys /\ Ordered(loop.cur)
          /\ loop.line \in 1..Size(orders[loop.cur].by)
      BY <3>1, LoopFacts
    <3> QED BY <3>1, <3>2 DEF Moved
  <2>2. CASE ~ReconcileRelease
    BY <1>2, <2>2 DEF Reconcile, Delivery, AbortPass, StartReconciliation, ReconcileCommit,
       ReconcileAnnounce, ReconcileClear, StartDelivery, DeliverCommit, AnnounceDelivered,
       ClearCartItems, DoClear, Lose, world
  <2> QED BY <2>1, <2>2
<1>3. ASSUME NEW c \in late, ExecuteLate(c) \/ DropLate(c)
      PROVE  UNCHANGED <<stock, held>> \/ Moved
  <2>1. /\ c.key \in Keys
        /\ c.op \in {"reserve", "release"} => Ordered(c.key) /\ c.line \in 1..Size(orders[c.key].by)
    BY DEF Ownership, TypeOK, LateOK, Calls, LateOnItems
  <2> QED BY <1>3, <2>1 DEF Moved, ExecuteLate, DropLate, DoCharge, DoClear, world
<1>4. ASSUME NEW k \in Keys, NEW e \in unsent[k], FlushUnsent(k, e) \/ ExpireUnsent(k, e)
      PROVE  UNCHANGED <<stock, held>>
  BY <1>4 DEF FlushUnsent, ExpireUnsent, world
<1>5. CASE UNCHANGED vars \/ Crash BY <1>5 DEF Crash, vars, world
<1> QED BY <1>1, <1>2, <1>3, <1>4, <1>5 DEF Next

\* An order nobody has placed holds nothing.
NothingHeld == \A j \in Keys : ~Ordered(j) => \A l \in LineNos : held[j][l] = 0

LEMMA NothingHeldStep == Ownership /\ NothingHeld /\ [Next]_vars => NothingHeld'
<1> SUFFICES ASSUME Ownership, NothingHeld, [Next]_vars, NEW j \in Keys, ~Ordered(j)'
             PROVE  \A l \in LineNos : held'[j][l] = 0
  BY DEF NothingHeld
<1>1. ~Ordered(j) BY OwnerStays DEF Ordered
<1>2. held'[j] = held[j]
  BY <1>1, StockSteps DEF Moved, DoReserve, DoRelease, Ownership, TypeOK, WorldOK
<1> QED BY <1>1, <1>2 DEF NothingHeld

LEMMA BalanceStep == Ownership /\ NothingHeld /\ Balance /\ [Next]_vars => Balance'
<1> SUFFICES ASSUME Ownership, NothingHeld, Balance, [Next]_vars PROVE Balance' OBVIOUS
<1>1. Ownership' BY OwnershipStep
<1>2. CASE UNCHANGED <<stock, held>>
  <2>1. \A j \in Keys : orders'[j].by = orders[j].by \/ \A l \in LineNos : held[j][l] = 0
    BY OwnerStays DEF NothingHeld
  <2> QED BY <1>1, <1>2, <2>1, StillBalance
<1> QED BY <1>1, <1>2, StockSteps, ReserveBalance, ReleaseBalance DEF Moved

LEMMA BalanceInit == Init => Balance
<1> SUFFICES ASSUME Init, NEW p \in Products PROVE stock[p] + Taken(p) = InitStock[p]
  BY DEF Balance
<1> DEFINE D == Keys \X LineNos
           f == [i \in D |-> Share(i, p)]
<1>1. Ownership BY OwnershipInit
<1>2. f \in [D -> Int] BY <1>1, ShareType
<1>3. ASSUME NEW i \in D PROVE f[i] = 0
  <2>1. i[1] \in Keys /\ i[2] \in LineNos OBVIOUS
  <2>2. Asked(i[1], i[2], p) \in Nat /\ held[i[1]][i[2]] = 0
    BY <1>1, <2>1, AskedType DEF Init
  <2> QED BY <2>2 DEF Share
<1>4. SumFunction(f) = 0
  <2> HIDE DEF f
  <2> QED BY <1>2, <1>3, LinesFinite, SumZero
<1>5. stock[p] = InitStock[p] /\ InitStock[p] \in Int BY StockAssumption DEF Init, Ledger!Init
<1> QED BY <1>4, <1>5 DEF Taken

\* Nothing is lost and nothing appears: of every product, what is in stock and
\* what reserves minus releases hold for the lines of orders is what there was.
THEOREM StockBalances == Spec => []Balance
<1>1. Init => NothingHeld BY DEF Init, NothingHeld
<1> QED BY <1>1, NothingHeldStep, BalanceStep, BalanceInit, OwnershipInvariant, PTL DEF Spec

-----------------------------------------------------------------------------
(* What the steps do, in the words of the invariants below: one operator   *)
(* per kind of step, k the key of request r                                *)

Others(r)    == \A s \in Requests : s # r => req'[s] = req[s]
OtherRows(k) == \A j \in Keys : j # k => /\ orders'[j] = orders[j]
                                         /\ held'[j] = held[j] /\ pay'[j] = pay[j]
\* A request touches its own row only, and leaves the passes alone.
Apart(r) == /\ Others(r) /\ OtherRows(KeyOf[r]) /\ UNCHANGED loop
            /\ orders'[KeyOf[r]].by = r
SameRow(k) == orders'[k] = orders[k] /\ held'[k] = held[k] /\ pay'[k] = pay[k]

Loads(r) ==
  /\ \/ req[r].pc = "created" /\ req'[r].pc = "reserve"
     \/ req[r].pc = "reload" /\ req'[r].pc = "charge"
  /\ SameRow(KeyOf[r]) /\ UNCHANGED <<late, mishaps>>
  /\ req'[r].seen = orders[KeyOf[r]]

Reserves(r) ==
  LET k == KeyOf[r] IN
  /\ req[r].pc = "reserve" /\ req'[r].pc \in {"reserve", "flag"}
  /\ orders'[k] = orders[k] /\ pay'[k] = pay[k] /\ UNCHANGED <<late, mishaps>>
  /\ \A l \in LineNos : held'[k][l] = IF l = req[r].line THEN held[k][l] + 1 ELSE held[k][l]
  /\ req'[r].seen = req[r].seen

GivesUp(r) ==
  LET k == KeyOf[r] IN
  /\ req[r].pc \in {"reserve", "charge"}
  /\ orders'[k] = orders[k] /\ held'[k] = held[k] /\ UNCHANGED mishaps
  /\ pay'[k] = "charged" => pay[k] = "charged"
  /\ \A c \in late' : c \in late \/ (c.op \in {"reserve", "charge"} /\ "timeout" \in Faults)
  /\ req'[r].upto = (IF req[r].pc = "reserve" THEN req[r].line - 1 ELSE Size(r))
  /\ req'[r].line = 1 /\ req'[r].seen = req[r].seen
  /\ req'[r].pc = IF req'[r].upto = 0 THEN "fail" ELSE "undo"

ReleasesOne(r) ==
  LET k == KeyOf[r] IN
  /\ req[r].pc = "undo"
  /\ orders'[k] = orders[k] /\ pay'[k] = pay[k] /\ UNCHANGED mishaps
  /\ \/ /\ \A l \in LineNos : held'[k][l] = IF l = req[r].line THEN held[k][l] - 1 ELSE held[k][l]
        /\ UNCHANGED late
     \/ /\ held'[k] = held[k] /\ "timeout" \in Faults
        /\ late' = late \cup {Call("release", k, req[r].line, r)}
  /\ req'[r].upto = req[r].upto /\ req'[r].seen = req[r].seen
  /\ \/ req[r].line < req[r].upto /\ req'[r].pc = "undo" /\ req'[r].line = req[r].line + 1
     \/ req[r].line = req[r].upto /\ req'[r].pc = "fail"

SetsFlag(r) ==
  LET k == KeyOf[r] IN
  /\ req[r].pc = "flag" /\ req'[r].pc = "reload"
  /\ orders'[k].flag /\ orders'[k].status = orders[k].status
  /\ held'[k] = held[k] /\ pay'[k] = pay[k] /\ UNCHANGED <<late, mishaps>>

IsCharged(r) ==
  LET k == KeyOf[r] IN
  /\ req[r].pc = "charge" /\ req'[r].pc = "pay"
  /\ orders'[k] = orders[k] /\ held'[k] = held[k] /\ UNCHANGED <<late, mishaps>>
  /\ req'[r].seen = req[r].seen

Commits(r) ==
  LET k == KeyOf[r] IN
  /\ req[r].pc \in {"fail", "pay"} /\ req'[r].pc = "tell"
  /\ orders'[k].status = (IF req[r].pc = "fail" THEN "FAILED" ELSE "PAID")
  /\ orders'[k].flag = orders[k].flag
  /\ held'[k] = held[k] /\ pay'[k] = pay[k] /\ UNCHANGED <<late, mishaps>>

\* The row changed since the session read it, so the commit fails.
Conflicts(r) ==
  /\ req[r].pc \in {"flag", "fail", "pay"} /\ req'[r].pc = "dead"
  /\ req[r].seen # orders[KeyOf[r]]
  /\ SameRow(KeyOf[r]) /\ UNCHANGED <<late, mishaps>>

SagaMoves(r) == \/ Loads(r) \/ Reserves(r) \/ GivesUp(r) \/ ReleasesOne(r) \/ SetsFlag(r)
                \/ IsCharged(r) \/ Commits(r) \/ Conflicts(r)

Opens(r) ==
  LET k == KeyOf[r] IN
  /\ ~Ordered(k) /\ req'[r].pc = "created"
  /\ orders'[k].status = "PENDING" /\ ~orders'[k].flag
  /\ held'[k] = held[k] /\ pay'[k] = pay[k] /\ UNCHANGED <<late, mishaps>>

\* A request that has no saga after the step, and had none before it unless it
\* was aborted.
Idles(r) ==
  /\ Others(r) /\ UNCHANGED <<orders, loop, held, pay>>
  /\ req'[r].pc \notin SagaPcs
  /\ \A c \in late' : c \in late \/ (c.op = "clear" /\ "timeout" \in Faults)
  /\ \/ UNCHANGED mishaps /\ req[r].pc \notin SagaPcs
     \/ mishaps' = mishaps + 1 /\ "abort" \in Faults

\* What the type invariant says of a request and its row.
LEMMA SagaType ==
  ASSUME IInv, NEW r \in Requests, req[r].pc \in SagaPcs
  PROVE  /\ Ownership /\ Progress
         /\ req \in [Requests -> RequestState] /\ req[r] \in RequestState
         /\ orders \in [Keys -> Row] /\ orders[KeyOf[r]] \in Row
         /\ held \in [Keys -> [LineNos -> Int]] /\ pay \in [Keys -> {"none"} \cup Payment!Outcomes]
         /\ KeyOf[r] \in Keys /\ Ordered(KeyOf[r]) /\ orders[KeyOf[r]].by = r
         /\ orders[KeyOf[r]].status = "PENDING"
         /\ Size(r) \in 1..MaxLine /\ 1..Size(r) \subseteq LineNos
         /\ req[r].pc = "reserve" => req[r].line \in 1..Size(r)
         /\ req[r].pc = "undo" => req[r].upto \in 1..Size(r) /\ req[r].line \in 1..req[r].upto
<1>1. Ownership /\ Progress BY DEF IInv
<1>2. req[r].pc \in SagaPcs \cup TailPcs OBVIOUS
<1>3. Size(r) \in 1..MaxLine /\ 1..Size(r) \subseteq LineNos BY Constants DEF LineNos
<1>4. orders[KeyOf[r]].status = "PENDING" BY <1>1 DEF Progress, SagaPending
<1>5. /\ req \in [Requests -> RequestState] /\ orders \in [Keys -> Row]
      /\ held \in [Keys -> [LineNos -> Int]] /\ pay \in [Keys -> {"none"} \cup Payment!Outcomes]
  BY <1>1 DEF Ownership, TypeOK, ReqOK, OrdersOK, WorldOK
<1> QED BY <1>1, <1>2, <1>3, <1>4, <1>5, SagaFacts

LEMMA LoadsStep ==
  ASSUME IInv, NEW r \in Requests, AnnounceCreated(r) \/ Reload(r)
  PROVE  Apart(r) /\ SagaMoves(r)
<1>1. req[r].pc \in {"created", "reload"} /\ req[r].pc \in SagaPcs
  BY DEF AnnounceCreated, Reload, At, SagaPcs
<1>2. UNCHANGED <<orders, loop, held, pay, late, mishaps>> BY DEF AnnounceCreated, Reload, world
<1>t. req \in [Requests -> RequestState] /\ req[r] \in RequestState BY <1>1, SagaType
<1>3. /\ \A s \in Requests : s # r => req'[s] = req[s]
      /\ req'[r].seen = orders[KeyOf[r]]
      /\ \/ req[r].pc = "created" /\ req'[r].pc = "reserve"
         \/ req[r].pc = "reload" /\ req'[r].pc = "charge"
  <2>1. CASE AnnounceCreated(r) BY <1>t, <2>1 DEF AnnounceCreated, At, RequestState
  <2>2. CASE Reload(r) BY <1>t, <2>2 DEF Reload, At, RequestState
  <2> QED BY <2>1, <2>2
<1>4. Apart(r) BY <1>1, <1>2, <1>3, SagaType DEF Apart, Others, OtherRows
<1>5. Loads(r) BY <1>2, <1>3 DEF Loads, SameRow
<1> QED BY <1>4, <1>5 DEF SagaMoves

LEMMA ReservesStep ==
  ASSUME IInv, NEW r \in Requests, ReserveLine(r)
  PROVE  Apart(r) /\ SagaMoves(r)
<1>1. req[r].pc = "reserve" /\ req[r].pc \in SagaPcs BY DEF ReserveLine, At, SagaPcs
<1>2. UNCHANGED <<orders, loop, pay, late, mishaps>> BY DEF ReserveLine, DoReserve
<1>3. /\ \A s \in Requests : s # r => req'[s] = req[s]
      /\ req'[r].pc \in {"reserve", "flag"} /\ req'[r].seen = req[r].seen
  BY <1>1, SagaType DEF ReserveLine, NextLine, RequestState
<1>4. held' = [held EXCEPT ![KeyOf[r]][req[r].line] = @ + 1] BY DEF ReserveLine, DoReserve
<1>5. req[r].line \in LineNos BY <1>1, SagaType
<1>6. /\ \A j \in Keys : j # KeyOf[r] => held'[j] = held[j]
      /\ \A l \in LineNos : held'[KeyOf[r]][l] =
           IF l = req[r].line THEN held[KeyOf[r]][l] + 1 ELSE held[KeyOf[r]][l]
  BY <1>1, <1>4, <1>5, SagaType
<1>7. Apart(r) BY <1>1, <1>2, <1>3, <1>6, SagaType DEF Apart, Others, OtherRows
<1>8. Reserves(r) BY <1>1, <1>2, <1>3, <1>6 DEF Reserves
<1> QED BY <1>7, <1>8 DEF SagaMoves

LEMMA GivesUpStep ==
  ASSUME IInv, NEW r \in Requests, NEW n \in Nat, NEW why, req' = Undo(r, n, why),
         req[r].pc \in {"reserve", "charge"},
         n = (IF req[r].pc = "reserve" THEN req[r].line - 1 ELSE Size(r)),
         UNCHANGED <<orders, loop, held, mishaps>>,
         \A j \in Keys : j # KeyOf[r] => pay'[j] = pay[j],
         pay'[KeyOf[r]] = "charged" => pay[KeyOf[r]] = "charged",
         \A c \in late' : c \in late \/ (c.op \in {"reserve", "charge"} /\ "timeout" \in Faults)
  PROVE  Apart(r) /\ SagaMoves(r)
<1>1. req[r].pc \in SagaPcs BY DEF SagaPcs
<1>2. /\ \A s \in Requests : s # r => req'[s] = req[s]
      /\ req'[r].upto = n /\ req'[r].line = 1 /\ req'[r].seen = req[r].seen
      /\ req'[r].pc = IF n = 0 THEN "fail" ELSE "undo"
  BY <1>1, SagaType DEF Undo, RequestState
<1>3. Apart(r) BY <1>1, <1>2, SagaType DEF Apart, Others, OtherRows
<1>4. GivesUp(r) BY <1>2 DEF GivesUp
<1> QED BY <1>3, <1>4 DEF SagaMoves

LEMMA RefusedStep ==
  ASSUME IInv, NEW r \in Requests, ReserveRefused(r) \/ ReserveLost(r) \/ ChargeLost(r)
  PROVE  Apart(r) /\ SagaMoves(r)
<1>1. req[r].pc \in {"reserve", "charge"} /\ req[r].pc \in SagaPcs
  BY DEF ReserveRefused, ReserveLost, ChargeLost, At, SagaPcs
<1>2. UNCHANGED <<orders, loop, held, pay, mishaps>>
  BY DEF ReserveRefused, ReserveLost, ChargeLost, Lose, world
<1>3. \A c \in late' : c \in late \/ (c.op \in {"reserve", "charge"} /\ "timeout" \in Faults)
  BY DEF ReserveRefused, ReserveLost, ChargeLost, Lose, Call
<1>4. CASE req[r].pc = "reserve"
  <2>1. \E why : req' = Undo(r, req[r].line - 1, why)
    BY <1>4 DEF ReserveRefused, ReserveLost, ChargeLost, At
  <2>2. req[r].line - 1 \in Nat BY <1>1, <1>4, SagaType
  <2> QED BY <1>1, <1>2, <1>3, <1>4, <2>1, <2>2, GivesUpStep
<1>5. CASE req[r].pc = "charge"
  <2>1. \E why : req' = Undo(r, Size(r), why)
    BY <1>5 DEF ReserveRefused, ReserveLost, ChargeLost, At
  <2>2. Size(r) \in Nat BY <1>1, SagaType
  <2> QED BY <1>1, <1>2, <1>3, <1>5, <2>1, <2>2, GivesUpStep
<1> QED BY <1>1, <1>4, <1>5

LEMMA ChargeStep ==
  ASSUME IInv, NEW r \in Requests, Charge(r)
  PROVE  Apart(r) /\ SagaMoves(r)
<1>1. req[r].pc = "charge" /\ req[r].pc \in SagaPcs BY DEF Charge, At, SagaPcs
<1>2. UNCHANGED <<orders, loop, held, late, mishaps>> BY DEF Charge, DoCharge
<1>3. PICK o \in Payment!Outcomes : DoCharge(KeyOf[r], o) /\ req' = AfterCharge(r, o)
  BY DEF Charge
<1>4. /\ \A j \in Keys : j # KeyOf[r] => pay'[j] = pay[j]
      /\ pay'[KeyOf[r]] = o
  BY <1>1, <1>3, SagaType DEF DoCharge, Payment!Charge
<1>5. CASE o = "charged"
  <2>1. /\ \A s \in Requests : s # r => req'[s] = req[s]
        /\ req'[r].pc = "pay" /\ req'[r].seen = req[r].seen
    BY <1>1, <1>3, <1>5, SagaType DEF AfterCharge, Goto, RequestState
  <2>2. Apart(r) BY <1>1, <1>2, <1>4, <2>1, SagaType DEF Apart, Others, OtherRows
  <2>3. IsCharged(r) BY <1>1, <1>2, <2>1 DEF IsCharged
  <2> QED BY <2>2, <2>3 DEF SagaMoves
<1>6. CASE o # "charged"
  <2>1. req' = Undo(r, Size(r), "PAYMENT_DECLINED") BY <1>3, <1>6 DEF AfterCharge
  <2>2. Size(r) \in Nat BY <1>1, SagaType
  <2> QED BY <1>1, <1>2, <1>4, <1>6, <2>1, <2>2, GivesUpStep
<1> QED BY <1>5, <1>6

LEMMA ReleasesStep ==
  ASSUME IInv, NEW r \in Requests, ReleaseLine(r)
  PROVE  Apart(r) /\ SagaMoves(r)
<1>1. req[r].pc = "undo" /\ req[r].pc \in SagaPcs BY DEF ReleaseLine, At, SagaPcs
<1>2. UNCHANGED <<orders, loop, pay, mishaps>>
  BY DEF ReleaseLine, ReleaseStock, DoRelease, Lose, world
<1>t. /\ req \in [Requests -> RequestState] /\ req[r] \in RequestState
      /\ req[r].upto \in Int /\ req[r].line \in Int /\ req[r].line <= req[r].upto
  BY <1>1, SagaType
<1>3. /\ \A s \in Requests : s # r => req'[s] = req[s]
      /\ req'[r].upto = req[r].upto /\ req'[r].seen = req[r].seen
      /\ \/ req[r].line < req[r].upto /\ req'[r].pc = "undo" /\ req'[r].line = req[r].line + 1
         \/ req[r].line = req[r].upto /\ req'[r].pc = "fail"
  BY <1>1, <1>t DEF ReleaseLine, NextLine, RequestState
<1>4. req[r].line \in LineNos BY <1>1, SagaType
<1>5. CASE DoRelease(KeyOf[r], req[r].line) /\ UNCHANGED late
  <2>1. held' = [held EXCEPT ![KeyOf[r]][req[r].line] = @ - 1] BY <1>5 DEF DoRelease
  <2>2. /\ \A j \in Keys : j # KeyOf[r] => held'[j] = held[j]
        /\ \A l \in LineNos : held'[KeyOf[r]][l] =
             IF l = req[r].line THEN held[KeyOf[r]][l] - 1 ELSE held[KeyOf[r]][l]
    BY <1>1, <1>4, <2>1, SagaType
  <2>3. Apart(r) BY <1>1, <1>2, <1>3, <2>2, SagaType DEF Apart, Others, OtherRows
  <2>4. ReleasesOne(r) BY <1>1, <1>2, <1>3, <1>5, <2>2 DEF ReleasesOne
  <2> QED BY <2>3, <2>4 DEF SagaMoves
<1>6. CASE Lose(Call("release", KeyOf[r], req[r].line, r))
  <2>1. UNCHANGED held /\ "timeout" \in Faults
        /\ late' = late \cup {Call("release", KeyOf[r], req[r].line, r)}
    BY <1>6 DEF Lose, world
  <2>2. Apart(r) BY <1>1, <1>2, <1>3, <2>1, SagaType DEF Apart, Others, OtherRows
  <2>3. ReleasesOne(r) BY <1>1, <1>2, <1>3, <2>1 DEF ReleasesOne
  <2> QED BY <2>2, <2>3 DEF SagaMoves
<1> QED BY <1>5, <1>6 DEF ReleaseLine, ReleaseStock

LEMMA CommitsStep ==
  ASSUME IInv, NEW r \in Requests, SetStockReserved(r) \/ CommitFailed(r) \/ CommitPaid(r)
  PROVE  Apart(r) /\ SagaMoves(r)
<1> DEFINE k == KeyOf[r]
<1>1. req[r].pc \in {"flag", "fail", "pay"} /\ req[r].pc \in SagaPcs
  BY DEF SetStockReserved, CommitFailed, CommitPaid, At, SagaPcs
<1>t. orders[k] \in Row /\ req[r] \in RequestState BY <1>1, SagaType
<1>2. UNCHANGED <<loop, held, pay, late, mishaps>>
  BY DEF SetStockReserved, CommitFailed, CommitPaid, world
<1>3. CASE Conflict(k, req[r].seen)
  <2>1. req' = Die(r) /\ UNCHANGED orders /\ req[r].seen # orders[k]
    BY <1>3 DEF SetStockReserved, CommitFailed, CommitPaid, Conflict
  <2>2. (\A s \in Requests : s # r => req'[s] = req[s]) /\ req'[r].pc = "dead"
    BY <1>1, <2>1, SagaType DEF Die, Fresh
  <2>3. Apart(r) BY <1>1, <1>2, <2>1, <2>2, SagaType DEF Apart, Others, OtherRows
  <2>4. Conflicts(r) BY <1>1, <1>2, <2>1, <2>2 DEF Conflicts, SameRow
  <2> QED BY <2>3, <2>4 DEF SagaMoves
<1>4. ASSUME ~Conflict(k, req[r].seen), NEW pc, req' = Goto(r, pc), NEW row \in Row, row.by = orders[k].by,
             orders' = [orders EXCEPT ![k] = row]
      PROVE  Apart(r) /\ req'[r].pc = pc /\ orders'[k] = row
  <2>1. (\A s \in Requests : s # r => req'[s] = req[s]) /\ req'[r].pc = pc
    BY <1>1, <1>4, SagaType DEF Goto, RequestState
  <2>2. (\A j \in Keys : j # k => orders'[j] = orders[j]) /\ orders'[k] = row
    BY <1>1, <1>4, SagaType
  <2> QED BY <1>1, <1>2, <1>4, <2>1, <2>2, SagaType DEF Apart, Others, OtherRows
<1>5. CASE SetStockReserved(r) /\ ~Conflict(k, req[r].seen)
  <2> DEFINE row == [orders[k] EXCEPT !.flag = TRUE]
  <2>1. row \in Row /\ row.by = orders[k].by /\ row.flag /\ row.status = orders[k].status
    BY <1>t DEF Row
  <2>2. req' = Goto(r, "reload") /\ orders' = [orders EXCEPT ![k] = row] /\ req[r].pc = "flag"
    BY <1>5 DEF SetStockReserved, At
  <2> HIDE DEF row
  <2>3. Apart(r) /\ req'[r].pc = "reload" /\ orders'[k] = row BY <1>4, <1>5, <2>1, <2>2
  <2>4. SetsFlag(r) BY <1>2, <2>1, <2>2, <2>3 DEF SetsFlag
  <2> QED BY <2>3, <2>4 DEF SagaMoves
<1>6. CASE CommitFailed(r) /\ ~Conflict(k, req[r].seen)
  <2> DEFINE row == [orders[k] EXCEPT !.status = "FAILED", !.reason = req[r].why]
  <2>1. /\ row \in Row /\ row.by = orders[k].by
        /\ row.flag = orders[k].flag /\ row.status = "FAILED"
    BY <1>t DEF Row, Statuses, RequestState
  <2>2. req' = Goto(r, "tell") /\ orders' = [orders EXCEPT ![k] = row] /\ req[r].pc = "fail"
    BY <1>6 DEF CommitFailed, At
  <2> HIDE DEF row
  <2>3. Apart(r) /\ req'[r].pc = "tell" /\ orders'[k] = row BY <1>4, <1>6, <2>1, <2>2
  <2>4. Commits(r) BY <1>2, <2>1, <2>2, <2>3 DEF Commits
  <2> QED BY <2>3, <2>4 DEF SagaMoves
<1>7. CASE CommitPaid(r) /\ ~Conflict(k, req[r].seen)
  <2> DEFINE row == [orders[k] EXCEPT !.status = "PAID"]
  <2>1. row \in Row /\ row.by = orders[k].by /\ row.flag = orders[k].flag /\ row.status = "PAID"
    BY <1>t DEF Row, Statuses
  <2>2. req' = Goto(r, "tell") /\ orders' = [orders EXCEPT ![k] = row] /\ req[r].pc = "pay"
    BY <1>7 DEF CommitPaid, At
  <2> HIDE DEF row
  <2>3. Apart(r) /\ req'[r].pc = "tell" /\ orders'[k] = row BY <1>4, <1>7, <2>1, <2>2
  <2>4. Commits(r) BY <1>2, <2>1, <2>2, <2>3 DEF Commits
  <2> QED BY <2>3, <2>4 DEF SagaMoves
<1> QED BY <1>3, <1>5, <1>6, <1>7

LEMMA OpensStep ==
  ASSUME IInv, NEW r \in Requests, Insert(r), ~KeyTaken(KeyOf[r])
  PROVE  Apart(r) /\ Opens(r)
<1> DEFINE k == KeyOf[r]
<1>1. /\ k \in Keys /\ req \in [Requests -> RequestState] /\ req[r] \in RequestState
      /\ orders \in [Keys -> Row]
  BY Constants DEF IInv, Ownership, TypeOK, ReqOK, OrdersOK
<1>2. /\ orders' = [orders EXCEPT ![k] = Pending(r)] /\ req' = Goto(r, "created")
      /\ UNCHANGED <<loop, held, pay, late, mishaps>>
  BY DEF Insert, world
<1>3. Pending(r).status = "PENDING" /\ ~Pending(r).flag /\ Pending(r).by = r
  BY DEF Pending, NoRow
<1> HIDE DEF Pending
<1>4. (\A j \in Keys : j # k => orders'[j] = orders[j]) /\ orders'[k] = Pending(r)
  BY <1>1, <1>2
<1>5. (\A s \in Requests : s # r => req'[s] = req[s]) /\ req'[r].pc = "created"
  BY <1>1, <1>2 DEF Goto, RequestState
<1>6. ~Ordered(k) BY <1>1 DEF KeyTaken, IInv, Ownership, RowsOwned
<1>7. Apart(r) BY <1>2, <1>3, <1>4, <1>5 DEF Apart, Others, OtherRows
<1>8. Opens(r) BY <1>2, <1>3, <1>4, <1>5, <1>6 DEF Opens
<1> QED BY <1>7, <1>8

LEMMA IdlesStep ==
  ASSUME IInv, NEW r \in Requests,
         \/ Lookup(r) \/ Reject(r) \/ (Insert(r) /\ KeyTaken(KeyOf[r]))
         \/ AnnounceOutcome(r) \/ ClearCart(r) \/ Abort(r)
  PROVE  Idles(r)
<1>1. req \in [Requests -> RequestState] /\ req[r] \in RequestState
  BY DEF IInv, Ownership, TypeOK, ReqOK
<1>2. /\ UNCHANGED <<orders, loop, held, pay>>
      /\ \A c \in late' : c \in late \/ (c.op = "clear" /\ "timeout" \in Faults)
  BY DEF Lookup, Reject, Insert, KeyTaken, AnnounceOutcome, ClearCart, ClearCartItems, DoClear, Lose,
         Call, Abort, world
<1>3. \/ UNCHANGED mishaps /\ req[r].pc \notin SagaPcs
      \/ mishaps' = mishaps + 1 /\ "abort" \in Faults
  BY DEF Lookup, Reject, Insert, AnnounceOutcome, ClearCart, Abort, At, SagaPcs
<1>4. ASSUME NEW st, req' = [req EXCEPT ![r] = st], st.pc \notin SagaPcs
      PROVE  Others(r) /\ req'[r].pc \notin SagaPcs
  BY <1>1, <1>4 DEF Others
<1>5. CASE \E a : req' = Finish(r, a)
  <2>1. PICK a : req' = Finish(r, a) BY <1>5
  <2> DEFINE st == [Fresh EXCEPT !.pc = "done", !.answer = a]
  <2>2. req' = [req EXCEPT ![r] = st] /\ st.pc \notin SagaPcs BY <2>1 DEF Finish, Fresh, SagaPcs
  <2> HIDE DEF st
  <2> QED BY <1>2, <1>3, <1>4, <2>2 DEF Idles
<1>6. CASE req' = Die(r)
  <2> DEFINE st == [Fresh EXCEPT !.pc = "dead"]
  <2>1. req' = [req EXCEPT ![r] = st] /\ st.pc \notin SagaPcs BY <1>6 DEF Die, Fresh, SagaPcs
  <2> HIDE DEF st
  <2> QED BY <1>2, <1>3, <1>4, <2>1 DEF Idles
<1>7. CASE req' = Goto(r, "insert")
  <2> DEFINE st == [req[r] EXCEPT !.pc = "insert"]
  <2>1. req' = [req EXCEPT ![r] = st] /\ st.pc \notin SagaPcs BY <1>1, <1>7 DEF Goto, RequestState, SagaPcs
  <2> HIDE DEF st
  <2> QED BY <1>2, <1>3, <1>4, <2>1 DEF Idles
<1>8. CASE req' = [req EXCEPT ![r] = [@ EXCEPT !.pc = "clear", !.seen = orders[KeyOf[r]]]]
  <2> DEFINE st == [req[r] EXCEPT !.pc = "clear", !.seen = orders[KeyOf[r]]]
  <2>1. req' = [req EXCEPT ![r] = st] /\ st.pc \notin SagaPcs BY <1>1, <1>8 DEF RequestState, SagaPcs
  <2> HIDE DEF st
  <2> QED BY <1>2, <1>3, <1>4, <2>1 DEF Idles
<1> QED BY <1>5, <1>6, <1>7, <1>8 DEF Lookup, Reject, Insert, AnnounceOutcome, ClearCart, Abort

\* What a request can do to its order.
LEMMA RequestSteps ==
  ASSUME IInv, NEW r \in Requests, Lookup(r) \/ Work(r) \/ Abort(r)
  PROVE  \/ req[r].pc \in SagaPcs /\ Apart(r) /\ SagaMoves(r)
         \/ Apart(r) /\ Opens(r)
         \/ Idles(r)
<1>1. CASE \/ AnnounceCreated(r) \/ Reload(r) \/ ReserveLine(r) \/ ReserveRefused(r)
           \/ ReserveLost(r) \/ ChargeLost(r) \/ Charge(r) \/ ReleaseLine(r)
           \/ SetStockReserved(r) \/ CommitFailed(r) \/ CommitPaid(r)
  <2>1. req[r].pc \in SagaPcs
    BY <1>1 DEF AnnounceCreated, Reload, ReserveLine, ReserveRefused, ReserveLost, ChargeLost, Charge,
       ReleaseLine, SetStockReserved, CommitFailed, CommitPaid, At, SagaPcs
  <2> QED BY <1>1, <2>1, LoadsStep, ReservesStep, RefusedStep, ChargeStep, ReleasesStep, CommitsStep
<1>2. CASE \/ Lookup(r) \/ Reject(r) \/ Insert(r) \/ AnnounceOutcome(r) \/ ClearCart(r) \/ Abort(r)
  BY <1>2, OpensStep, IdlesStep
<1> QED BY <1>1, <1>2 DEF Work

\* The sagas of other requests work on other rows.
LEMMA OthersElsewhere ==
  ASSUME IInv, NEW r \in Requests, req[r].pc \in SagaPcs \/ ~Ordered(KeyOf[r]),
         NEW s \in Requests, s # r, req[s].pc \in SagaPcs
  PROVE  KeyOf[s] \in Keys /\ KeyOf[s] # KeyOf[r]
<1>1. Ordered(KeyOf[s]) /\ KeyOf[s] \in Keys BY SagaType
<1> QED BY <1>1, OneSaga DEF IInv

\* A delivery pass changes the delivered column of PAID orders.
LEMMA DeliverySteps ==
  ASSUME IInv, Delivery
  PROVE  /\ UNCHANGED <<req, held, pay, late, mishaps>>
         /\ loop'.pc \in {"idle", "deliver", "announce"}
         /\ \A j \in Keys : /\ orders'[j].by = orders[j].by /\ orders'[j].status = orders[j].status
                            /\ orders'[j].flag = orders[j].flag
                            /\ orders[j].status = "PENDING" => orders'[j] = orders[j]
<1>1. orders \in [Keys -> Row] /\ loop \in LoopState
  BY DEF IInv, Ownership, TypeOK, OrdersOK, LoopOK
<1>2. UNCHANGED <<req, held, pay, late, mishaps>>
  BY DEF Delivery, StartDelivery, DeliverCommit, AnnounceDelivered, world
<1>3. loop'.pc \in {"idle", "deliver", "announce"}
  <2>1. CASE StartDelivery BY <2>1 DEF StartDelivery, Begin
  <2>2. CASE DeliverCommit BY <1>1, <2>2 DEF DeliverCommit, Idle, LoopGoto, LoopState
  <2>3. CASE AnnounceDelivered BY <2>3 DEF AnnounceDelivered, Idle, Begin
  <2> QED BY <2>1, <2>2, <2>3 DEF Delivery
<1>4. CASE UNCHANGED orders BY <1>2, <1>3, <1>4
<1>5. CASE ~UNCHANGED orders
  <2>1. /\ loop.cur \in Keys /\ orders[loop.cur].status = "PAID"
        /\ orders' = [orders EXCEPT ![loop.cur].delivered = TRUE]
    BY <1>5, LoopFacts DEF Delivery, StartDelivery, DeliverCommit, AnnounceDelivered, IInv, Progress, LoopAlone
  <2>2. \A j \in Keys : j # loop.cur => orders'[j] = orders[j] BY <1>1, <2>1
  <2>3. LET j == loop.cur IN /\ orders'[j].by = orders[j].by /\ orders'[j].status = orders[j].status
                             /\ orders'[j].flag = orders[j].flag
    BY <1>1, <2>1 DEF Row
  <2> QED BY <1>2, <1>3, <2>1, <2>2, <2>3
<1> QED BY <1>4, <1>5

\* What the network and the broker can do to an order.
LEMMA LateSteps ==
  ASSUME IInv, NEW c \in late, ExecuteLate(c)
  PROVE  /\ UNCHANGED <<req, orders, loop, mishaps>> /\ late' = late \ {c} /\ c \in Calls
         /\ \/ UNCHANGED held /\ c.op \notin {"reserve", "release"}
            \/ /\ c.op = "reserve" /\ UNCHANGED pay
               /\ \A j \in Keys, l \in LineNos :
                    held'[j][l] = IF j = c.key /\ l = c.line THEN held[j][l] + 1 ELSE held[j][l]
            \/ /\ c.op = "release" /\ UNCHANGED pay
               /\ \A j \in Keys, l \in LineNos :
                    held'[j][l] = IF j = c.key /\ l = c.line THEN held[j][l] - 1 ELSE held[j][l]
<1>1. /\ held \in [Keys -> [LineNos -> Int]] /\ c \in Calls /\ c.key \in Keys
      /\ c.op \in {"reserve", "release"} => c.line \in LineNos
  <2>1. /\ c \in Calls /\ c.key \in Keys
        /\ c.op \in {"reserve", "release"} => Ordered(c.key) /\ c.line \in 1..Size(orders[c.key].by)
    BY DEF IInv, Ownership, TypeOK, LateOK, Calls, LateOnItems
  <2> QED BY <2>1, ItemType DEF IInv, Ownership, TypeOK, WorldOK
<1>2. UNCHANGED <<req, orders, loop, mishaps>> /\ late' = late \ {c} BY DEF ExecuteLate
<1>3. CASE c.op = "reserve"
  <2>1. UNCHANGED pay /\ held' = [held EXCEPT ![c.key][c.line] = @ + 1]
    BY <1>3 DEF ExecuteLate, DoReserve
  <2>2. \A j \in Keys, l \in LineNos :
          held'[j][l] = IF j = c.key /\ l = c.line THEN held[j][l] + 1 ELSE held[j][l]
    BY <1>1, <1>3, <2>1
  <2> QED BY <1>1, <1>2, <1>3, <2>1, <2>2
<1>4. CASE c.op = "release"
  <2>1. UNCHANGED pay /\ held' = [held EXCEPT ![c.key][c.line] = @ - 1]
    BY <1>4 DEF ExecuteLate, DoRelease
  <2>2. \A j \in Keys, l \in LineNos :
          held'[j][l] = IF j = c.key /\ l = c.line THEN held[j][l] - 1 ELSE held[j][l]
    BY <1>1, <1>4, <2>1
  <2> QED BY <1>1, <1>2, <1>4, <2>1, <2>2
<1>5. CASE c.op \notin {"reserve", "release"}
  BY <1>1, <1>2, <1>5 DEF ExecuteLate, DoCharge, DoClear
<1> QED BY <1>3, <1>4, <1>5

Silent == UNCHANGED <<req, orders, loop, held, pay, mishaps>> /\ late' \subseteq late

LEMMA SilentSteps ==
  ASSUME UNCHANGED vars \/ (\E c \in late : DropLate(c))
         \/ \E k \in Keys : \E e \in unsent[k] : FlushUnsent(k, e) \/ ExpireUnsent(k, e)
  PROVE  Silent
  BY DEF vars, world, DropLate, FlushUnsent, ExpireUnsent, Silent

-----------------------------------------------------------------------------
(* Until a process dies: every saga runs on, and releases what it reserved *)

LEMMA RunningFrame ==
  ASSUME IInv, StillRunning, NEW r \in Requests, Apart(r),
         req[r].pc \in SagaPcs \/ ~Ordered(KeyOf[r]),
         orders'[KeyOf[r]].status = "PENDING" => req'[r].pc \in SagaPcs,
         req'[r].pc \in SagaPcs \ {"created", "reload"} => req'[r].seen = orders'[KeyOf[r]]
  PROVE  StillRunning'
<1>1. KeyOf[r] \in Keys BY Constants
<1>2. ASSUME NEW k \in Keys, orders'[k].status = "PENDING" PROVE req'[orders'[k].by].pc \in SagaPcs
  <2>1. CASE k = KeyOf[r] BY <1>2, <2>1 DEF Apart
  <2>2. CASE k # KeyOf[r]
    <3>1. orders'[k] = orders[k] BY <2>2 DEF Apart, OtherRows
    <3>2. Ordered(k) /\ KeyOf[orders[k].by] = k
      BY <1>2, <3>1 DEF IInv, Ownership, RowsOwned
    <3>3. orders[k].by \in Requests /\ orders[k].by # r BY <2>2, <3>2 DEF Ordered
    <3> QED BY <1>2, <3>1, <3>3 DEF StillRunning, Apart, Others
  <2> QED BY <2>1, <2>2
<1>3. ASSUME NEW s \in Requests, req'[s].pc \in SagaPcs \ {"created", "reload"}
      PROVE  req'[s].seen = orders'[KeyOf[s]]
  <2>1. CASE s = r BY <1>3, <2>1
  <2>2. CASE s # r
    <3>1. req'[s] = req[s] BY <2>2 DEF Apart, Others
    <3>2. KeyOf[s] \in Keys /\ KeyOf[s] # KeyOf[r] BY <1>3, <2>2, <3>1, OthersElsewhere
    <3> QED BY <1>3, <3>1, <3>2 DEF StillRunning, Apart, OtherRows
  <2> QED BY <2>1, <2>2
<1> QED BY <1>2, <1>3 DEF StillRunning, Apart

LEMMA RunningSaga ==
  ASSUME IInv, StillRunning, NEW r \in Requests, req[r].pc \in SagaPcs, Apart(r), SagaMoves(r)
  PROVE  StillRunning'
<1>1. ~Conflicts(r) BY DEF Conflicts, StillRunning, SagaPcs
<1>2. req[r].pc \in SagaPcs \ {"created", "reload"} => req[r].seen = orders[KeyOf[r]]
  BY DEF StillRunning
<1>3. /\ orders'[KeyOf[r]].status = "PENDING" => req'[r].pc \in SagaPcs
      /\ req'[r].pc \in SagaPcs \ {"created", "reload"} => req'[r].seen = orders'[KeyOf[r]]
  BY <1>1, <1>2 DEF SagaMoves, Loads, Reserves, GivesUp, ReleasesOne, SetsFlag, IsCharged, Commits,
     SameRow, SagaPcs
<1> QED BY <1>3, RunningFrame

LEMMA RunningOpens ==
  ASSUME IInv, StillRunning, NEW r \in Requests, Apart(r), Opens(r) PROVE StillRunning'
<1>1. req'[r].pc = "created" /\ ~Ordered(KeyOf[r]) BY DEF Opens
<1> QED BY <1>1, RunningFrame DEF SagaPcs

LEMMA RunningIdles ==
  ASSUME IInv, StillRunning, NEW r \in Requests, Idles(r), req[r].pc \notin SagaPcs PROVE StillRunning'
<1>1. UNCHANGED <<orders, loop>> /\ Others(r) /\ req'[r].pc \notin SagaPcs BY DEF Idles
<1>2. ASSUME NEW k \in Keys, orders[k].status = "PENDING" PROVE req'[orders[k].by].pc \in SagaPcs
  <2>1. orders[k].by \in Requests BY <1>2 DEF IInv, Ownership, RowsOwned, Ordered
  <2>2. req[orders[k].by].pc \in SagaPcs BY <1>2 DEF StillRunning
  <2> QED BY <1>1, <2>1, <2>2 DEF Others
<1>3. \A s \in Requests : req'[s].pc \in SagaPcs => req'[s] = req[s] BY <1>1 DEF Others
<1> QED BY <1>1, <1>2, <1>3 DEF StillRunning

\* Nothing is stuck, so a reconciliation pass finds nothing to do.
LEMMA NothingStuck == ASSUME "slow" \notin Faults, IInv, StillRunning PROVE ~Reconcile
<1>1. ASSUME NEW k \in Keys, orders[k].status = "PENDING" PROVE Live(k)
  BY <1>1 DEF StillRunning, IInv, Ownership, RowsOwned, Ordered, Live
<1>2. Stuck = {} BY <1>1 DEF Stuck, Overdue
<1> QED BY <1>2 DEF Reconcile, StartReconciliation, ReconcileRelease, ReconcileCommit,
     ReconcileAnnounce, ReconcileClear, StillRunning

LEMMA RunningStep ==
  ASSUME "slow" \notin Faults, IInv, StillRunning, [Next]_vars, mishaps = 0, mishaps' = 0
  PROVE  StillRunning'
<1>1. ASSUME NEW r \in Requests, Lookup(r) \/ Work(r) \/ Abort(r) PROVE StillRunning'
  <2>1. Idles(r) => req[r].pc \notin SagaPcs BY DEF Idles
  <2> QED BY <1>1, <2>1, RequestSteps, RunningSaga, RunningOpens, RunningIdles
<1>2. CASE Delivery
  <2>1. \A s \in Requests : req[s].pc \in SagaPcs =>
          KeyOf[s] \in Keys /\ orders[KeyOf[s]].status = "PENDING"
    BY SagaType
  <2> QED BY <1>2, <2>1, DeliverySteps DEF StillRunning
<1>3. CASE Silent BY <1>3 DEF StillRunning, Silent
<1>4. ASSUME NEW c \in late, ExecuteLate(c) PROVE StillRunning'
  BY <1>4 DEF ExecuteLate, StillRunning
<1>5. ~AbortPass /\ ~Crash BY DEF AbortPass, Crash
<1> QED BY <1>1, <1>2, <1>3, <1>4, <1>5, NothingStuck, SilentSteps DEF Next

\* The lines a saga has yet to release are lines of its order.
LEMMA UndoLines ==
  ASSUME Ownership, NEW r \in Requests, req[r].pc = "undo"
  PROVE  \A l \in req[r].line..req[r].upto : l \in 1..Size(r) /\ l \in LineNos
<1>1. /\ req[r].upto \in 1..Size(r) /\ req[r].line \in 1..req[r].upto
      /\ Size(r) \in 1..MaxLine /\ MaxLine \in Nat
  BY Constants DEF Ownership, LinesInRange
<1> QED BY <1>1 DEF LineNos

\* A step that gives nothing back, and after which every saga that compensates
\* has its lines still to release.
LEMMA ReleasedFrame ==
  ASSUME IInv, ReleasedOnce,
         \A j \in Keys, l \in LineNos : held'[j][l] \in Int /\ held'[j][l] >= held[j][l],
         \A c \in late' : c.op = "release" => c \in late,
         \A j \in Keys : Ordered(j) => orders'[j].by = orders[j].by,
         \A s \in Requests : req'[s].pc = "undo" =>
           \/ req'[s] = req[s]
           \/ \A l \in req'[s].line..req'[s].upto :
                l \in LineNos /\ held[KeyOf[s]][l] >= 1 /\ ~LateRelease(KeyOf[s], l)
  PROVE  ReleasedOnce'
<1>1. \A k, l : LateRelease(k, l)' => LateRelease(k, l) BY DEF LateRelease
<1>2. \A j \in Keys, l \in LineNos : held[j][l] \in Int BY DEF IInv, Ownership, TypeOK, WorldOK
<1>3. ASSUME NEW c \in late', c.op = "release" PROVE c.from = orders'[c.key].by /\ c.at = 0
  <2>1. c \in late /\ c.key \in Keys /\ Ordered(c.key)
    BY <1>3 DEF IInv, Ownership, LateOnItems, TypeOK, LateOK, Calls
  <2> QED BY <1>3, <2>1 DEF ReleasedOnce
<1>4. ASSUME NEW k \in Keys, NEW l \in LineNos
      PROVE  held'[k][l] >= 0 /\ (LateRelease(k, l)' => held'[k][l] >= 1)
  BY <1>1, <1>2 DEF ReleasedOnce
<1>5. ASSUME NEW s \in Requests, req'[s].pc = "undo", NEW l \in req'[s].line..req'[s].upto
      PROVE  held'[KeyOf[s]][l] >= 1 /\ ~LateRelease(KeyOf[s], l)'
  <2>1. KeyOf[s] \in Keys BY Constants
  <2>2. l \in LineNos /\ held[KeyOf[s]][l] >= 1 /\ ~LateRelease(KeyOf[s], l)
    <3>1. CASE req'[s] = req[s] BY <1>5, <3>1, UndoLines DEF ReleasedOnce, IInv
    <3>2. CASE req'[s] # req[s] BY <1>5, <3>2
    <3> QED BY <3>1, <3>2
  <2> QED BY <1>1, <1>2, <2>1, <2>2
<1> QED BY <1>3, <1>4, <1>5 DEF ReleasedOnce

\* A saga starts to compensate with what it has reserved.
LEMMA GivesUpOwes ==
  ASSUME IInv, NEW r \in Requests, GivesUp(r), req'[r].pc = "undo"
  PROVE  \A l \in req'[r].line..req'[r].upto :
           l \in 1..Size(r) /\ held[KeyOf[r]][l] = 1 /\ ~LateRelease(KeyOf[r], l)
<1>1. req[r].pc \in SagaPcs /\ req[r].pc \in Forward BY DEF GivesUp, SagaPcs, Forward
<1>2. /\ Quiet(KeyOf[r])
      /\ \A l \in 1..Size(r) : held[KeyOf[r]][l] = Reserved(r, l)
  BY <1>1 DEF IInv, Progress, ForwardHolds
<1>3. \A l : ~LateRelease(KeyOf[r], l) BY <1>2 DEF Quiet, LateRelease
<1>4. Size(r) \in Int /\ (req[r].pc = "reserve" => req[r].line \in 1..Size(r)) BY <1>1, SagaType
<1>5. \A l \in req'[r].line..req'[r].upto : l \in 1..Size(r) /\ Reserved(r, l) = 1
  BY <1>4 DEF GivesUp, Reserved
<1> QED BY <1>2, <1>3, <1>5

LEMMA ReleasedSaga ==
  ASSUME IInv, ReleasedOnce, NEW r \in Requests, req[r].pc \in SagaPcs, Apart(r), SagaMoves(r),
         ~ReleasesOne(r)
  PROVE  ReleasedOnce'
<1> DEFINE k == KeyOf[r]
<1>t. /\ held \in [Keys -> [LineNos -> Int]] /\ k \in Keys /\ orders[k].by = r
      /\ 1..Size(r) \subseteq LineNos
  BY SagaType
<1>1. \A j \in Keys, l \in LineNos : held'[j][l] \in Int /\ held'[j][l] >= held[j][l]
  <2>1. \A l \in LineNos : held'[k][l] \in Int /\ held'[k][l] >= held[k][l]
    BY <1>t DEF SagaMoves, Loads, Reserves, GivesUp, SetsFlag, IsCharged, Commits, Conflicts, SameRow
  <2>2. \A j \in Keys : j # k => held'[j] = held[j] BY DEF Apart, OtherRows
  <2> QED BY <1>t, <2>1, <2>2
<1>2. \A c \in late' : c.op = "release" => c \in late
  BY DEF SagaMoves, Loads, Reserves, GivesUp, SetsFlag, IsCharged, Commits, Conflicts
<1>3. \A j \in Keys : Ordered(j) => orders'[j].by = orders[j].by
  BY <1>t DEF Apart, OtherRows
<1>4. ASSUME NEW s \in Requests, req'[s].pc = "undo"
      PROVE  \/ req'[s] = req[s]
             \/ \A l \in req'[s].line..req'[s].upto :
                  l \in LineNos /\ held[KeyOf[s]][l] >= 1 /\ ~LateRelease(KeyOf[s], l)
  <2>1. CASE s = r
    <3>1. GivesUp(r)
      BY <1>4, <2>1 DEF SagaMoves, Loads, Reserves, SetsFlag, IsCharged, Commits, Conflicts
    <3> QED BY <1>t, <1>4, <2>1, <3>1, GivesUpOwes
  <2>2. CASE s # r BY <2>2 DEF Apart, Others
  <2> QED BY <2>1, <2>2
<1> QED BY <1>1, <1>2, <1>3, <1>4, ReleasedFrame

\* The saga gives one of its lines back, or says so and does not hear back.
LEMMA ReleasedLine ==
  ASSUME IInv, ReleasedOnce, mishaps = 0, NEW r \in Requests, req[r].pc \in SagaPcs, Apart(r),
         ReleasesOne(r)
  PROVE  ReleasedOnce'
<1> DEFINE k == KeyOf[r]
           n == req[r].line
<1>t. /\ held \in [Keys -> [LineNos -> Int]] /\ k \in Keys /\ orders[k].by = r /\ Ordered(k)
      /\ req[r].upto \in 1..Size(r) /\ n \in 1..req[r].upto /\ n \in LineNos /\ Size(r) \in Int
      /\ 1..Size(r) \subseteq LineNos
  BY SagaType DEF ReleasesOne
<1>1. \A l \in n..req[r].upto : l \in LineNos /\ held[k][l] >= 1 /\ ~LateRelease(k, l)
  BY <1>t DEF ReleasedOnce, ReleasesOne
<1>2. /\ \A j \in Keys : j # k => held'[j] = held[j] /\ orders'[j] = orders[j]
      /\ orders'[k].by = r
  BY DEF Apart, OtherRows
<1>3. \/ /\ \A l \in LineNos : held'[k][l] = IF l = n THEN held[k][l] - 1 ELSE held[k][l]
         /\ UNCHANGED late
      \/ held'[k] = held[k] /\ late' = late \cup {Call("release", k, n, r)}
  BY DEF ReleasesOne
<1>4. \A j, l : LateRelease(j, l)' => LateRelease(j, l) \/ (j = k /\ l = n /\ held'[k] = held[k])
  BY <1>3 DEF LateRelease, Call
<1>5. ASSUME NEW c \in late', c.op = "release" PROVE c.from = orders'[c.key].by /\ c.at = 0
  <2>1. CASE c \in late
    <3>1. c.key \in Keys BY <2>1 DEF IInv, Ownership, TypeOK, LateOK, Calls
    <3> QED BY <1>5, <1>2, <1>t, <2>1, <3>1 DEF ReleasedOnce
  <2>2. CASE c = Call("release", k, n, r) BY <1>2, <2>2 DEF Call
  <2> QED BY <1>3, <2>1, <2>2
<1>6. ASSUME NEW j \in Keys, NEW l \in LineNos
      PROVE  held'[j][l] >= 0 /\ (LateRelease(j, l)' => held'[j][l] >= 1)
  <2>1. held[j][l] >= 0 /\ (LateRelease(j, l) => held[j][l] >= 1) BY DEF ReleasedOnce
  <2>2. CASE j = k /\ l = n
    <3>1. held[k][n] >= 1 /\ held[k][n] \in Int /\ ~LateRelease(k, n) BY <1>1, <1>t
    <3> QED BY <1>3, <1>4, <1>t, <2>2, <3>1
  <2>3. CASE ~(j = k /\ l = n) BY <1>2, <1>3, <1>4, <2>1, <2>3
  <2> QED BY <2>2, <2>3
<1>7. ASSUME NEW s \in Requests, req'[s].pc = "undo", NEW l \in req'[s].line..req'[s].upto
      PROVE  held'[KeyOf[s]][l] >= 1 /\ ~LateRelease(KeyOf[s], l)'
  <2>1. CASE s = r
    <3>1. req'[r].upto = req[r].upto /\ req'[r].line = n + 1 BY <1>7, <2>1 DEF ReleasesOne
    <3>2. l \in n..req[r].upto /\ l # n BY <1>7, <1>t, <2>1, <3>1
    <3>3. l \in LineNos /\ held[k][l] >= 1 /\ ~LateRelease(k, l) BY <1>1, <3>2
    <3> QED BY <1>3, <1>4, <2>1, <3>2, <3>3
  <2>2. CASE s # r
    <3>1. req'[s] = req[s] BY <2>2 DEF Apart, Others
    <3>2. KeyOf[s] \in Keys /\ KeyOf[s] # k
      BY <1>7, <2>2, <3>1, OthersElsewhere DEF SagaPcs
    <3>3. held[KeyOf[s]][l] >= 1 /\ ~LateRelease(KeyOf[s], l) BY <1>7, <3>1 DEF ReleasedOnce
    <3> QED BY <1>2, <1>4, <3>2, <3>3
  <2> QED BY <2>1, <2>2
<1> QED BY <1>5, <1>6, <1>7 DEF ReleasedOnce

\* A release arrives late: it was the only one for its line.
LEMMA ReleasedLate ==
  ASSUME IInv, ReleasedOnce, NEW c \in late, c.op = "release", c \in Calls, late' = late \ {c},
         UNCHANGED <<req, orders>>,
         \A j \in Keys, l \in LineNos :
           held'[j][l] = IF j = c.key /\ l = c.line THEN held[j][l] - 1 ELSE held[j][l]
  PROVE  ReleasedOnce'
<1>1. \A j, l : LateRelease(j, l)' => LateRelease(j, l) BY DEF LateRelease
<1>2. \A j \in Keys, l \in LineNos : held[j][l] \in Int BY DEF IInv, Ownership, TypeOK, WorldOK
<1>3. LateRelease(c.key, c.line) BY DEF LateRelease
<1>4. ~LateRelease(c.key, c.line)'
  <2> SUFFICES ASSUME NEW e \in late, e # c, e.op = "release", e.key = c.key, e.line = c.line
               PROVE  FALSE
    BY DEF LateRelease
  <2>1. e \in Calls BY DEF IInv, Ownership, TypeOK, LateOK
  <2>2. e.from = c.from /\ e.at = c.at BY DEF ReleasedOnce
  <2> QED BY <2>1, <2>2 DEF Calls
<1>5. \A e \in late' : e.op = "release" => e.from = orders'[e.key].by /\ e.at = 0
  BY DEF ReleasedOnce
<1>6. \A j \in Keys, l \in LineNos : held'[j][l] >= 0 /\ (LateRelease(j, l)' => held'[j][l] >= 1)
  BY <1>1, <1>2, <1>3, <1>4 DEF ReleasedOnce
<1>7. ASSUME NEW s \in Requests, req'[s].pc = "undo", NEW l \in req'[s].line..req'[s].upto
      PROVE  held'[KeyOf[s]][l] >= 1 /\ ~LateRelease(KeyOf[s], l)'
  <2>1. KeyOf[s] \in Keys BY Constants
  <2>2. l \in LineNos /\ held[KeyOf[s]][l] >= 1 /\ ~LateRelease(KeyOf[s], l)
    BY <1>7, UndoLines DEF ReleasedOnce, IInv
  <2> QED BY <1>1, <1>3, <2>1, <2>2
<1> QED BY <1>5, <1>6, <1>7 DEF ReleasedOnce

\* Nobody's stock is given back and no saga moves.
LEMMA ReleasedStill ==
  ASSUME IInv, ReleasedOnce,
         \A s \in Requests : req'[s].pc = "undo" => req'[s] = req[s],
         \A j \in Keys, l \in LineNos : held'[j][l] \in Int /\ held'[j][l] >= held[j][l],
         \A c \in late' : c.op = "release" => c \in late,
         \A j \in Keys : orders'[j].by = orders[j].by
  PROVE  ReleasedOnce'
  BY ReleasedFrame

LEMMA ReleasedStep ==
  ASSUME "slow" \notin Faults, IInv, StillRunning, ReleasedOnce, [Next]_vars, mishaps = 0, mishaps' = 0
  PROVE  ReleasedOnce'
<1>t. \A j \in Keys, l \in LineNos : held[j][l] \in Int /\ held[j][l] >= held[j][l]
  BY DEF IInv, Ownership, TypeOK, WorldOK
<1>1. ASSUME NEW r \in Requests, Lookup(r) \/ Work(r) \/ Abort(r) PROVE ReleasedOnce'
  <2>1. CASE req[r].pc \in SagaPcs /\ Apart(r) /\ SagaMoves(r)
    BY <2>1, ReleasedSaga, ReleasedLine
  <2>2. CASE Apart(r) /\ Opens(r)
    <3>1. /\ UNCHANGED late /\ req'[r].pc = "created" /\ KeyOf[r] \in Keys
          /\ \A j \in Keys : held'[j] = held[j] /\ (Ordered(j) => orders'[j].by = orders[j].by)
          /\ \A s \in Requests : s # r => req'[s] = req[s]
      BY <2>2, Constants DEF Opens, Apart, OtherRows, Others
    <3> QED BY <1>t, <3>1, ReleasedFrame
  <2>3. CASE Idles(r)
    <3>1. /\ UNCHANGED <<held, orders>> /\ \A c \in late' : c.op = "release" => c \in late
          /\ \A s \in Requests : req'[s].pc = "undo" => req'[s] = req[s]
      BY <2>3 DEF Idles, Others, SagaPcs
    <3> QED BY <1>t, <3>1, ReleasedStill
  <2> QED BY <1>1, <2>1, <2>2, <2>3, RequestSteps
<1>2. CASE Delivery BY <1>2, <1>t, DeliverySteps, ReleasedStill
<1>3. CASE Silent BY <1>3, <1>t, ReleasedStill DEF Silent
<1>4. ASSUME NEW c \in late, ExecuteLate(c) PROVE ReleasedOnce'
  <2>1. CASE c.op = "release" BY <1>4, <2>1, LateSteps, ReleasedLate
  <2>2. CASE c.op # "release"
    <3>1. \A j \in Keys, l \in LineNos : held'[j][l] \in Int /\ held'[j][l] >= held[j][l]
      BY <1>4, <1>t, <2>2, LateSteps
    <3>2. UNCHANGED <<req, orders>> /\ late' \subseteq late BY <1>4, LateSteps
    <3> QED BY <3>1, <3>2, ReleasedStill
  <2> QED BY <2>1, <2>2
<1>5. ~AbortPass /\ ~Crash BY DEF AbortPass, Crash
<1> QED BY <1>1, <1>2, <1>3, <1>4, <1>5, NothingStuck, SilentSteps DEF Next

LEMMA MishapsGrow == Ownership /\ [Next]_vars /\ mishaps' = 0 => mishaps = 0
<1> SUFFICES ASSUME Ownership, [Next]_vars PROVE mishaps' = 0 => mishaps = 0 OBVIOUS
<1>1. mishaps \in Nat BY Constants DEF Ownership, TypeOK
<1>2. \/ UNCHANGED mishaps \/ mishaps' = mishaps + 1
  BY DEF Next, vars, Lookup, Work, Abort, Reject, Insert, AnnounceCreated, ReserveLine, ReserveRefused,
     ReserveLost, SetStockReserved, Reload, Charge, ChargeLost, ReleaseLine, CommitFailed, CommitPaid,
     AnnounceOutcome, ClearCart, Reconcile, Delivery, AbortPass, StartReconciliation, ReconcileRelease,
     ReconcileCommit, ReconcileAnnounce, ReconcileClear, StartDelivery, DeliverCommit,
     AnnounceDelivered, ExecuteLate, DropLate, FlushUnsent, ExpireUnsent, Crash
<1> QED BY <1>1, <1>2

LEMMA UnhurtInit == Init => Unhurt
<1> SUFFICES ASSUME Init PROVE StillRunning /\ ReleasedOnce BY DEF Unhurt
<1>1. StillRunning BY DEF Init, StillRunning, Fresh, NoRow, Idle, SagaPcs
<1>2. ReleasedOnce
  BY DEF Init, ReleasedOnce, LateRelease, Fresh
<1> QED BY <1>1, <1>2

LEMMA UnhurtStep == ASSUME "slow" \notin Faults, IInv, Unhurt, [Next]_vars PROVE Unhurt'
<1> SUFFICES ASSUME mishaps' = 0 PROVE (StillRunning /\ ReleasedOnce)' BY DEF Unhurt
<1>1. mishaps = 0 BY MishapsGrow DEF IInv
<1> QED BY <1>1, RunningStep, ReleasedStep DEF Unhurt

\* Until the first crash or exception every PENDING order has a saga at work,
\* which gives each line it reserved back at most once.
THEOREM UntilAMishap == ASSUME "slow" \notin Faults PROVE Spec => []Unhurt
<1>1. IInv /\ Unhurt /\ [Next]_vars => Unhurt' BY UnhurtStep
<1> QED BY <1>1, UnhurtInit, InductiveInvariant, PTL DEF Spec

\* However calls time out and arrive late, it takes a crash or an exception to
\* give stock back twice (clients.py:67-92).
THEOREM OverCreditTakesMishap == ASSUME "slow" \notin Faults PROVE Spec => []OverCreditNeedsMishap
<1>1. Unhurt => OverCreditNeedsMishap
  BY DEF Unhurt, ReleasedOnce, OverCreditNeedsMishap, NeverOverCredited
<1> QED BY <1>1, UntilAMishap, PTL

\* A PAID order holds each line once and no order holds less than nothing, so
\* what PAID orders ask for is at most what is held, and that what there was.
LEMMA NothingOversold == ASSUME IInv, Balance, NeverOverCredited PROVE NoOverselling
<1> SUFFICES ASSUME NEW p \in Products PROVE Sold(p) <= InitStock[p]
  BY DEF NoOverselling
<1> DEFINE D == Keys \X LineNos
           f == [i \in D |-> IF orders[i[1]].status = "PAID" THEN Asked(i[1], i[2], p) ELSE 0]
           h == [i \in D |-> Share(i, p)]
<1>1. f \in [D -> Int] /\ h \in [D -> Int]
  <2>1. \A i \in D : i[1] \in Keys /\ i[2] \in LineNos OBVIOUS
  <2>2. \A i \in D : Asked(i[1], i[2], p) \in Int /\ Share(i, p) \in Int
    BY <2>1, AskedType, ShareType DEF IInv
  <2> QED BY <2>2
<1>2. ASSUME NEW i \in D PROVE f[i] <= h[i]
  <2> DEFINE k == i[1]
             l == i[2]
  <2>1. k \in Keys /\ l \in LineNos OBVIOUS
  <2>2. Asked(k, l, p) \in Nat /\ held[k][l] \in Int /\ held[k][l] >= 0
    BY <2>1, AskedType DEF IInv, Ownership, TypeOK, WorldOK, NeverOverCredited
  <2>3. h[i] = held[k][l] * Asked(k, l, p) BY DEF Share
  <2>4. CASE orders[k].status = "PAID"
    <3>1. l \in Items(k) => held[k][l] = 1 BY <2>1, <2>4 DEF IInv, Progress, PaidHoldsStock
    <3>2. l \notin Items(k) => Asked(k, l, p) = 0 BY DEF Asked
    <3>3. f[i] = Asked(k, l, p) BY <2>4
    <3> QED BY <2>2, <2>3, <3>1, <3>2, <3>3
  <2>5. CASE orders[k].status # "PAID"
    <3>1. f[i] = 0 BY <2>5
    <3>2. \A a, b \in Nat : a * b \in Nat OBVIOUS
    <3>3. held[k][l] * Asked(k, l, p) \in Nat BY <2>2, <3>2
    <3> QED BY <2>3, <3>1, <3>3
  <2> QED BY <2>4, <2>5
<1>3. Sold(p) = SumFunction(f) /\ Taken(p) = SumFunction(h) BY DEF Sold, Taken
<1>4. IsFiniteSet(D) BY LinesFinite
<1>5. InitStock[p] \in Nat /\ stock[p] \in Nat /\ stock[p] + Taken(p) = InitStock[p]
  BY StockAssumption DEF Balance, IInv, Ownership, TypeOK, WorldOK
<1> HIDE DEF f, h, D
<1>6. SumFunction(f) <= SumFunction(h) BY <1>1, <1>2, <1>4, SumMonotonic
<1>7. SumFunction(f) \in Int /\ SumFunction(h) \in Int BY <1>1, <1>4, SumType
<1> QED BY <1>3, <1>5, <1>6, <1>7

\* Until the first crash or exception the PAID orders never add up to more of a
\* product than there was, whatever times out, arrives late or is retried.
THEOREM NothingOversoldUntilAMishap ==
  ASSUME "slow" \notin Faults PROVE Spec => [](mishaps = 0 => NoOverselling)
<1>1. IInv /\ Balance /\ Unhurt => (mishaps = 0 => NoOverselling)
  BY NothingOversold DEF Unhurt, ReleasedOnce, NeverOverCredited
<1> QED BY <1>1, InductiveInvariant, StockBalances, UntilAMishap, PTL

LEMMA MishapsStep ==
  ASSUME [Next]_vars, mishaps = 0, {"crash", "abort"} \cap Faults = {} PROVE mishaps' = 0
  BY DEF Next, vars, Lookup, Work, Abort, Reject, Insert, AnnounceCreated, ReserveLine, ReserveRefused,
     ReserveLost, SetStockReserved, Reload, Charge, ChargeLost, ReleaseLine, CommitFailed, CommitPaid,
     AnnounceOutcome, ClearCart, Reconcile, Delivery, AbortPass, StartReconciliation, ReconcileRelease,
     ReconcileCommit, ReconcileAnnounce, ReconcileClear, StartDelivery, DeliverCommit,
     AnnounceDelivered, ExecuteLate, DropLate, FlushUnsent, ExpireUnsent, Crash

\* Where no process dies and no exception is raised, nothing is ever oversold.
THEOREM NothingIsOversold ==
  ASSUME {"slow", "crash", "abort"} \cap Faults = {} PROVE Spec => []NoOverselling
<1>1. "slow" \notin Faults /\ {"crash", "abort"} \cap Faults = {} OBVIOUS
<1>2. Init => mishaps = 0 BY DEF Init
<1>3. mishaps = 0 /\ [Next]_vars => (mishaps = 0)' BY <1>1, MishapsStep
<1>4. Spec => [](mishaps = 0) BY <1>2, <1>3, PTL DEF Spec
<1>5. Spec => [](mishaps = 0 => NoOverselling) BY <1>1, NothingOversoldUntilAMishap
<1> QED BY <1>4, <1>5, PTL

-----------------------------------------------------------------------------
(* Without time-outs: what a FAILED order has taken is given back, and what *)
(* was charged is PAID                                                      *)

\* A request leaves its own row as the invariant wants it.
LEMMA CompensatesFrame ==
  ASSUME IInv, Compensates, NEW r \in Requests, Apart(r), late' = {},
         req[r].pc \in SagaPcs \/ ~Ordered(KeyOf[r]),
         req'[r].pc \in {"undo", "fail"} =>
           \A l \in 1..Size(r) :
             held'[KeyOf[r]][l] = IF req'[r].pc = "undo" /\ l \in req'[r].line..req'[r].upto THEN 1 ELSE 0,
         pay'[KeyOf[r]] = "charged" => orders'[KeyOf[r]].status = "PAID" \/ req'[r].pc = "pay",
         orders'[KeyOf[r]].status = "FAILED" => \A l \in 1..Size(r) : held'[KeyOf[r]][l] = 0
  PROVE  Compensates'
<1> DEFINE k == KeyOf[r]
<1>1. k \in Keys /\ r # NoRequest BY Constants
<1>2. ASSUME NEW s \in Requests, req'[s].pc \in {"undo", "fail"}, NEW l \in 1..Size(s)
      PROVE  held'[KeyOf[s]][l] = IF req'[s].pc = "undo" /\ l \in req'[s].line..req'[s].upto THEN 1 ELSE 0
  <2>1. CASE s = r BY <1>2, <2>1
  <2>2. CASE s # r
    <3>1. req'[s] = req[s] BY <2>2 DEF Apart, Others
    <3>2. KeyOf[s] \in Keys /\ KeyOf[s] # k BY <1>2, <2>2, <3>1, OthersElsewhere DEF SagaPcs
    <3>3. held'[KeyOf[s]] = held[KeyOf[s]] BY <3>2 DEF Apart, OtherRows
    <3> QED BY <1>2, <3>1, <3>3 DEF Compensates
  <2> QED BY <2>1, <2>2
<1>3. ASSUME NEW j \in Keys, j # k
      PROVE  /\ orders'[j] = orders[j] /\ held'[j] = held[j] /\ pay'[j] = pay[j]
             /\ Ordered(j) => orders[j].by \in Requests /\ req'[orders[j].by] = req[orders[j].by]
  <2>1. Ordered(j) => orders[j].by \in Requests /\ orders[j].by # r
    BY <1>3 DEF IInv, Ownership, RowsOwned, Ordered
  <2> QED BY <1>3, <2>1 DEF Apart, OtherRows, Others
<1>4. ASSUME NEW j \in Keys, pay'[j] = "charged"
      PROVE  orders'[j].by \in Requests /\ (orders'[j].status = "PAID" \/ req'[orders'[j].by].pc = "pay")
  <2>1. CASE j = k BY <1>4, <2>1 DEF Apart
  <2>2. CASE j # k
    <3>1. Ordered(j) /\ (orders[j].status = "PAID" \/ req[orders[j].by].pc = "pay")
      BY <1>3, <1>4, <2>2 DEF Compensates
    <3> QED BY <1>3, <2>2, <3>1
  <2> QED BY <2>1, <2>2
<1>5. ASSUME NEW j \in Keys, orders'[j].status = "FAILED", NEW l \in Items(j)' PROVE held'[j][l] = 0
  <2>1. CASE j = k
    <3>1. orders'[j].by = r BY <2>1 DEF Apart
    <3>2. l \in 1..Size(r) BY <1>1, <1>5, <3>1 DEF Items
    <3> QED BY <1>5, <2>1, <3>2
  <2>2. CASE j # k
    <3>1. l \in Items(j) BY <1>3, <1>5, <2>2 DEF Items
    <3> QED BY <1>3, <1>5, <2>2, <3>1 DEF Compensates, FailedReturnsStock
  <2> QED BY <2>1, <2>2
<1> QED BY <1>2, <1>4, <1>5 DEF Compensates, FailedReturnsStock, Ordered

LEMMA CompensatesSaga ==
  ASSUME "timeout" \notin Faults, IInv, StillRunning, Compensates,
         NEW r \in Requests, req[r].pc \in SagaPcs, Apart(r), SagaMoves(r)
  PROVE  Compensates'
<1> DEFINE k == KeyOf[r]
<1>t. /\ held \in [Keys -> [LineNos -> Int]] /\ k \in Keys /\ orders[k].by = r
      /\ orders[k].status = "PENDING" /\ 1..Size(r) \subseteq LineNos /\ Size(r) \in Int
      /\ req[r].pc = "undo" => /\ req[r].upto \in 1..Size(r) /\ req[r].line \in 1..req[r].upto
  BY SagaType
<1>1. ~Conflicts(r) BY DEF Conflicts, StillRunning, SagaPcs
<1>2. pay[k] = "charged" => req[r].pc = "pay" BY <1>t DEF Compensates
<1>3. req[r].pc \in {"undo", "fail"} =>
        \A l \in 1..Size(r) :
          held[k][l] = IF req[r].pc = "undo" /\ l \in req[r].line..req[r].upto THEN 1 ELSE 0
  BY DEF Compensates
<1>4. late' = {}
  <2>1. ~(\E c \in late' : TRUE)
    BY <1>1 DEF Compensates, SagaMoves, Loads, Reserves, GivesUp, ReleasesOne, SetsFlag, IsCharged, Commits
  <2> QED BY <2>1
<1>5. pay'[k] = "charged" => orders'[k].status = "PAID" \/ req'[r].pc = "pay"
  BY <1>1, <1>2, <1>t DEF SagaMoves, Loads, SameRow, Reserves, GivesUp, ReleasesOne, SetsFlag, IsCharged, Commits
<1>6. orders'[k].status = "FAILED" => \A l \in 1..Size(r) : held'[k][l] = 0
  <2>1. CASE Commits(r) BY <1>3, <2>1 DEF Commits
  <2>2. CASE ~Commits(r)
    <3>1. orders'[k].status = "PENDING"
      BY <1>1, <1>t, <2>2 DEF SagaMoves, Loads, SameRow, Reserves, GivesUp, ReleasesOne, SetsFlag, IsCharged
    <3> QED BY <3>1
  <2> QED BY <2>1, <2>2
<1>7. ASSUME req'[r].pc \in {"undo", "fail"}, NEW l \in 1..Size(r)
      PROVE  held'[k][l] = IF req'[r].pc = "undo" /\ l \in req'[r].line..req'[r].upto THEN 1 ELSE 0
  <2>1. CASE GivesUp(r)
    <3>1. req[r].pc \in Forward BY <2>1 DEF GivesUp, Forward
    <3>2. held[k][l] = Reserved(r, l) BY <3>1 DEF IInv, Progress, ForwardHolds
    <3>3. req[r].pc = "reserve" => req[r].line \in 1..Size(r) BY SagaType
    <3>4. held[k][l] = IF req'[r].pc = "undo" /\ l \in req'[r].line..req'[r].upto THEN 1 ELSE 0
      BY <1>t, <2>1, <3>2, <3>3 DEF GivesUp, Reserved
    <3> QED BY <2>1, <3>4 DEF GivesUp
  <2>2. CASE ReleasesOne(r)
    <3>1. held'[k][l] = IF l = req[r].line THEN held[k][l] - 1 ELSE held[k][l]
      BY <1>t, <2>2 DEF ReleasesOne
    <3>2. /\ req[r].pc = "undo" /\ req'[r].upto = req[r].upto
          /\ \/ req[r].line < req[r].upto /\ req'[r].pc = "undo" /\ req'[r].line = req[r].line + 1
             \/ req[r].line = req[r].upto /\ req'[r].pc = "fail"
      BY <2>2 DEF ReleasesOne
    <3>3. held[k][l] = IF l \in req[r].line..req[r].upto THEN 1 ELSE 0 BY <1>3, <3>2
    <3>4. CASE req[r].line < req[r].upto BY <1>t, <3>1, <3>2, <3>3, <3>4
    <3>5. CASE req[r].line = req[r].upto BY <1>t, <3>1, <3>2, <3>3, <3>5
    <3> QED BY <3>2, <3>4, <3>5
  <2> QED BY <1>1, <1>7, <2>1, <2>2 DEF SagaMoves, Loads, Reserves, SetsFlag, IsCharged, Commits
<1> QED BY <1>4, <1>5, <1>6, <1>7, CompensatesFrame

LEMMA CompensatesOpens ==
  ASSUME IInv, Compensates, NEW r \in Requests, Apart(r), Opens(r) PROVE Compensates'
<1>1. pay[KeyOf[r]] # "charged" BY Constants DEF Opens, Compensates
<1> QED BY <1>1, CompensatesFrame DEF Opens, Compensates

\* No saga, no status and nobody's stock changes.
LEMMA CompensatesStill ==
  ASSUME IInv, Compensates, late' = {}, UNCHANGED <<held, pay>>,
         \A s \in Requests : req'[s].pc \in SagaPcs \/ req[s].pc \in SagaPcs => req'[s] = req[s],
         \A j \in Keys : orders'[j].by = orders[j].by /\ orders'[j].status = orders[j].status
  PROVE  Compensates'
<1>1. ASSUME NEW s \in Requests, req'[s].pc \in {"undo", "fail"} PROVE req'[s] = req[s]
  BY <1>1 DEF SagaPcs
<1>2. ASSUME NEW j \in Keys, pay[j] = "charged"
      PROVE  Ordered(j) /\ (orders[j].status = "PAID" \/ req'[orders[j].by].pc = "pay")
  BY <1>2 DEF Compensates, Ordered, SagaPcs
<1>3. \A j \in Keys : Items(j)' = Items(j) BY DEF Items
<1>4. FailedReturnsStock' BY <1>3 DEF Compensates, FailedReturnsStock
<1> QED BY <1>1, <1>2, <1>4 DEF Compensates, Ordered

LEMMA CompensatesStep ==
  ASSUME {"slow", "timeout"} \cap Faults = {}, IInv, StillRunning, Compensates, [Next]_vars,
         mishaps = 0, mishaps' = 0
  PROVE  Compensates'
<1>f. "slow" \notin Faults /\ "timeout" \notin Faults OBVIOUS
<1>1. ASSUME NEW r \in Requests, Lookup(r) \/ Work(r) \/ Abort(r) PROVE Compensates'
  <2>1. CASE Idles(r)
    <3>1. /\ UNCHANGED <<held, pay, orders>> /\ \A c \in late' : c \in late
          /\ \A s \in Requests : req'[s].pc \in SagaPcs \/ req[s].pc \in SagaPcs => req'[s] = req[s]
      BY <1>f, <2>1 DEF Idles, Others
    <3>2. late' = {} BY <3>1 DEF Compensates
    <3> QED BY <3>1, <3>2, CompensatesStill
  <2> QED BY <1>f, <1>1, <2>1, RequestSteps, CompensatesSaga, CompensatesOpens
<1>2. CASE Delivery BY <1>2, DeliverySteps, CompensatesStill DEF Compensates
<1>3. CASE Silent
  <2>1. late' = {} BY <1>3 DEF Silent, Compensates
  <2> QED BY <1>3, <2>1, CompensatesStill DEF Silent
<1>4. \A c \in late : ~ExecuteLate(c) BY DEF Compensates
<1>5. ~AbortPass /\ ~Crash BY DEF AbortPass, Crash
<1> QED BY <1>f, <1>1, <1>2, <1>3, <1>4, <1>5, NothingStuck, SilentSteps DEF Next

LEMMA CompensatesInit == Init => Compensates
<1> SUFFICES ASSUME Init PROVE Compensates OBVIOUS
<1>1. \A k \in Keys : pay[k] = "none" /\ orders[k].status = "NONE"
  BY DEF Init, Payment!Init, NoRow
<1>2. late = {} /\ \A r \in Requests : req[r].pc = "idle" BY DEF Init, Fresh
<1> QED BY <1>1, <1>2 DEF Compensates, FailedReturnsStock

\* Without time-outs, and until the first crash or exception, compensation is
\* exact: each line goes back once, and no charge stays behind.
THEOREM CompensationUntilAMishap ==
  ASSUME {"slow", "timeout"} \cap Faults = {} PROVE Spec => [](mishaps = 0 => Compensates)
<1>0. "slow" \notin Faults OBVIOUS
<1>1. /\ IInv /\ Unhurt /\ (mishaps = 0 => Compensates) /\ [Next]_vars
      => (mishaps = 0 => Compensates)'
  BY CompensatesStep, MishapsGrow DEF Unhurt, IInv
<1>2. Spec => []Unhurt BY <1>0, UntilAMishap
<1>3. Spec => []IInv BY <1>0, InductiveInvariant
<1> QED BY <1>1, <1>2, <1>3, CompensatesInit, PTL DEF Spec

\* Where only the broker fails, compensation is exact.
LEMMA CompensationIsExact == ASSUME Faults \subseteq {"outage"} PROVE Spec => []Compensates
<1>1. {"slow", "timeout"} \cap Faults = {} /\ {"crash", "abort"} \cap Faults = {} OBVIOUS
<1>2. Init => mishaps = 0 BY DEF Init
<1>3. mishaps = 0 /\ [Next]_vars => (mishaps = 0)' BY <1>1, MishapsStep
<1>4. Spec => [](mishaps = 0) BY <1>2, <1>3, PTL DEF Spec
<1>5. Spec => [](mishaps = 0 => Compensates) BY <1>1, CompensationUntilAMishap
<1> QED BY <1>4, <1>5, PTL

\* Where only the broker fails, a FAILED order has returned all the stock it
\* had reserved (orders.py:118-157).
THEOREM FailedOrdersReturnStock ==
  ASSUME Faults \subseteq {"outage"} PROVE Spec => []FailedReturnsStock
<1>1. Compensates => FailedReturnsStock BY DEF Compensates
<1> QED BY <1>1, CompensationIsExact, PTL

\* Where only the broker fails, the customer of a FAILED order has not been
\* charged for it (orders.py:159-189).
THEOREM FailedOrdersNotCharged ==
  ASSUME Faults \subseteq {"outage"} PROVE Spec => []FailedNotCharged
<1>1. IInv /\ Compensates => FailedNotCharged
  <2> SUFFICES ASSUME IInv, Compensates, NEW k \in Keys, orders[k].status = "FAILED",
                      pay[k] = "charged"
               PROVE  FALSE
    BY DEF FailedNotCharged
  <2>1. Ordered(k) /\ req[orders[k].by].pc = "pay" BY DEF Compensates
  <2>2. orders[k].by \in Requests /\ KeyOf[orders[k].by] = k
    BY <2>1 DEF IInv, Ownership, RowsOwned, Ordered
  <2> QED BY <2>1, <2>2, SagaType DEF SagaPcs
<1>2. "slow" \notin Faults OBVIOUS
<1>3. Spec => []IInv BY <1>2, InductiveInvariant
<1> QED BY <1>1, <1>3, CompensationIsExact, PTL

-----------------------------------------------------------------------------
(* Without time-outs: an order whose flag was committed owes nothing once it *)
(* FAILED, wherever crashes and exceptions cut its compensation short        *)

LEMMA ItemsAreLines ==
  ASSUME Ownership, NEW k \in Keys
  PROVE  /\ Items(k) \subseteq LineNos
         /\ \A l \in Items(k) : held[k][l] \in Int
         /\ Ordered(k) => Items(k) = 1..Size(orders[k].by)
<1>1. Ordered(k) => Items(k) = 1..Size(orders[k].by) BY Constants DEF Ordered, Items
<1>2. ~Ordered(k) => Items(k) = {}
  <2>1. orders[k].by \in Requests \cup {NoRequest} BY DEF Ownership, TypeOK, OrdersOK, Row
  <2> QED BY <2>1 DEF Ordered, Items
<1>3. Items(k) \subseteq LineNos BY <1>1, <1>2, ItemType
<1> QED BY <1>1, <1>3 DEF Ownership, TypeOK, WorldOK

\* A request leaves its own row as the invariant wants it.
LEMMA FlagFrame ==
  ASSUME IInv, FlagHonest, NEW r \in Requests, Apart(r),
         req[r].pc \in SagaPcs \/ ~Ordered(KeyOf[r]),
         \A c \in late' : c.op = "reserve" =>
           c \in late /\ (c.key = KeyOf[r] => ~orders'[KeyOf[r]].flag),
         req'[r].pc \in {"created", "reserve", "flag"} => ~orders'[KeyOf[r]].flag,
         orders'[KeyOf[r]].flag =>
           /\ \A l \in 1..Size(r) : held'[KeyOf[r]][l] <= 1
           /\ req'[r].pc = "undo" =>
                req'[r].upto = Size(r) /\ \A l \in 1..(req'[r].line - 1) : held'[KeyOf[r]][l] <= 0
           /\ req'[r].pc = "fail" \/ orders'[KeyOf[r]].status = "FAILED" =>
                \A l \in 1..Size(r) : held'[KeyOf[r]][l] <= 0
  PROVE  FlagHonest'
<1> DEFINE k == KeyOf[r]
<1>1. k \in Keys /\ r # NoRequest /\ orders'[k].by = r BY Constants DEF Apart
<1>2. \A j \in Keys : j # k => orders'[j] = orders[j] /\ held'[j] = held[j] /\ Items(j)' = Items(j)
  BY DEF Apart, OtherRows, Items
<1>3. Items(k)' = 1..Size(r) BY <1>1 DEF Items
<1>4. \A s \in Requests : s # r => req'[s] = req[s] BY DEF Apart, Others
<1>5. \A s \in Requests : s # r /\ req[s].pc \in SagaPcs => KeyOf[s] \in Keys /\ KeyOf[s] # k
  BY OthersElsewhere
<1>6. FlagEndsReserves'
  <2>1. ASSUME NEW s \in Requests, req'[s].pc \in {"created", "reserve", "flag"}
        PROVE  ~orders'[KeyOf[s]].flag
    BY <1>2, <1>4, <1>5, <2>1 DEF FlagHonest, FlagEndsReserves, SagaPcs
  <2>2. ASSUME NEW c \in late', c.op = "reserve" PROVE ~orders'[c.key].flag
    <3>1. c \in late /\ c.key \in Keys BY <2>2 DEF IInv, Ownership, TypeOK, LateOK, Calls
    <3> QED BY <1>2, <2>2, <3>1 DEF FlagHonest, FlagEndsReserves
  <2>3. ASSUME NEW j \in Keys, orders'[j].flag, NEW l \in Items(j)' PROVE held'[j][l] <= 1
    <3>1. CASE j = k BY <1>3, <2>3, <3>1
    <3>2. CASE j # k BY <1>2, <2>3, <3>2 DEF FlagHonest, FlagEndsReserves, AtMost
    <3> QED BY <3>1, <3>2
  <2> QED BY <2>1, <2>2, <2>3 DEF FlagEndsReserves, AtMost
<1>7. FlaggedSagas'
  <2> SUFFICES ASSUME NEW s \in Requests, orders'[KeyOf[s]].flag
               PROVE  /\ req'[s].pc = "undo" => /\ req'[s].upto = Size(s)
                                                /\ \A l \in 1..(req'[s].line - 1) : held'[KeyOf[s]][l] <= 0
                      /\ req'[s].pc = "fail" => \A l \in 1..Size(s) : held'[KeyOf[s]][l] <= 0
    BY DEF FlaggedSagas, AtMost
  <2>1. CASE s = r BY <2>1
  <2>2. CASE s # r /\ req'[s].pc \in {"undo", "fail"}
    <3>1. req'[s] = req[s] /\ orders'[KeyOf[s]] = orders[KeyOf[s]] /\ held'[KeyOf[s]] = held[KeyOf[s]]
      BY <1>2, <1>4, <1>5, <2>2 DEF SagaPcs
    <3> QED BY <3>1 DEF FlagHonest, FlaggedSagas, AtMost
  <2> QED BY <2>1, <2>2
<1>8. FlaggedPass'
  <2>1. loop' = loop BY DEF Apart
  <2>2. CASE loop.pc \in {"release", "fail"}
    <3>1. loop.cur \in Keys /\ Ordered(loop.cur) BY <2>2, LoopFacts DEF IInv
    <3>2. loop.cur # k BY <3>1, SagaAlone DEF IInv, Progress
    <3>3. /\ orders'[loop.cur] = orders[loop.cur] /\ held'[loop.cur] = held[loop.cur]
          /\ Items(loop.cur)' = Items(loop.cur)
      BY <1>2, <2>1, <3>1, <3>2
    <3> QED BY <2>1, <3>3 DEF FlagHonest, FlaggedPass, AtMost
  <2>3. CASE loop.pc \notin {"release", "fail"} BY <2>1, <2>3 DEF FlaggedPass
  <2> QED BY <2>2, <2>3
<1>9. FlaggedReturnsStock'
  <2> SUFFICES ASSUME NEW j \in Keys, orders'[j].status = "FAILED", orders'[j].flag, NEW l \in Items(j)'
               PROVE  held'[j][l] <= 0
    BY DEF FlaggedReturnsStock
  <2>1. CASE j = k BY <1>3, <2>1
  <2>2. CASE j # k BY <1>2, <2>2 DEF FlagHonest, FlaggedReturnsStock
  <2> QED BY <2>1, <2>2
<1> QED BY <1>6, <1>7, <1>8, <1>9 DEF FlagHonest

LEMMA FlagSaga ==
  ASSUME "timeout" \notin Faults, IInv, FlagHonest,
         NEW r \in Requests, req[r].pc \in SagaPcs, Apart(r), SagaMoves(r)
  PROVE  FlagHonest'
<1> DEFINE k == KeyOf[r]
<1>t. /\ held \in [Keys -> [LineNos -> Int]] /\ k \in Keys /\ orders[k].by = r /\ Ordered(k)
      /\ orders[k].status = "PENDING" /\ 1..Size(r) \subseteq LineNos /\ Size(r) \in 1..MaxLine
      /\ MaxLine \in Nat
      /\ req[r].pc = "undo" => /\ req[r].upto \in 1..Size(r) /\ req[r].line \in 1..req[r].upto
  BY SagaType, Constants
<1>1. /\ req[r].pc \in {"created", "reserve", "flag"} => ~orders[k].flag
      /\ orders[k].flag => \A l \in 1..Size(r) : held[k][l] <= 1
      /\ orders[k].flag => \A c \in late : c.op = "reserve" => c.key # k
      /\ orders[k].flag /\ req[r].pc = "undo" =>
           req[r].upto = Size(r) /\ \A l \in 1..(req[r].line - 1) : held[k][l] <= 0
      /\ orders[k].flag /\ req[r].pc = "fail" => \A l \in 1..Size(r) : held[k][l] <= 0
  BY <1>t, ItemsAreLines DEF FlagHonest, FlagEndsReserves, FlaggedSagas, AtMost, IInv
<1>2. ASSUME NEW c \in late', c.op = "reserve" PROVE c \in late
  <2>1. CASE ReleasesOne(r) BY <1>2, <2>1 DEF ReleasesOne
  <2>2. CASE GivesUp(r) BY <1>2, <2>2 DEF GivesUp
  <2> QED BY <1>2, <2>1, <2>2 DEF SagaMoves, Loads, Reserves, SetsFlag, IsCharged, Commits, Conflicts
<1>3. ASSUME orders'[k].flag, orders[k].flag
      PROVE  /\ \A l \in 1..Size(r) : held'[k][l] <= 1
             /\ req'[r].pc \notin {"created", "reserve", "flag"}
             /\ req'[r].pc = "undo" =>
                  req'[r].upto = Size(r) /\ \A l \in 1..(req'[r].line - 1) : held'[k][l] <= 0
             /\ req'[r].pc = "fail" \/ orders'[k].status = "FAILED" =>
                  \A l \in 1..Size(r) : held'[k][l] <= 0
  <2>1. CASE Loads(r) \/ IsCharged(r) \/ Conflicts(r)
    BY <1>t, <1>1, <1>3, <2>1 DEF Loads, IsCharged, Conflicts, SameRow
  <2>2. CASE Reserves(r) \/ SetsFlag(r) BY <1>1, <1>3, <2>2 DEF Reserves, SetsFlag
  <2>3. CASE GivesUp(r) BY <1>t, <1>1, <1>3, <2>3 DEF GivesUp
  <2>4. CASE ReleasesOne(r)
    <3>1. /\ \A l \in 1..Size(r) : held'[k][l] = IF l = req[r].line THEN held[k][l] - 1 ELSE held[k][l]
          /\ \A l \in 1..Size(r) : held[k][l] \in Int
      BY <1>t, <2>4 DEF ReleasesOne
    <3>2. /\ req[r].pc = "undo" /\ req'[r].upto = req[r].upto /\ orders'[k].status = "PENDING"
          /\ \/ req[r].line < req[r].upto /\ req'[r].pc = "undo" /\ req'[r].line = req[r].line + 1
             \/ req[r].line = req[r].upto /\ req'[r].pc = "fail"
      BY <1>t, <2>4 DEF ReleasesOne
    <3>3. req[r].upto = Size(r) /\ req[r].line \in 1..Size(r) BY <1>t, <1>1, <1>3, <3>2
    <3>4. \A l \in 1..Size(r) : held'[k][l] <= 1 BY <1>1, <1>3, <3>1
    <3>5. \A l \in 1..Size(r) : l <= req[r].line => held'[k][l] <= 0
      BY <1>1, <1>3, <3>1, <3>2, <3>3
    <3> QED BY <1>t, <3>2, <3>3, <3>4, <3>5
  <2>5. CASE Commits(r) BY <1>t, <1>1, <1>3, <2>5 DEF Commits
  <2> QED BY <2>1, <2>2, <2>3, <2>4, <2>5 DEF SagaMoves
<1>4. ASSUME orders'[k].flag, ~orders[k].flag
      PROVE  /\ \A l \in 1..Size(r) : held'[k][l] <= 1
             /\ req'[r].pc = "reload" /\ orders'[k].status = "PENDING"
             /\ \A c \in late : c.op = "reserve" => c.key # k
  <2>1. SetsFlag(r)
    BY <1>4 DEF SagaMoves, Loads, Reserves, GivesUp, ReleasesOne, IsCharged, Commits, Conflicts, SameRow
  <2>2. req[r].pc \in Forward /\ req[r].pc = "flag" BY <2>1 DEF SetsFlag, Forward
  <2>3. Quiet(k) /\ \A l \in 1..Size(r) : held[k][l] = 1
    BY <2>2 DEF IInv, Progress, ForwardHolds, Reserved
  <2> QED BY <1>t, <2>1, <2>3 DEF SetsFlag, Quiet
<1> QED BY <1>1, <1>2, <1>3, <1>4, FlagFrame

LEMMA FlagOpens ==
  ASSUME IInv, FlagHonest, NEW r \in Requests, Apart(r), Opens(r) PROVE FlagHonest'
  BY FlagFrame DEF Opens

\* No saga moves, and orders with the flag do not get more stock.
LEMMA FlagStill ==
  ASSUME IInv, FlagHonest,
         \A s \in Requests : req'[s].pc \in SagaPcs => req'[s] = req[s],
         \A c \in late' : c.op = "reserve" => c.key \in Keys /\ ~orders[c.key].flag,
         \A j \in Keys : orders'[j].by = orders[j].by /\ orders'[j].flag = orders[j].flag,
         \A j \in Keys : orders[j].flag => \A l \in LineNos : held'[j][l] \in Int /\ held'[j][l] <= held[j][l],
         \A j \in Keys : orders[j].flag /\ orders'[j].status = "FAILED" =>
           orders[j].status = "FAILED" \/ AtMost(j, 0, Items(j)),
         FlaggedPass'
  PROVE  FlagHonest'
<1>1. \A j \in Keys : Items(j)' = Items(j) /\ \A l \in Items(j) : l \in LineNos /\ held[j][l] \in Int
  BY ItemsAreLines DEF Items, IInv
<1>2. FlagEndsReserves'
  <2>1. ASSUME NEW s \in Requests, req'[s].pc \in {"created", "reserve", "flag"}
        PROVE  ~orders'[KeyOf[s]].flag
    BY <2>1, Constants DEF FlagHonest, FlagEndsReserves, SagaPcs
  <2>2. \A j \in Keys : orders'[j].flag => \A l \in Items(j)' : held'[j][l] <= 1
    BY <1>1 DEF FlagHonest, FlagEndsReserves, AtMost
  <2> QED BY <2>1, <2>2 DEF FlagEndsReserves, AtMost
<1>3. FlaggedSagas'
  <2> SUFFICES ASSUME NEW s \in Requests, orders'[KeyOf[s]].flag, req'[s].pc \in {"undo", "fail"}
               PROVE  /\ req'[s].pc = "undo" => /\ req'[s].upto = Size(s)
                                                /\ \A l \in 1..(req'[s].line - 1) : held'[KeyOf[s]][l] <= 0
                      /\ req'[s].pc = "fail" => \A l \in 1..Size(s) : held'[KeyOf[s]][l] <= 0
    BY DEF FlaggedSagas, AtMost
  <2>1. req'[s] = req[s] /\ req[s].pc \in SagaPcs BY DEF SagaPcs
  <2>2. /\ KeyOf[s] \in Keys /\ orders[KeyOf[s]].flag /\ held \in [Keys -> [LineNos -> Int]]
        /\ Size(s) \in Int /\ 1..Size(s) \subseteq LineNos
        /\ req[s].pc = "undo" => req[s].upto \in 1..Size(s) /\ req[s].line \in 1..req[s].upto
    BY <2>1, SagaType
  <2>3. \A l \in 1..Size(s) : held[KeyOf[s]][l] <= 0 => held'[KeyOf[s]][l] <= 0 BY <2>2
  <2>4. /\ req[s].pc = "undo" => /\ req[s].upto = Size(s)
                                 /\ \A l \in 1..(req[s].line - 1) : held[KeyOf[s]][l] <= 0
        /\ req[s].pc = "fail" => \A l \in 1..Size(s) : held[KeyOf[s]][l] <= 0
    BY <2>2 DEF FlagHonest, FlaggedSagas, AtMost
  <2>5. req[s].pc = "undo" => \A l \in 1..(req[s].line - 1) : l \in 1..Size(s) BY <2>2
  <2> QED BY <2>1, <2>3, <2>4, <2>5
<1>4. FlaggedReturnsStock'
  <2> SUFFICES ASSUME NEW j \in Keys, orders'[j].status = "FAILED", orders'[j].flag, NEW l \in Items(j)'
               PROVE  held'[j][l] <= 0
    BY DEF FlaggedReturnsStock
  <2>1. held[j][l] <= 0 BY <1>1 DEF FlagHonest, FlaggedReturnsStock, AtMost
  <2> QED BY <1>1, <2>1
<1> QED BY <1>2, <1>3, <1>4 DEF FlagHonest

\* The pass stays on its order, which gets no more stock.
LEMMA PassStays ==
  ASSUME IInv, FlagHonest, UNCHANGED loop,
         \A j \in Keys : orders'[j].by = orders[j].by /\ orders'[j].flag = orders[j].flag,
         \A j \in Keys : orders[j].flag => \A l \in LineNos : held'[j][l] \in Int /\ held'[j][l] <= held[j][l]
  PROVE  FlaggedPass'
<1>1. CASE loop.pc \in {"release", "fail"}
  <2> DEFINE k == loop.cur
  <2>1. /\ k \in Keys /\ Ordered(k) /\ Items(k) = 1..Size(orders[k].by) /\ Size(orders[k].by) \in Int
        /\ Items(k) \subseteq LineNos /\ \A l \in Items(k) : held[k][l] \in Int
        /\ loop.pc = "release" => loop.line \in 1..Size(orders[k].by)
    BY <1>1, LoopFacts, ItemsAreLines DEF IInv
  <2>2. Items(k)' = Items(k) BY <2>1 DEF Items
  <2>3. orders[k].flag => \A l \in Items(k) : held[k][l] <= 0 => held'[k][l] <= 0 BY <2>1
  <2>4. loop.pc = "release" => \A l \in 1..(loop.line - 1) : l \in Items(k) BY <2>1
  <2> QED BY <2>1, <2>2, <2>3, <2>4 DEF FlagHonest, FlaggedPass, AtMost
<1>2. CASE loop.pc \notin {"release", "fail"} BY <1>2 DEF FlaggedPass
<1> QED BY <1>1, <1>2

\* A pass takes up an order: releases are due if and only if it has the flag.
LEMMA PassBegins ==
  ASSUME NEW k \in Keys, NEW rest, loop' = BeginRec(k, rest), UNCHANGED orders
  PROVE  FlaggedPass'
<1>1. loop'.cur = k /\ loop'.line = 1 /\ loop'.pc = IF orders[k].flag THEN "release" ELSE "fail"
  BY DEF BeginRec, Begin
<1> QED BY <1>1 DEF FlaggedPass, AtMost

\* A pass gives back a line of an order that has the flag.
LEMMA PassReleases ==
  ASSUME "timeout" \notin Faults, IInv, FlagHonest, ReconcileRelease PROVE FlagHonest'
<1> DEFINE k == loop.cur
<1>1. /\ loop.pc = "release" /\ UNCHANGED <<req, orders, late>> /\ DoRelease(k, loop.line)
  BY DEF ReconcileRelease, ReleaseStock, Lose
<1>2. /\ k \in Keys /\ Ordered(k) /\ Items(k) = 1..Size(orders[k].by) /\ Size(orders[k].by) \in Int
      /\ Items(k) \subseteq LineNos /\ loop.line \in Items(k) /\ loop \in LoopState
      /\ held \in [Keys -> [LineNos -> Int]]
  BY <1>1, LoopFacts, ItemsAreLines DEF IInv, Ownership, TypeOK, WorldOK
<1>3. \A j \in Keys, l \in LineNos :
        held'[j][l] = IF j = k /\ l = loop.line THEN held[j][l] - 1 ELSE held[j][l]
  <2>1. held' = [held EXCEPT ![k][loop.line] = @ - 1] BY <1>1 DEF DoRelease
  <2> QED BY <1>2, <2>1
<1>4. orders[k].flag /\ \A l \in 1..(loop.line - 1) : held[k][l] <= 0
  BY <1>1 DEF FlagHonest, FlaggedPass, AtMost
<1>5. \A l \in Items(k) : held[k][l] <= 1 /\ held[k][l] \in Int
  BY <1>2, <1>4 DEF FlagHonest, FlagEndsReserves, AtMost
<1>6. \A l \in Items(k) : l <= loop.line => held'[k][l] <= 0 BY <1>2, <1>3, <1>4, <1>5
<1>7. /\ loop'.cur = k
      /\ \/ loop'.pc = "release" /\ loop'.line = loop.line + 1 /\ loop.line < Size(orders[k].by)
         \/ loop'.pc = "fail" /\ loop.line = Size(orders[k].by)
  BY <1>1, <1>2 DEF ReconcileRelease, LoopGoto, LoopState
<1>8. FlaggedPass'
  <2>1. Items(k)' = Items(k) BY <1>1, <1>7 DEF Items
  <2>2. CASE loop'.pc = "release"
    <3>0. loop.line \in 1..Size(orders[k].by) /\ Size(orders[k].by) \in Int BY <1>2
    <3>1. loop'.line = loop.line + 1 /\ loop.line < Size(orders[k].by) BY <1>7, <2>2
    <3>4. \A l \in 1..(loop'.line - 1) : l \in 1..Size(orders[k].by) /\ l <= loop.line BY <3>0, <3>1
    <3>2. \A l \in 1..(loop'.line - 1) : held'[k][l] <= 0 BY <1>2, <1>6, <3>4
    <3>3. orders'[k].flag BY <1>1, <1>4
    <3> QED BY <1>7, <2>2, <3>2, <3>3 DEF FlaggedPass, AtMost
  <2>3. CASE loop'.pc = "fail" BY <1>1, <1>2, <1>6, <1>7, <2>1, <2>3 DEF FlaggedPass, AtMost
  <2> QED BY <1>7, <2>2, <2>3
<1>9. \A c \in late : c.op = "reserve" => c.key \in Keys /\ ~orders[c.key].flag
  BY DEF FlagHonest, FlagEndsReserves, IInv, Ownership, TypeOK, LateOK, Calls
<1>10. \A j \in Keys, l \in LineNos : held'[j][l] \in Int /\ held'[j][l] <= held[j][l] BY <1>2, <1>3
<1> QED BY <1>1, <1>8, <1>9, <1>10, FlagStill

LEMMA PassCommits == ASSUME IInv, FlagHonest, ReconcileCommit PROVE FlagHonest'
<1> DEFINE k == loop.cur
           row == [orders[k] EXCEPT !.status = "FAILED", !.reason = "RECONCILIATION_TIMEOUT"]
<1>1. /\ loop.pc = "fail" /\ UNCHANGED <<req, held, late>>
      /\ loop \in LoopState /\ orders \in [Keys -> Row] /\ orders[k] \in Row /\ k \in Keys
      /\ held \in [Keys -> [LineNos -> Int]]
  BY LoopFacts DEF ReconcileCommit, world, IInv, Ownership, TypeOK, OrdersOK, WorldOK
<1>2. \/ loop' = Idle /\ orders' = orders
      \/ loop' = LoopGoto("tell") /\ orders' = [orders EXCEPT ![k] = row]
  BY DEF ReconcileCommit
<1>3. row.by = orders[k].by /\ row.flag = orders[k].flag BY <1>1 DEF Row
<1> HIDE DEF row
<1>4. /\ \A j \in Keys : j # k => orders'[j] = orders[j]
      /\ \A j \in Keys : orders'[j].by = orders[j].by /\ orders'[j].flag = orders[j].flag
  BY <1>1, <1>2, <1>3
<1>5. orders[k].flag => AtMost(k, 0, Items(k)) BY <1>1 DEF FlagHonest, FlaggedPass
<1>6. loop'.pc \notin {"release", "fail"} BY <1>1, <1>2 DEF Idle, LoopGoto, LoopState
<1>7. FlaggedPass' BY <1>6 DEF FlaggedPass
<1>8. \A c \in late : c.op = "reserve" => c.key \in Keys /\ ~orders[c.key].flag
  BY DEF FlagHonest, FlagEndsReserves, IInv, Ownership, TypeOK, LateOK, Calls
<1>9. \A j \in Keys, l \in LineNos : held'[j][l] \in Int /\ held'[j][l] <= held[j][l] BY <1>1
<1> QED BY <1>1, <1>4, <1>5, <1>7, <1>8, <1>9, FlagStill

\* What dies with the process is a request, a pass, or a reserve of an order
\* that does not have the flag yet.
LEMMA FlagCrash == ASSUME IInv, FlagHonest, Crash PROVE FlagHonest'
<1>1. /\ UNCHANGED <<orders, held>> /\ late' = late \cup InProgress /\ loop' = Idle
      /\ held \in [Keys -> [LineNos -> Int]]
  BY DEF Crash, world, IInv, Ownership, TypeOK, WorldOK
<1>2. \A s \in Requests : req'[s].pc \notin SagaPcs BY DEF Crash, Fresh, SagaPcs
<1>3. ASSUME NEW c \in InProgress, c.op = "reserve" PROVE c.key \in Keys /\ ~orders[c.key].flag
  <2>1. \E r \in Requests : req[r].pc = "reserve" /\ c.key = KeyOf[r]
    BY <1>3 DEF InProgress, Call
  <2> QED BY <2>1, Constants DEF FlagHonest, FlagEndsReserves
<1>4. \A c \in late : c.op = "reserve" => c.key \in Keys /\ ~orders[c.key].flag
  BY DEF FlagHonest, FlagEndsReserves, IInv, Ownership, TypeOK, LateOK, Calls
<1>5. FlaggedPass' BY <1>1 DEF FlaggedPass, Idle
<1>6. \A j \in Keys, l \in LineNos : held'[j][l] \in Int /\ held'[j][l] <= held[j][l] BY <1>1
<1>7. \A c \in late' : c.op = "reserve" => c.key \in Keys /\ ~orders[c.key].flag
  BY <1>1, <1>3, <1>4
<1> QED BY <1>1, <1>2, <1>5, <1>6, <1>7, FlagStill

LEMMA FlagStep ==
  ASSUME {"slow", "timeout"} \cap Faults = {}, IInv, FlagHonest, [Next]_vars PROVE FlagHonest'
<1>f. "timeout" \notin Faults OBVIOUS
<1>t. \A j \in Keys, l \in LineNos : held[j][l] \in Int /\ held[j][l] <= held[j][l]
  BY DEF IInv, Ownership, TypeOK, WorldOK
<1>l. \A c \in late : c.op = "reserve" => c.key \in Keys /\ ~orders[c.key].flag
  BY DEF FlagHonest, FlagEndsReserves, IInv, Ownership, TypeOK, LateOK, Calls
<1>1. ASSUME NEW r \in Requests, Lookup(r) \/ Work(r) \/ Abort(r) PROVE FlagHonest'
  <2>1. CASE Idles(r)
    <3>1. /\ UNCHANGED <<held, orders, loop>> /\ \A c \in late' : c.op = "reserve" => c \in late
          /\ \A s \in Requests : req'[s].pc \in SagaPcs => req'[s] = req[s]
      BY <2>1 DEF Idles, Others
    <3>2. FlaggedPass' BY <1>t, <3>1, PassStays
    <3> QED BY <1>t, <1>l, <3>1, <3>2, FlagStill
  <2> QED BY <1>f, <1>1, <2>1, RequestSteps, FlagSaga, FlagOpens
<1>2. CASE Delivery
  <2>1. FlaggedPass' BY <1>2, DeliverySteps DEF FlaggedPass
  <2> QED BY <1>t, <1>l, <1>2, <2>1, DeliverySteps, FlagStill
<1>3. CASE Silent
  <2>1. FlaggedPass' BY <1>3, <1>t, PassStays DEF Silent
  <2> QED BY <1>t, <1>l, <1>3, <2>1, FlagStill DEF Silent
<1>4. ASSUME NEW c \in late, ExecuteLate(c) PROVE FlagHonest'
  <2>1. UNCHANGED <<req, orders, loop>> /\ late' \subseteq late BY <1>4, LateSteps
  <2>2. \A j \in Keys : orders[j].flag =>
          \A l \in LineNos : held'[j][l] \in Int /\ held'[j][l] <= held[j][l]
    BY <1>4, <1>t, <1>l, LateSteps
  <2>3. FlaggedPass' BY <2>1, <2>2, PassStays
  <2> QED BY <1>l, <2>1, <2>2, <2>3, FlagStill
<1>5. CASE Reconcile
  <2>1. CASE ReconcileRelease BY <1>f, <2>1, PassReleases
  <2>2. CASE ReconcileCommit BY <2>2, PassCommits
  <2>3. CASE StartReconciliation \/ ReconcileAnnounce \/ ReconcileClear
    <3>1. UNCHANGED <<req, orders, held, late>>
      BY <1>f, <2>3 DEF StartReconciliation, ReconcileAnnounce, ReconcileClear, ClearCartItems, DoClear,
         Lose, world
    <3>2. ASSUME NEW k \in Keys, NEW rest, loop' = BeginRec(k, rest) PROVE FlaggedPass'
      BY <3>1, <3>2, PassBegins
    <3>3. ASSUME loop'.pc \notin {"release", "fail"} PROVE FlaggedPass' BY <3>3 DEF FlaggedPass
    <3>4. \/ \E k \in Keys : \E rest : loop' = BeginRec(k, rest)
          \/ loop'.pc \notin {"release", "fail"}
      <4>1. CASE StartReconciliation BY <4>1 DEF StartReconciliation, Stuck
      <4>2. CASE ReconcileAnnounce
        <5>1. loop \in LoopState BY DEF IInv, Ownership, TypeOK, LoopOK
        <5> QED BY <4>2, <5>1 DEF ReconcileAnnounce, LoopGoto, LoopState
      <4>3. CASE ReconcileClear
        <5>1. loop.batch \subseteq Keys BY DEF IInv, Ownership, TypeOK, LoopOK, LoopState
        <5>2. CASE loop' = Idle BY <5>2 DEF Idle
        <5>3. CASE loop.batch # {} /\ \E k \in loop.batch : loop' = BeginRec(k, loop.batch \ {k})
          BY <5>1, <5>3
        <5> QED BY <4>3, <5>2, <5>3 DEF ReconcileClear
      <4> QED BY <2>3, <4>1, <4>2, <4>3
    <3> QED BY <1>t, <1>l, <3>1, <3>2, <3>3, <3>4, FlagStill
  <2> QED BY <1>5, <2>1, <2>2, <2>3 DEF Reconcile
<1>6. CASE AbortPass
  <2>1. UNCHANGED <<req, orders, held, late>> /\ FlaggedPass'
    BY <1>6 DEF AbortPass, world, FlaggedPass, Idle
  <2> QED BY <1>t, <1>l, <2>1, FlagStill
<1>7. CASE Crash BY <1>7, FlagCrash
<1> QED BY <1>1, <1>2, <1>3, <1>4, <1>5, <1>6, <1>7, SilentSteps DEF Next

LEMMA FlagInit == Init => FlagHonest
<1> SUFFICES ASSUME Init PROVE FlagHonest OBVIOUS
<1>1. \A k \in Keys : ~orders[k].flag BY DEF Init, NoRow
<1>2. late = {} /\ loop.pc = "idle" /\ \A r \in Requests : KeyOf[r] \in Keys
  BY Constants DEF Init, Idle
<1> QED BY <1>1, <1>2 DEF FlagHonest, FlagEndsReserves, FlaggedSagas, FlaggedPass, FlaggedReturnsStock

\* Without time-outs, whatever crashes and aborts: an order whose
\* stock_reserved was committed owes no stock once it FAILED
\* (reconciliation.py:40-46).
THEOREM FlaggedOrdersReturnStock ==
  ASSUME {"slow", "timeout"} \cap Faults = {} PROVE Spec => []FlaggedReturnsStock
<1>1. IInv /\ FlagHonest /\ [Next]_vars => FlagHonest' BY FlagStep
<1>2. FlagHonest => FlaggedReturnsStock BY DEF FlagHonest
<1>3. "slow" \notin Faults OBVIOUS
<1>4. Spec => []IInv BY <1>3, InductiveInvariant
<1> QED BY <1>1, <1>2, <1>4, FlagInit, PTL DEF Spec
====
