---------------------------- MODULE SumTheorems ----------------------------
(***************************************************************************)
(* What SumFunction of the community modules computes: its recursion over  *)
(* the subsets of the domain is well defined, a sum of natural numbers is  *)
(* one, and a sum is monotonic, strictly so where a summand grows.  There  *)
(* is no induction theorem to instantiate here (they take an operator): a  *)
(* proof by induction is one by a smallest counterexample.                 *)
(***************************************************************************)
EXTENDS Functions, Integers, FiniteSetTheorems, TLAPS

\* A nonempty set of subsets of a finite set has a smallest member.
LEMMA SmallestSubset ==
    ASSUME NEW S, IsFiniteSet(S), NEW T \in SUBSET SUBSET S, T # {}
    PROVE  \E s \in T : \A t \in T : t \subseteq s => t = s
<1>1. IsWellFoundedOn(StrictSubsetOrdering(S), SUBSET S)
    BY FS_StrictSubsetOrderingWellFounded, FS_FiniteSubsetsOfFinite
<1>2. PICK s \in T : \A t \in T : <<t, s>> \notin StrictSubsetOrdering(S)
    BY <1>1, WFMin
<1>3. QED BY <1>2 DEF StrictSubsetOrdering

\* The summand taken first, the rest, and the equation a table of sums satisfies.
Taken(s) == CHOOSE x \in s : TRUE
Rest(s) == s \ {Taken(s)}
SumFrom(fun, g, s) == IF s = {} THEN 0 ELSE fun[Taken(s)] + g[Rest(s)]
IsTable(g, fun, S) == g = [s \in SUBSET S |-> SumFrom(fun, g, s)]
Table(fun, S) == CHOOSE g : IsTable(g, fun, S)

\* SumFunctionOnSet looks its result up in such a table.
LEMMA SumIsFromTable ==
    ASSUME NEW fun, NEW S
    PROVE  SumFunctionOnSet(fun, S) = Table(fun, S)[S]
BY DEF SumFunctionOnSet, FoldFunctionOnSet, MapThenFoldSet, Table, IsTable, SumFrom,
       Taken, Rest

\* What is left after one summand is a smaller set.
LEMMA RestIsSmaller ==
    ASSUME NEW s, s # {}
    PROVE  Taken(s) \in s /\ Rest(s) \subseteq s /\ Rest(s) # s
           /\ s = Rest(s) \cup {Taken(s)} /\ Taken(s) \notin Rest(s)
BY DEF Taken, Rest

\* A table satisfies its equation at each of its entries.
LEMMA TableAt ==
    ASSUME NEW fun, NEW S, NEW g, IsTable(g, fun, S), NEW s \in SUBSET S
    PROVE  g[s] = SumFrom(fun, g, s)
<1>1. g = [t \in SUBSET S |-> SumFrom(fun, g, t)] BY DEF IsTable
<1>2. [t \in SUBSET S |-> SumFrom(fun, g, t)][s] = SumFrom(fun, g, s) OBVIOUS
<1>3. QED BY <1>1, <1>2

\* Two tables agree where both have an entry.
LEMMA TablesAgree ==
    ASSUME NEW fun, NEW S, NEW T, NEW g, NEW h, IsTable(g, fun, S), IsTable(h, fun, T),
           IsFiniteSet(S), NEW r \in SUBSET (S \cap T)
    PROVE  g[r] = h[r]
<1> DEFINE Bad == {s \in SUBSET (S \cap T) : g[s] # h[s]}
<1>1. SUFFICES ASSUME Bad # {} PROVE FALSE OBVIOUS
<1>2. PICK s \in Bad : \A t \in Bad : t \subseteq s => t = s
    <2>1. Bad \in SUBSET SUBSET S OBVIOUS
    <2> HIDE DEF Bad
    <2>2. QED BY <1>1, <2>1, SmallestSubset
<1>3. g[s] = SumFrom(fun, g, s) /\ h[s] = SumFrom(fun, h, s) BY <1>2, TableAt
<1>4. CASE s = {} BY <1>2, <1>3, <1>4 DEF SumFrom
<1>5. CASE s # {}
    <2>1. Rest(s) \notin Bad BY <1>2, <1>5, RestIsSmaller
    <2>2. g[Rest(s)] = h[Rest(s)] BY <1>2, <1>5, <2>1, RestIsSmaller
    <2>3. QED BY <1>2, <1>3, <1>5, <2>2 DEF SumFrom
<1>6. QED BY <1>4, <1>5

\* Every finite set has its table.
LEMMA TableExists ==
    ASSUME NEW fun, NEW S, IsFiniteSet(S)
    PROVE  IsTable(Table(fun, S), fun, S)
<1> DEFINE Has(T) == \E g : IsTable(g, fun, T)
<1> DEFINE Bad == {T \in SUBSET S : ~Has(T)}
<1>1. SUFFICES Has(S) BY DEF Table
<1>2. SUFFICES ASSUME Bad # {} PROVE FALSE OBVIOUS
<1>3. PICK T \in Bad : \A U \in Bad : U \subseteq T => U = T
    <2>1. Bad \in SUBSET SUBSET S OBVIOUS
    <2> HIDE DEF Bad
    <2>2. QED BY <1>2, <2>1, SmallestSubset
<1>4. ASSUME NEW U \in SUBSET T, U # T PROVE IsTable(Table(fun, U), fun, U)
    <2>1. Has(U) BY <1>3, <1>4
    <2>2. QED BY <2>1 DEF Table
<1> DEFINE g == [s \in SUBSET T |-> IF s = {} THEN 0
                                    ELSE fun[Taken(s)] + Table(fun, Rest(s))[Rest(s)]]
<1>5. ASSUME NEW s \in SUBSET T PROVE g[s] = SumFrom(fun, g, s)
    <2>1. CASE s = {} BY <2>1 DEF SumFrom
    <2>2. CASE s # {}
        <3> DEFINE r == Rest(s)
        <3>1. r \in SUBSET T /\ r # T BY <2>2, RestIsSmaller
        <3>2. IsTable(Table(fun, r), fun, r) BY <1>4, <3>1
        <3>3. Table(fun, r)[r] = SumFrom(fun, Table(fun, r), r) BY <3>2, TableAt
        <3>4. Table(fun, r)[r] = g[r]
            <4>1. CASE r = {} BY <3>1, <3>3, <4>1 DEF SumFrom
            <4>2. CASE r # {}
                <5>1. Rest(r) \in SUBSET r /\ Rest(r) # T BY <3>1, <4>2, RestIsSmaller
                <5>2. IsTable(Table(fun, Rest(r)), fun, Rest(r)) BY <1>4, <3>1, <5>1
                <5>3. IsFiniteSet(r) BY <3>1, <1>3, FS_Subset
                <5>4. Table(fun, r)[Rest(r)] = Table(fun, Rest(r))[Rest(r)]
                    BY <3>2, <5>1, <5>2, <5>3, TablesAgree
                <5>5. QED BY <3>1, <3>3, <4>2, <5>4 DEF SumFrom
            <4>3. QED BY <4>1, <4>2
        <3>5. QED BY <2>2, <3>4 DEF SumFrom
    <2>3. QED BY <2>1, <2>2
<1>6. IsTable(g, fun, T)
    <2>1. [s \in SUBSET T |-> SumFrom(fun, g, s)] = g BY <1>5
    <2>2. QED BY <2>1 DEF IsTable
<1>7. QED BY <1>3, <1>6

----------------------------------------------------------------------------
(* Sums of natural numbers *)

\* By pairs: whoever is at most another summand by summand has at most its sum, and less
\* if it is less at one.
LEMMA TablesCompare ==
    ASSUME NEW S, IsFiniteSet(S), NEW f \in [S -> Nat], NEW h \in [S -> Nat],
           \A x \in S : f[x] <= h[x], NEW r \in SUBSET S
    PROVE  /\ Table(f, S)[r] \in Nat /\ Table(h, S)[r] \in Nat
           /\ Table(f, S)[r] <= Table(h, S)[r]
           /\ (\E x \in r : f[x] < h[x]) => Table(f, S)[r] < Table(h, S)[r]
<1> DEFINE F == Table(f, S)
<1> DEFINE H == Table(h, S)
<1> DEFINE Good(s) == /\ F[s] \in Nat /\ H[s] \in Nat /\ F[s] <= H[s]
                      /\ (\E x \in s : f[x] < h[x]) => F[s] < H[s]
<1> DEFINE Bad == {s \in SUBSET S : ~Good(s)}
<1>1. SUFFICES ASSUME Bad # {} PROVE FALSE OBVIOUS
<1>2. PICK s \in Bad : \A t \in Bad : t \subseteq s => t = s
    <2>1. Bad \in SUBSET SUBSET S OBVIOUS
    <2> HIDE DEF Bad
    <2>2. QED BY <1>1, <2>1, SmallestSubset
<1>3. F[s] = SumFrom(f, F, s) /\ H[s] = SumFrom(h, H, s)
    BY <1>2, TableExists, TableAt
<1> HIDE DEF F, H
<1>4. CASE s = {} BY <1>2, <1>3, <1>4 DEF SumFrom
<1>5. CASE s # {}
    <2>1. Good(Rest(s)) BY <1>2, <1>5, RestIsSmaller
    <2>2. Taken(s) \in S /\ s = Rest(s) \cup {Taken(s)} BY <1>2, <1>5, RestIsSmaller
    <2>3. F[s] = f[Taken(s)] + F[Rest(s)] /\ H[s] = h[Taken(s)] + H[Rest(s)]
        BY <1>3, <1>5 DEF SumFrom
    <2>4. f[Taken(s)] \in Nat /\ h[Taken(s)] \in Nat /\ f[Taken(s)] <= h[Taken(s)]
        BY <2>2
    <2>5. F[s] \in Nat /\ H[s] \in Nat /\ F[s] <= H[s] BY <2>1, <2>3, <2>4
    <2>6. ASSUME NEW x \in s, f[x] < h[x] PROVE F[s] < H[s]
        <3>1. CASE x = Taken(s) BY <2>1, <2>3, <2>4, <2>6, <3>1
        <3>2. CASE x \in Rest(s) BY <2>1, <2>3, <2>4, <2>6, <3>2
        <3>3. QED BY <2>2, <3>1, <3>2
    <2>7. QED BY <1>2, <2>5, <2>6
<1>6. QED BY <1>4, <1>5

\* A sum of natural numbers is one, and is monotonic.
THEOREM SumsCompare ==
    ASSUME NEW S, IsFiniteSet(S), NEW f \in [S -> Nat], NEW h \in [S -> Nat],
           \A x \in S : f[x] <= h[x]
    PROVE  /\ SumFunction(f) \in Nat /\ SumFunction(h) \in Nat
           /\ SumFunction(f) <= SumFunction(h)
           /\ (\E x \in S : f[x] < h[x]) => SumFunction(f) < SumFunction(h)
<1>1. SumFunction(f) = Table(f, S)[S] /\ SumFunction(h) = Table(h, S)[S]
    BY SumIsFromTable DEF SumFunction
<1>2. QED BY <1>1, TablesCompare
============================================================================
