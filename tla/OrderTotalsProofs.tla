------------------------- MODULE OrderTotalsProofs --------------------------
(***************************************************************************)
(* Proofs about the sums of OrderLifecycle: what the orders of a store     *)
(* take from its shelf and bring to its bank cards, and what the refunds   *)
(* of an order claim of its total.  No bound on the number of orders is    *)
(* assumed for the cards: only finitely many hold goods at any time.       *)
(*                                                                         *)
(* A sum is defined by recursion on a set.  The induction it takes is      *)
(* stated without an operator parameter: a nonempty set of subsets of a    *)
(* finite set has a smallest one, so there is no smallest counterexample.  *)
(***************************************************************************)
EXTENDS OrderLifecycleProofs, Functions, WellFoundedInduction

-----------------------------------------------------------------------------
(* The sum of the values of a function over a finite set of its arguments: *)
(* what it is for no argument, with one more or less, and how it compares. *)

\* The element the recursion takes out first.
First(s) == CHOOSE x \in s : TRUE

\* One step of the recursion for the set s, from the table g of smaller sets.
SumStep(f, g, s) == IF s = {} THEN 0 ELSE f[First(s)] + g[s \ {First(s)}]

\* g holds the sum of every subset of S.
IsTable(f, S, g) == g = [s \in SUBSET S |-> SumStep(f, g, s)]

Table(f, S) == CHOOSE g : IsTable(f, S, g)

\* The definition of the community modules with its operators expanded.
LEMMA SumIsTable ==
    ASSUME NEW f, NEW S
    PROVE  SumFunctionOnSet(f, S) = Table(f, S)[S]
BY DEF SumFunctionOnSet, FoldFunctionOnSet, MapThenFoldSet, Table, IsTable,
       SumStep, First

\* Of the subsets of a finite set, some have no smaller one among them.
LEMMA SmallestSubset ==
    ASSUME NEW S, IsFiniteSet(S), NEW T, T \subseteq SUBSET S, T # {}
    PROVE  \E s \in T : \A t \in T : t \subseteq s => t = s
<1>1. FiniteSubsetsOf(S) = SUBSET S
  BY FS_FiniteSubsetsOfFinite
<1>2. IsWellFoundedOn(StrictSubsetOrdering(S), SUBSET S)
  BY <1>1, FS_StrictSubsetOrderingWellFounded
<1>3. \E s \in T : \A t \in T : ~(<<t, s>> \in StrictSubsetOrdering(S))
  BY <1>2, WFMin
<1> QED
  BY <1>3 DEF StrictSubsetOrdering

LEMMA FirstIn == ASSUME NEW s, s # {} PROVE First(s) \in s
BY DEF First

\* Two tables agree wherever both are defined, also when they are made for
\* functions that differ elsewhere.
LEMMA TablesAgree ==
    ASSUME NEW S, IsFiniteSet(S), NEW A, NEW B, S \subseteq A, S \subseteq B,
           NEW f, NEW h, \A x \in S : f[x] = h[x],
           NEW g, IsTable(f, A, g), NEW k, IsTable(h, B, k)
    PROVE  g[S] = k[S]
<1> DEFINE T == {s \in SUBSET S : g[s] # k[s]}
<1>1. SUFFICES ASSUME T # {} PROVE FALSE
  OBVIOUS
<1>2. PICK s \in T : \A t \in T : t \subseteq s => t = s
  <2>1. T \subseteq SUBSET S
    OBVIOUS
  <2> HIDE DEF T
  <2> QED
    BY <1>1, <2>1, SmallestSubset
<1>3. g[s] = SumStep(f, g, s) /\ k[s] = SumStep(h, k, s)
  BY <1>2 DEF IsTable
<1>4. s # {}
  BY <1>2, <1>3 DEF SumStep
<1>5. First(s) \in s /\ First(s) \in S
  BY <1>2, <1>4, FirstIn
<1>6. s \ {First(s)} \notin T
  BY <1>2, <1>5
<1>7. g[s \ {First(s)}] = k[s \ {First(s)}]
  BY <1>2, <1>6
<1> QED
  BY <1>2, <1>3, <1>4, <1>5, <1>7 DEF SumStep

\* Every finite set has its table.
LEMMA TableExists ==
    ASSUME NEW f, NEW S, IsFiniteSet(S)
    PROVE  IsTable(f, S, Table(f, S))
<1> DEFINE T == {s \in SUBSET S : ~IsTable(f, s, Table(f, s))}
<1>1. SUFFICES ASSUME T # {} PROVE FALSE
  OBVIOUS
<1>2. PICK U \in T : \A t \in T : t \subseteq U => t = U
  <2>1. T \subseteq SUBSET S
    OBVIOUS
  <2> HIDE DEF T
  <2> QED
    BY <1>1, <2>1, SmallestSubset
<1>3. \A V \in SUBSET U : V # U => IsTable(f, V, Table(f, V))
  BY <1>2
<1>4. IsFiniteSet(U)
  BY <1>2, FS_Subset
<1> DEFINE g == [s \in SUBSET U |->
                    IF s = {} THEN 0
                    ELSE f[First(s)]
                         + Table(f, s \ {First(s)})[s \ {First(s)}]]
<1>5. ASSUME NEW s \in SUBSET U, s # {}
      PROVE  g[s \ {First(s)}] = Table(f, s \ {First(s)})[s \ {First(s)}]
  <2> DEFINE W == s \ {First(s)}
  <2>1. First(s) \in s
    BY <1>5, FirstIn
  <2>2. W \in SUBSET U /\ W # U
    BY <2>1
  <2>3. IsTable(f, W, Table(f, W))
    BY <1>3, <2>2
  <2>4. Table(f, W)[W] = SumStep(f, Table(f, W), W)
    BY <2>3 DEF IsTable
  <2>5. CASE W = {}
    BY <2>2, <2>4, <2>5 DEF SumStep
  <2>6. CASE W # {}
    <3> DEFINE V == W \ {First(W)}
    <3>1. First(W) \in W
      BY <2>6, FirstIn
    <3>2. V \subseteq W /\ V \in SUBSET U /\ V # U
      BY <2>2, <3>1
    <3>3. IsTable(f, V, Table(f, V)) /\ IsFiniteSet(V)
      BY <1>3, <1>4, <3>2, FS_Subset
    <3>4. Table(f, W)[V] = Table(f, V)[V]
      BY <2>3, <3>2, <3>3, TablesAgree
    <3>5. g[W] = f[First(W)] + Table(f, V)[V]
      BY <2>2, <2>6
    <3> QED
      BY <2>4, <2>6, <3>4, <3>5 DEF SumStep
  <2> QED
    BY <2>5, <2>6
<1>6. \A s \in SUBSET U : g[s] = SumStep(f, g, s)
  BY <1>5 DEF SumStep
<1>7. g = [s \in SUBSET U |-> SumStep(f, g, s)]
  BY <1>6
<1>8. IsTable(f, U, g)
  BY <1>7 DEF IsTable
<1>9. IsTable(f, U, Table(f, U))
  BY <1>8 DEF Table
<1> QED
  BY <1>2, <1>9
-----------------------------------------------------------------------------
(* The facts the totals of the model are proved from.                      *)

\* The sum of nothing, from which the totals start.
THEOREM SumOfNone == ASSUME NEW f PROVE SumFunctionOnSet(f, {}) = 0
<1>1. IsTable(f, {}, Table(f, {}))
  BY TableExists, FS_EmptySet
<1> QED
  BY <1>1, SumIsTable DEF IsTable, SumStep

LEMMA SumByFirst ==
    ASSUME NEW f, NEW S, IsFiniteSet(S), S # {}
    PROVE  SumFunctionOnSet(f, S)
               = f[First(S)] + SumFunctionOnSet(f, S \ {First(S)})
<1> DEFINE R == S \ {First(S)}
<1>1. IsFiniteSet(R) /\ R \in SUBSET S
  BY FS_Subset
<1>2. IsTable(f, S, Table(f, S)) /\ IsTable(f, R, Table(f, R))
  BY <1>1, TableExists
<1>3. Table(f, S)[S] = f[First(S)] + Table(f, S)[R]
  BY <1>2 DEF IsTable, SumStep
<1>4. Table(f, S)[R] = Table(f, R)[R]
  BY <1>1, <1>2, TablesAgree
<1> QED
  BY <1>3, <1>4, SumIsTable

\* Only the values at the summed arguments count.
LEMMA SumOfEqual ==
    ASSUME NEW S, IsFiniteSet(S), NEW f, NEW h, \A x \in S : f[x] = h[x]
    PROVE  SumFunctionOnSet(f, S) = SumFunctionOnSet(h, S)
<1>1. IsTable(f, S, Table(f, S)) /\ IsTable(h, S, Table(h, S))
  BY TableExists
<1> QED
  BY <1>1, TablesAgree, SumIsTable

LEMMA SumIsNat ==
    ASSUME NEW S, IsFiniteSet(S), NEW f, \A x \in S : f[x] \in Nat
    PROVE  SumFunctionOnSet(f, S) \in Nat
<1> DEFINE T == {s \in SUBSET S : SumFunctionOnSet(f, s) \notin Nat}
<1>1. SUFFICES ASSUME T # {} PROVE FALSE
  OBVIOUS
<1>2. PICK s \in T : \A t \in T : t \subseteq s => t = s
  <2>1. T \subseteq SUBSET S
    OBVIOUS
  <2> HIDE DEF T
  <2> QED
    BY <1>1, <2>1, SmallestSubset
<1>3. s # {} /\ IsFiniteSet(s)
  <2>1. SumFunctionOnSet(f, {}) \in Nat
    BY SumOfNone
  <2>2. s # {}
    BY <2>1
  <2>3. IsFiniteSet(s)
    BY <1>2, FS_Subset
  <2> QED
    BY <2>2, <2>3
<1>4. First(s) \in s
  BY <1>3, FirstIn
<1>5. SumFunctionOnSet(f, s)
          = f[First(s)] + SumFunctionOnSet(f, s \ {First(s)})
  BY <1>3, SumByFirst
<1>6. SumFunctionOnSet(f, s \ {First(s)}) \in Nat
  BY <1>2, <1>4
<1>7. f[First(s)] \in Nat
  BY <1>2, <1>4
<1> QED
  BY <1>2, <1>5, <1>6, <1>7

\* Any element may be taken out first.
LEMMA SumTakeOut ==
    ASSUME NEW S, IsFiniteSet(S), NEW f, \A x \in S : f[x] \in Nat, NEW y \in S
    PROVE  SumFunctionOnSet(f, S) = f[y] + SumFunctionOnSet(f, S \ {y})
<1> DEFINE Wrong(s, z) == SumFunctionOnSet(f, s)
                              # f[z] + SumFunctionOnSet(f, s \ {z})
           T == {s \in SUBSET S : \E z \in s : Wrong(s, z)}
<1>1. SUFFICES ASSUME T # {} PROVE FALSE
  OBVIOUS
<1>2. PICK s \in T : \A t \in T : t \subseteq s => t = s
  <2>1. T \subseteq SUBSET S
    OBVIOUS
  <2> HIDE DEF T
  <2> QED
    BY <1>1, <2>1, SmallestSubset
<1>3. PICK z \in s : Wrong(s, z)
  OBVIOUS
<1>4. \A t \in SUBSET S : t \subseteq s /\ t # s => \A u \in t : ~Wrong(t, u)
  BY <1>2
<1> DEFINE c == First(s)
           R == s \ {c}
<1>5. s # {} /\ IsFiniteSet(s) /\ s \in SUBSET S
  <2>1. s \in SUBSET S /\ s # {}
    BY <1>3
  <2> QED
    BY <2>1, FS_Subset
<1>6. c \in s
  BY <1>5, FirstIn
<1>7. SumFunctionOnSet(f, s) = f[c] + SumFunctionOnSet(f, R)
  BY <1>5, SumByFirst
<1>8. c # z
  BY <1>3, <1>7
<1>9. SumFunctionOnSet(f, R) = f[z] + SumFunctionOnSet(f, R \ {z})
  <2>1. R \in SUBSET S /\ R \subseteq s /\ R # s /\ z \in R
    BY <1>3, <1>5, <1>6, <1>8
  <2>2. ~Wrong(R, z)
    BY <1>4, <2>1
  <2> QED
    BY <2>2
<1>10. SumFunctionOnSet(f, s \ {z}) = f[c] + SumFunctionOnSet(f, R \ {z})
  <2> DEFINE Q == s \ {z}
  <2>1. Q \in SUBSET S /\ Q \subseteq s /\ Q # s /\ c \in Q
    BY <1>3, <1>5, <1>6, <1>8
  <2>2. ~Wrong(Q, c)
    BY <1>4, <2>1
  <2>3. Q \ {c} = R \ {z}
    OBVIOUS
  <2> QED
    BY <2>2, <2>3
<1>11. f[c] \in Nat /\ f[z] \in Nat
  BY <1>3, <1>5, <1>6
<1>12. SumFunctionOnSet(f, R \ {z}) \in Nat
  <2>1. IsFiniteSet(R \ {z}) /\ \A x \in R \ {z} : f[x] \in Nat
    BY <1>5, FS_Subset
  <2> QED
    BY <2>1, SumIsNat
<1>13. ~Wrong(s, z)
  BY <1>7, <1>9, <1>10, <1>11, <1>12
<1> QED
  BY <1>3, <1>13

\* A sum with one argument more.
THEOREM SumWithOneMore ==
    ASSUME NEW S, IsFiniteSet(S), NEW y, y \notin S, NEW f,
           \A x \in S \cup {y} : f[x] \in Nat
    PROVE  SumFunctionOnSet(f, S \cup {y}) = f[y] + SumFunctionOnSet(f, S)
<1>1. IsFiniteSet(S \cup {y})
  BY FS_AddElement
<1>2. (S \cup {y}) \ {y} = S
  OBVIOUS
<1> QED
  BY <1>1, <1>2, SumTakeOut

\* A sum over fewer arguments is no larger.
THEOREM SumOfPart ==
    ASSUME NEW S, IsFiniteSet(S), NEW R \in SUBSET S, NEW f,
           \A x \in S : f[x] \in Nat
    PROVE  SumFunctionOnSet(f, R) <= SumFunctionOnSet(f, S)
<1> DEFINE T == {s \in SUBSET S :
                   /\ R \subseteq s
                   /\ ~(SumFunctionOnSet(f, R) <= SumFunctionOnSet(f, s))}
<1>1. SUFFICES ASSUME T # {} PROVE FALSE
  OBVIOUS
<1>2. PICK s \in T : \A t \in T : t \subseteq s => t = s
  <2>1. T \subseteq SUBSET S
    OBVIOUS
  <2> HIDE DEF T
  <2> QED
    BY <1>1, <2>1, SmallestSubset
<1>3. IsFiniteSet(R) /\ IsFiniteSet(s) /\ s \in SUBSET S /\ R \subseteq s
  <2>1. s \in SUBSET S /\ R \subseteq s
    BY <1>2
  <2> QED
    BY <2>1, FS_Subset
<1>4. SumFunctionOnSet(f, R) \in Nat
  BY <1>3, SumIsNat
<1>5. PICK y \in s : y \notin R
  BY <1>2, <1>3, <1>4
<1>6. SumFunctionOnSet(f, s) = f[y] + SumFunctionOnSet(f, s \ {y})
  BY <1>3, <1>5, SumTakeOut
<1>7. SumFunctionOnSet(f, R) <= SumFunctionOnSet(f, s \ {y})
  BY <1>2, <1>3, <1>5
<1>8. SumFunctionOnSet(f, s \ {y}) \in Nat /\ f[y] \in Nat
  <2>1. IsFiniteSet(s \ {y}) /\ \A x \in s \ {y} : f[x] \in Nat
    BY <1>3, FS_Subset
  <2> QED
    BY <1>3, <1>5, <2>1, SumIsNat
<1>9. SumFunctionOnSet(f, R) <= SumFunctionOnSet(f, s)
  BY <1>4, <1>6, <1>7, <1>8
<1> QED
  BY <1>2, <1>9

\* The same of all the values of a function: without some of its arguments.
LEMMA SumShrinks ==
    ASSUME NEW f, IsFiniteSet(DOMAIN f), \A x \in DOMAIN f : f[x] \in Nat,
           NEW h, DOMAIN h \subseteq DOMAIN f,
           \A x \in DOMAIN h : h[x] = f[x]
    PROVE  /\ SumFunction(h) \in Nat /\ SumFunction(f) \in Nat
           /\ SumFunction(h) <= SumFunction(f)
<1> DEFINE S == DOMAIN f
           R == DOMAIN h
<1>1. IsFiniteSet(S) /\ IsFiniteSet(R) /\ R \in SUBSET S
  BY FS_Subset
<1>2. /\ \A x \in S : f[x] \in Nat
      /\ \A x \in R : h[x] = f[x] /\ h[x] \in Nat
  OBVIOUS
<1> HIDE DEF S, R
<1>3. SumFunctionOnSet(h, R) = SumFunctionOnSet(f, R)
  BY <1>1, <1>2, SumOfEqual
<1>4. SumFunctionOnSet(f, R) <= SumFunctionOnSet(f, S)
  BY <1>1, <1>2, SumOfPart
<1>5. SumFunctionOnSet(h, R) \in Nat /\ SumFunctionOnSet(f, S) \in Nat
  BY <1>1, <1>2, SumIsNat
<1> QED
  BY <1>3, <1>4, <1>5 DEF SumFunction, S, R

\* ... and with one argument more.
LEMMA SumGrows ==
    ASSUME NEW f, IsFiniteSet(DOMAIN f), \A x \in DOMAIN f : f[x] \in Nat,
           NEW h, NEW y, y \notin DOMAIN f, DOMAIN h = DOMAIN f \cup {y},
           \A x \in DOMAIN f : h[x] = f[x], h[y] \in Nat
    PROVE  SumFunction(h) = SumFunction(f) + h[y] /\ SumFunction(f) \in Nat
<1> DEFINE S == DOMAIN f
           R == DOMAIN h
<1>1. IsFiniteSet(S) /\ y \notin S /\ R = S \cup {y}
  OBVIOUS
<1>2. /\ \A x \in S : f[x] \in Nat /\ h[x] = f[x]
      /\ \A x \in S \cup {y} : h[x] \in Nat
  OBVIOUS
<1> HIDE DEF S, R
<1>3. SumFunctionOnSet(h, R) = h[y] + SumFunctionOnSet(h, S)
  BY <1>1, <1>2, SumWithOneMore
<1>4. SumFunctionOnSet(h, S) = SumFunctionOnSet(f, S)
  BY <1>1, <1>2, SumOfEqual
<1>5. SumFunctionOnSet(f, S) \in Nat
  BY <1>1, <1>2, SumIsNat
<1> QED
  BY <1>2, <1>3, <1>4, <1>5 DEF SumFunction, S, R

-----------------------------------------------------------------------------
(* The orders that hold goods.                                             *)

\* A transition takes one order in, takes one out, or leaves them as they are.
LEMMA HoldersMove ==
    ASSUME TypeOK, NEW o \in Orders, NEW to \in Statuses, NEW by \in Actors,
           NEW d \in TransitionData(o), Transition(o, to, by, d)
    PROVE  /\ Takes(o, to) => o \notin Holders /\ Holders' = Holders \cup {o}
           /\ GivesBack(o, to) => o \in Holders /\ Holders' = Holders \ {o}
           /\ ~Takes(o, to) /\ ~GivesBack(o, to) => Holders' = Holders
  <1>1. status' = [status EXCEPT ![o] = to]
    BY DEF Transition
  <1>2. \A q \in Orders : HoldsStock(status'[q]) <=>
            IF q = o THEN HoldsStock(to) ELSE HoldsStock(status[q])
    BY <1>1 DEF TypeOK, RowsTypeOK
  <1> QED BY <1>2 DEF Holders, Takes, GivesBack

LEMMA HoldersSteps ==
    ASSUME TypeOK, [Next]_vars, ~SomeTransition
    PROVE  Holders' = Holders /\ UNCHANGED <<stock, cardTotal>>
  <1>1. ASSUME NEW c \in Clients, NEW o \in Orders, PlaceOrder(c, o)
        PROVE  Holders' = Holders /\ UNCHANGED <<stock, cardTotal>>
    <2>1. \A q \in Orders : HoldsStock(status'[q]) <=> HoldsStock(status[q])
      BY <1>1 DEF PlaceOrder, TypeOK, RowsTypeOK, HoldsStock, StockHeld
    <2> QED BY <1>1, <2>1 DEF Holders, PlaceOrder
  <1>2. ASSUME NEW c \in Clients, CreateManualRefund(c)
        PROVE  Holders' = Holders /\ UNCHANGED <<stock, cardTotal>>
    BY <1>2 DEF CreateManualRefund, Holders
  <1>3. ASSUME NEW r \in RefundIds, RefundNext(r)
        PROVE  Holders' = Holders /\ UNCHANGED <<stock, cardTotal>>
    BY <1>3, RefundMoves DEF Holders
  <1>4. CASE UNCHANGED Tables
    BY <1>4 DEF Tables, Holders
  <1> QED BY <1>1, <1>2, <1>3, <1>4, StepCases

FewHolders == IsFiniteSet(Holders)

LEMMA FewHoldersStep == TypeOK /\ FewHolders /\ [Next]_vars => FewHolders'
  <1> SUFFICES ASSUME TypeOK, FewHolders, [Next]_vars
               PROVE  FewHolders'
    OBVIOUS
  <1> DEFINE H == Holders'
  <1>1. ASSUME NEW o \in Orders, NEW to \in Statuses, NEW by \in Actors,
               NEW d \in TransitionData(o), Transition(o, to, by, d)
        PROVE  \/ H = Holders \/ H = Holders \cup {o} \/ H = Holders \ {o}
    BY <1>1, HoldersMove
  <1>2. SomeTransition \/ H = Holders
    BY HoldersSteps
  <1> HIDE DEF H
  <1>3. IsFiniteSet(H)
    BY <1>1, <1>2, FS_AddElement, FS_RemoveElement DEF SomeTransition, FewHolders
  <1> QED BY <1>3 DEF FewHolders, H

LEMMA NoHolders == Init => Holders = {}
  BY DEF Init, RowsInit, Holders, HoldsStock, StockHeld

-----------------------------------------------------------------------------
(* The confirmed totals of the bank cards.                                 *)

LEMMA Prices == Total \in [Orders -> Nat] /\ \A o \in Orders : Total[o] \in Nat
  BY OrderStateAssumption

LEMMA CardTotalStep ==
    TypeOK /\ FewHolders /\ CardTotalExact /\ [Next]_vars => CardTotalExact'
  <1> SUFFICES ASSUME TypeOK, FewHolders, CardTotalExact, [Next]_vars,
                      NEW c \in Cards
               PROVE  cardTotal'[c] = SumFunctionOnSet(Total,
                                          {o \in Holders' : CardOf[o] = c})
    BY DEF CardTotalExact
  <1> DEFINE On(S) == {o \in S : CardOf[o] = c}
             After == Holders'
  <1>1. cardTotal[c] = SumFunctionOnSet(Total, On(Holders))
    BY DEF CardTotalExact
  <1>2. IsFiniteSet(On(Holders)) /\ On(Holders) \subseteq Orders
    BY FS_Subset DEF FewHolders, Holders
  <1>3. ASSUME NEW o \in Orders, NEW to \in Statuses, NEW by \in Actors,
               NEW d \in TransitionData(o), Transition(o, to, by, d)
        PROVE  cardTotal'[c] = SumFunctionOnSet(Total, On(After))
    <2>1. CardEffect(o, to)
      BY <1>3 DEF Transition
    <2>2. cardTotal[c] \in Nat /\ Total[o] \in Nat
      BY Prices DEF TypeOK, RowsTypeOK
    <2>3. ~(Takes(o, to) /\ GivesBack(o, to))
      BY DEF Takes, GivesBack
    <2>4. CASE Takes(o, to) /\ CardOf[o] = c
      <3>1. On(After) = On(Holders) \cup {o} /\ o \notin On(Holders)
        BY <1>3, <2>4, HoldersMove
      <3>2. cardTotal'[c] = cardTotal[c] + Total[o]
        BY <2>1, <2>3, <2>4 DEF CardEffect
      <3>3. \A x \in On(Holders) \cup {o} : Total[x] \in Nat
        BY <1>2, Prices
      <3>4. SumFunctionOnSet(Total, On(Holders) \cup {o})
                = Total[o] + SumFunctionOnSet(Total, On(Holders))
        <4> HIDE DEF On
        <4> QED BY <1>2, <3>1, <3>3, SumWithOneMore
      <3> HIDE DEF On, After
      <3> QED BY <1>1, <2>2, <3>1, <3>2, <3>4
    <2>5. CASE GivesBack(o, to) /\ CardOf[o] = c
      <3>1. On(After) = On(Holders) \ {o} /\ o \in On(Holders)
        BY <1>3, <2>5, HoldersMove
      <3>2. cardTotal'[c] = Monus(cardTotal[c], Total[o])
        BY <2>1, <2>3, <2>5 DEF CardEffect
      <3>3. \A x \in On(Holders) : Total[x] \in Nat
        BY <1>2, Prices
      <3>4. /\ SumFunctionOnSet(Total, On(Holders))
                   = Total[o] + SumFunctionOnSet(Total, On(Holders) \ {o})
            /\ SumFunctionOnSet(Total, On(Holders) \ {o}) \in Nat
        <4> HIDE DEF On
        <4>1. IsFiniteSet(On(Holders) \ {o})
          BY <1>2, FS_RemoveElement
        <4> QED BY <1>2, <3>1, <3>3, <4>1, SumTakeOut, SumIsNat
      <3> HIDE DEF On, After
      <3> QED BY <1>1, <2>2, <3>1, <3>2, <3>4 DEF Monus
    <2>6. CASE CardOf[o] # c \/ (~Takes(o, to) /\ ~GivesBack(o, to))
      <3>1. On(After) = On(Holders)
        BY <1>3, <2>6, HoldersMove
      <3>2. cardTotal'[c] = cardTotal[c]
        BY <2>1, <2>6 DEF CardEffect
      <3> QED BY <1>1, <3>1, <3>2
    <2> QED BY <2>4, <2>5, <2>6
  <1>4. CASE ~SomeTransition
    <2>1. After = Holders /\ cardTotal' = cardTotal
      BY <1>4, HoldersSteps
    <2> QED BY <1>1, <2>1
  <1> QED BY <1>3, <1>4 DEF SomeTransition

\* However orders are approved, taken back and approved again, a bank card's
\* confirmed total is the sum of the accepted orders that were paid to it: it
\* is never decremented below zero, and never drifts from the orders.
THEOREM CardTotalsExact == Spec => []CardTotalExact
  <1>1. Init => FewHolders
    BY NoHolders, FS_EmptySet DEF FewHolders
  <1>2. Init => CardTotalExact
    <2> SUFFICES ASSUME Init, NEW c \in Cards
                 PROVE  cardTotal[c] = SumFunctionOnSet(Total,
                                           {o \in Holders : CardOf[o] = c})
      BY DEF CardTotalExact
    <2>1. {o \in Holders : CardOf[o] = c} = {}
      BY NoHolders
    <2>2. cardTotal[c] = 0
      BY DEF Init, RowsInit
    <2> QED BY <2>1, <2>2, SumOfNone
  <1> QED
    BY <1>1, <1>2, TypeCorrect, FewHoldersStep, CardTotalStep, PTL DEF Spec

-----------------------------------------------------------------------------
(* The shelf.                                                              *)

LEMMA Quantities ==
    ASSUME NEW p \in Tracked
    PROVE  /\ p \in Products
           /\ InitialStock[p] \in Nat
           /\ DOMAIN Ordered(p) = Orders
           /\ \A o \in Orders : Ordered(p)[o] = Items[o][p] /\ Ordered(p)[o] \in Nat
  BY OrderStateAssumption DEF Ordered

\* What is noted of an approval is of an order that may be approved, and about
\* items of its cart.
ApprovalsReal ==
    \A o \in Orders :
        /\ UnderWay(o) => CanTransition(status[o], "APPROVED")
        /\ approval[o].short \subseteq InCart(o)
        /\ approval[o].zeroed \subseteq InCart(o)

\* What was found short, or set to zero, is still short where all the orders
\* show the same card: none of them can give back in the meantime.
StillShort ==
    \A o \in Orders : \A p \in approval[o].short \cup approval[o].zeroed :
        SameCard(p) => stock[p] < Items[o][p]

\* What the steps are to an approval under way.
LEMMA ApprovalSteps ==
    ASSUME TypeOK, [Next]_vars
    PROVE  \/ SomeTransition
           \/ /\ UNCHANGED <<status, stock>>
              /\ \E o \in Orders : \/ \E p \in Products : FindShort(o, p)
                                   \/ ZeroStock(o)
                                   \/ RollBack(o)
           \/ /\ UNCHANGED <<approval, stock>>
              /\ \/ UNCHANGED status
                 \/ \E o \in Orders :
                       /\ status[o] = "NONE"
                       /\ status' = [status EXCEPT ![o] = "PENDING_PAYMENT"]
  <1>1. (\E o \in Orders : ApproveShort(o) \/ ApprovalFails(o)) =>
            /\ UNCHANGED <<status, stock>>
            /\ \E o \in Orders : \/ \E p \in Products : FindShort(o, p)
                                 \/ ZeroStock(o)
                                 \/ RollBack(o)
    BY DEF ApproveShort, ApprovalFails, FindShort, ZeroStock, RollBack
  <1>2. (\E c \in Clients, o \in Orders : PlaceOrder(c, o)) =>
            /\ UNCHANGED <<approval, stock>>
            /\ \E o \in Orders :
                  /\ status[o] = "NONE"
                  /\ status' = [status EXCEPT ![o] = "PENDING_PAYMENT"]
    BY DEF PlaceOrder
  <1>3. (\E c \in Clients : CreateManualRefund(c))
            => UNCHANGED <<approval, stock, status>>
    BY DEF CreateManualRefund
  <1>4. (\E r \in RefundIds : RefundNext(r)) => UNCHANGED <<approval, stock, status>>
    BY DEF RefundNext, SetDestination, MarkPaid, ResolveSellerHold,
           SetRefundStatus
  <1>5. UNCHANGED <<Tables, approval>> => UNCHANGED <<approval, stock, status>>
    BY DEF Tables
  <1> QED BY <1>1, <1>2, <1>3, <1>4, <1>5, AllStepCases

\* What the statements of an approval write down: a product of those just found
\* short moves to those set to zero.
LEMMA MarksOfFind ==
    ASSUME TypeOK, NEW o \in Orders, NEW q \in Orders, NEW p \in Products,
           FindShort(o, p)
    PROVE  /\ approval'[q].zeroed = approval[q].zeroed
           /\ approval'[q].short = IF q = o THEN {p} ELSE approval[q].short
           /\ q # o => approval'[q] = approval[q]
  <1>1. approval \in [Orders -> Approval] /\ approval[q] \in Approval
    BY DEF TypeOK, RowsTypeOK, Approval
  <1>2. approval'[q] = IF q = o THEN [approval[q] EXCEPT !.short = {p}]
                               ELSE approval[q]
    BY <1>1 DEF FindShort
  <1> QED BY <1>1, <1>2 DEF Approval

LEMMA MarksOfZero ==
    ASSUME TypeOK, NEW o \in Orders, NEW q \in Orders,
           ZeroStock(o) \/ RollBack(o)
    PROVE  /\ approval'[q].short \cup approval'[q].zeroed
                  \subseteq approval[q].short \cup approval[q].zeroed
           /\ q # o => approval'[q] = approval[q]
           /\ RollBack(o) /\ q = o => approval'[q] = NoApproval
  <1>1. approval \in [Orders -> Approval]
    BY DEF TypeOK, RowsTypeOK, Approval
  <1>2. CASE ZeroStock(o)
    <2>1. approval'[q] =
              IF q = o
              THEN [short |-> {}, zeroed |-> approval[q].zeroed \cup approval[q].short]
              ELSE approval[q]
      BY <1>1, <1>2 DEF ZeroStock
    <2>2. ~(RollBack(o) /\ q = o) \/ approval'[q] = NoApproval
      BY <1>1 DEF RollBack
    <2> QED BY <2>1, <2>2
  <1>3. CASE RollBack(o)
    <2>1. approval'[q] = IF q = o THEN NoApproval ELSE approval[q]
      BY <1>1, <1>3 DEF RollBack
    <2> QED BY <2>1 DEF NoApproval
  <1> QED BY <1>2, <1>3

LEMMA ApprovalsRealStep ==
    TypeOK /\ ApprovalsReal /\ [Next]_vars => ApprovalsReal'
  <1> SUFFICES ASSUME TypeOK, ApprovalsReal, [Next]_vars, NEW q \in Orders
               PROVE  /\ UnderWay(q)' => CanTransition(status'[q], "APPROVED")
                      /\ approval'[q].short \subseteq InCart(q)
                      /\ approval'[q].zeroed \subseteq InCart(q)
    BY DEF ApprovalsReal, InCart
  <1>1. /\ UnderWay(q) => CanTransition(status[q], "APPROVED")
        /\ approval[q].short \subseteq InCart(q)
        /\ approval[q].zeroed \subseteq InCart(q)
    BY DEF ApprovalsReal
  <1>2. CASE SomeTransition
    <2> PICK o \in Orders, to \in Statuses, by \in Actors :
             \E d \in TransitionData(o) : Transition(o, to, by, d)
      BY <1>2 DEF SomeTransition
    <2> PICK d \in TransitionData(o) : Transition(o, to, by, d)
      OBVIOUS
    <2>1. /\ approval' = [approval EXCEPT ![o] = NoApproval]
          /\ status' = [status EXCEPT ![o] = to]
      BY DEF Transition
    <2>2. CASE q = o
      BY <2>1, <2>2 DEF NoApproval, UnderWay, TypeOK, RowsTypeOK
    <2>3. CASE q # o
      BY <1>1, <2>1, <2>3 DEF UnderWay, TypeOK, RowsTypeOK
    <2> QED BY <2>2, <2>3
  <1>3. ASSUME UNCHANGED status, NEW o \in Orders, NEW p \in Products,
               FindShort(o, p)
        PROVE  /\ UnderWay(q)' => CanTransition(status'[q], "APPROVED")
               /\ approval'[q].short \subseteq InCart(q)
               /\ approval'[q].zeroed \subseteq InCart(q)
    <2>1. p \in InCart(o) /\ CanTransition(status[o], "APPROVED")
      BY <1>3 DEF FindShort, Commits
    <2>2. /\ approval'[q].zeroed = approval[q].zeroed
          /\ approval'[q].short = IF q = o THEN {p} ELSE approval[q].short
          /\ q # o => approval'[q] = approval[q]
      BY <1>3, MarksOfFind
    <2> QED BY <1>1, <1>3, <2>1, <2>2 DEF UnderWay
  <1>4. ASSUME UNCHANGED status, NEW o \in Orders, ZeroStock(o)
        PROVE  /\ UnderWay(q)' => CanTransition(status'[q], "APPROVED")
               /\ approval'[q].short \subseteq InCart(q)
               /\ approval'[q].zeroed \subseteq InCart(q)
    <2>1. UnderWay(o)
      BY <1>4 DEF ZeroStock, UnderWay, NoApproval
    <2>2. UnderWay(q)' => UnderWay(q)
      BY <1>4, <2>1, MarksOfZero DEF UnderWay
    <2>3. /\ approval'[q].short \subseteq approval[q].short \cup approval[q].zeroed
          /\ approval'[q].zeroed \subseteq approval[q].short \cup approval[q].zeroed
      BY <1>4, MarksOfZero
    <2> QED BY <1>1, <1>4, <2>2, <2>3
  <1>5. ASSUME UNCHANGED status, NEW o \in Orders, RollBack(o)
        PROVE  /\ UnderWay(q)' => CanTransition(status'[q], "APPROVED")
               /\ approval'[q].short \subseteq InCart(q)
               /\ approval'[q].zeroed \subseteq InCart(q)
    <2>1. UnderWay(q)' => UnderWay(q)
      BY <1>5, MarksOfZero DEF UnderWay
    <2>2. /\ approval'[q].short \subseteq approval[q].short \cup approval[q].zeroed
          /\ approval'[q].zeroed \subseteq approval[q].short \cup approval[q].zeroed
      BY <1>5, MarksOfZero
    <2> QED BY <1>1, <1>5, <2>1, <2>2
  <1>6. ASSUME UNCHANGED approval,
               \/ UNCHANGED status
               \/ \E o \in Orders :
                     /\ status[o] = "NONE"
                     /\ status' = [status EXCEPT ![o] = "PENDING_PAYMENT"]
        PROVE  /\ UnderWay(q)' => CanTransition(status'[q], "APPROVED")
               /\ approval'[q].short \subseteq InCart(q)
               /\ approval'[q].zeroed \subseteq InCart(q)
    <2>1. CanTransition(status[q], "APPROVED") => status'[q] = status[q]
      BY <1>6 DEF CanTransition, OrderTransitions, TypeOK, RowsTypeOK
    <2> QED BY <1>1, <1>6, <2>1 DEF UnderWay
  <1> QED BY <1>2, <1>3, <1>4, <1>5, <1>6, ApprovalSteps

\* What a transition does to the shelf of one product.
LEMMA ShelfMove ==
    ASSUME TypeOK, ApprovalsReal, NEW p \in Tracked, NEW o \in Orders,
           NEW to \in Statuses, NEW by \in Actors, NEW d \in TransitionData(o),
           Transition(o, to, by, d)
    PROVE  \/ /\ Takes(o, to) /\ ~GivesBack(o, to) /\ p \notin approval[o].zeroed
              /\ stock'[p] = stock[p] - Items[o][p] /\ Items[o][p] <= stock[p]
           \/ /\ Takes(o, to) /\ ~GivesBack(o, to) /\ p \in approval[o].zeroed
              /\ stock'[p] = 0
           \/ /\ GivesBack(o, to) /\ ~Takes(o, to) /\ p \notin approval[o].zeroed
              /\ stock'[p] = stock[p] + Items[o][p]
           \/ /\ ~Takes(o, to) /\ ~GivesBack(o, to) /\ p \notin approval[o].zeroed
              /\ stock'[p] = stock[p]
  <1>1. /\ p \in Products /\ Items[o][p] \in Nat /\ stock[p] \in Nat
    BY OrderStateAssumption DEF TypeOK, RowsTypeOK
  <1>2. ~(Takes(o, to) /\ GivesBack(o, to))
    BY DEF Takes, GivesBack
  <1>3. p \in approval[o].zeroed => Takes(o, to)
    <2> SUFFICES ASSUME p \in approval[o].zeroed PROVE Takes(o, to)
      OBVIOUS
    <2>1. UnderWay(o)
      BY DEF UnderWay, NoApproval
    <2>2. to = "APPROVED" /\ CanTransition(status[o], "APPROVED")
      BY <2>1 DEF Transition, ApprovalsReal
    <2> QED
      BY <2>2
         DEF Takes, CanTransition, OrderTransitions, HoldsStock, StockHeld
  <1>4. Takes(o, to) /\ p \notin approval[o].zeroed => Items[o][p] <= stock[p]
    BY <1>1 DEF Transition, GoodsMovable, InCart
  <1>5. StockEffect(o, to)
    BY DEF Transition
  <1> QED BY <1>1, <1>2, <1>3, <1>4, <1>5 DEF StockEffect

LEMMA StillShortStep ==
    TypeOK /\ ApprovalsReal /\ StillShort /\ [Next]_vars => StillShort'
  <1> SUFFICES ASSUME TypeOK, ApprovalsReal, StillShort, [Next]_vars,
                      NEW q \in Orders,
                      NEW p \in approval'[q].short \cup approval'[q].zeroed,
                      SameCard(p)
               PROVE  stock'[p] < Items[q][p]
    BY DEF StillShort, SameCard
  <1>1. p \in approval[q].short \cup approval[q].zeroed => stock[p] < Items[q][p]
    BY DEF StillShort
  <1>2. CASE SomeTransition
    <2> PICK o \in Orders, to \in Statuses, by \in Actors :
             \E d \in TransitionData(o) : Transition(o, to, by, d)
      BY <1>2 DEF SomeTransition
    <2> PICK d \in TransitionData(o) : Transition(o, to, by, d)
      OBVIOUS
    <2>1. approval' = [approval EXCEPT ![o] = NoApproval]
      BY DEF Transition
    <2>2. q # o /\ approval'[q] = approval[q]
      BY <2>1 DEF NoApproval, TypeOK, RowsTypeOK
    <2>3. p \in InCart(q) /\ UnderWay(q)
      BY <2>2 DEF ApprovalsReal, UnderWay, NoApproval
    <2>4. p \in Tracked /\ p \in Products /\ Items[q][p] \in Nat /\ Items[q][p] > 0
          /\ Items[o][p] \in Nat
      BY <2>3, OrderStateAssumption DEF InCart
    <2>5. stock[p] \in Nat
      BY <2>4 DEF TypeOK, RowsTypeOK
    <2>6. CASE Items[o][p] > 0
      <3>1. CardBusy(o)
        BY <2>2, <2>3, <2>4, <2>6 DEF SameCard, CardBusy
      <3>2. ~Takes(o, to) /\ ~GivesBack(o, to)
        BY <3>1 DEF Transition, GoodsMovable
      <3>3. stock'[p] = stock[p]
        BY <2>4, <3>2, ShelfMove
      <3> QED BY <1>1, <2>2, <3>3
    <2>7. CASE ~(Items[o][p] > 0)
      <3>1. Items[o][p] = 0 /\ p \notin approval[o].zeroed
        BY <2>4, <2>7 DEF ApprovalsReal, InCart
      <3>2. stock'[p] = stock[p]
        BY <2>4, <2>5, <3>1, ShelfMove
      <3> QED BY <1>1, <2>2, <3>2
    <2> QED BY <2>6, <2>7
  <1>3. ASSUME UNCHANGED stock, NEW o \in Orders, NEW r \in Products,
               FindShort(o, r)
        PROVE  stock'[p] < Items[q][p]
    BY <1>1, <1>3, MarksOfFind DEF FindShort
  <1>4. ASSUME UNCHANGED stock, NEW o \in Orders, ZeroStock(o) \/ RollBack(o)
        PROVE  stock'[p] < Items[q][p]
    BY <1>1, <1>4, MarksOfZero
  <1>5. CASE UNCHANGED <<approval, stock>>
    BY <1>1, <1>5
  <1> QED BY <1>2, <1>3, <1>4, <1>5, ApprovalSteps

LEMMA ShortIsShort == Spec => [](ApprovalsReal /\ StillShort)
  <1>1. Init => ApprovalsReal /\ StillShort
    BY DEF Init, RowsInit, ApprovalsReal, StillShort, UnderWay, NoApproval
  <1> QED
    BY <1>1, TypeCorrect, ApprovalsRealStep, StillShortStep, PTL DEF Spec

\* What a transition moves between the shelf and the orders that hold goods.
LEMMA StockMove ==
    ASSUME TypeOK, FewHolders, ApprovalsReal, NEW p \in Tracked, NEW o \in Orders,
           NEW to \in Statuses, NEW by \in Actors, NEW d \in TransitionData(o),
           Transition(o, to, by, d)
    PROVE  LET held == Holding(p)
               then == SumFunctionOnSet(Ordered(p), Holders')
               n == Items[o][p]
           IN  /\ held \in Nat /\ then \in Nat /\ n \in Nat
               /\ \/ then = held + n /\ stock'[p] = stock[p] - n /\ n <= stock[p]
                  \/ then = held + n /\ stock'[p] = 0 /\ p \in approval[o].zeroed
                  \/ held = then + n /\ stock'[p] = stock[p] + n
                  \/ then = held /\ stock'[p] = stock[p]
  <1> DEFINE f == Ordered(p)
             H == Holders
             K == Holders'
  <1>2. /\ p \in Products
        /\ \A x \in Orders : f[x] \in Nat
        /\ f[o] = Items[o][p]
    BY Quantities
  <1>3. H \subseteq Orders /\ K \subseteq Orders
    BY DEF Holders
  <1>6. CASE Takes(o, to)
    <2>1. K = H \cup {o} /\ o \notin H
      BY <1>6, HoldersMove
    <2>2. \/ stock'[p] = stock[p] - f[o] /\ f[o] <= stock[p]
          \/ stock'[p] = 0 /\ p \in approval[o].zeroed
      BY <1>2, <1>6, ShelfMove
    <2> HIDE DEF f, H, K
    <2>3. IsFiniteSet(H)
      BY DEF FewHolders, H
    <2>4. SumFunctionOnSet(f, K) = f[o] + SumFunctionOnSet(f, H)
      BY <1>2, <1>3, <2>1, <2>3, SumWithOneMore
    <2>5. SumFunctionOnSet(f, H) \in Nat
      BY <1>2, <1>3, <2>3, SumIsNat
    <2> QED BY <1>2, <2>2, <2>4, <2>5 DEF Holding, f, H, K
  <1>7. CASE GivesBack(o, to)
    <2>1. K = H \ {o} /\ o \in H
      BY <1>7, HoldersMove
    <2>2. stock'[p] = stock[p] + f[o]
      BY <1>2, <1>7, ShelfMove
    <2> HIDE DEF f, H, K
    <2>3. IsFiniteSet(H)
      BY DEF FewHolders, H
    <2>4. SumFunctionOnSet(f, H) = f[o] + SumFunctionOnSet(f, K)
      BY <1>2, <1>3, <2>1, <2>3, SumTakeOut
    <2>5. SumFunctionOnSet(f, K) \in Nat
      BY <1>2, <1>3, <2>1, <2>3, SumIsNat, FS_RemoveElement
    <2> QED BY <1>2, <2>2, <2>4, <2>5 DEF Holding, f, H, K
  <1>8. CASE ~Takes(o, to) /\ ~GivesBack(o, to)
    <2>1. K = H
      BY <1>8, HoldersMove
    <2>2. stock'[p] = stock[p]
      BY <1>8, ShelfMove
    <2> HIDE DEF f, H, K
    <2>3. SumFunctionOnSet(f, H) \in Nat
      BY <1>2, <1>3, SumIsNat DEF FewHolders, H
    <2> QED BY <1>2, <2>1, <2>2, <2>3 DEF Holding, f, H, K
  <1> QED BY <1>6, <1>7, <1>8

LEMMA NeverLostStep ==
    /\ TypeOK /\ FewHolders /\ ApprovalsReal /\ StillShort
    /\ StockNeverLost /\ [Next]_vars
    => StockNeverLost'
  <1> SUFFICES ASSUME TypeOK, FewHolders, ApprovalsReal, StillShort,
                      StockNeverLost, [Next]_vars,
                      NEW p \in Tracked, SameCard(p)
               PROVE  stock'[p] + SumFunctionOnSet(Ordered(p), Holders')
                          >= InitialStock[p]
    BY DEF StockNeverLost, Holding, Ordered, SameCard
  <1>1. stock[p] + Holding(p) >= InitialStock[p]
    BY DEF StockNeverLost
  <1>2. stock[p] \in Nat /\ InitialStock[p] \in Nat
    BY Quantities DEF TypeOK, RowsTypeOK
  <1>3. ASSUME NEW o \in Orders, NEW to \in Statuses, NEW by \in Actors,
               NEW d \in TransitionData(o), Transition(o, to, by, d)
        PROVE  stock'[p] + SumFunctionOnSet(Ordered(p), Holders')
                   >= InitialStock[p]
    <2>1. p \in approval[o].zeroed => stock[p] < Items[o][p]
      BY DEF StillShort
    <2> QED BY <1>1, <1>2, <1>3, <2>1, StockMove
  <1>4. CASE ~SomeTransition
    BY <1>1, <1>4, HoldersSteps DEF Holding
  <1> QED BY <1>3, <1>4 DEF SomeTransition

\* Of a tracked product whose orders all show the same card nothing is ever
\* lost, for any number of orders, also when it sells short: what is on the
\* shelf and what the orders hold is at least what the seller had.  A shelf
\* found short stays short until the zero is written, because whoever could
\* give back waits for the card.
THEOREM NothingLost == Spec => []StockNeverLost
  <1>1. Init => FewHolders
    BY NoHolders, FS_EmptySet DEF FewHolders
  <1>2. Init => StockNeverLost
    <2> SUFFICES ASSUME Init, NEW p \in Tracked
                 PROVE  stock[p] + Holding(p) >= InitialStock[p]
      BY DEF StockNeverLost
    <2>1. Holding(p) = 0
      BY NoHolders, SumOfNone DEF Holding
    <2>2. stock[p] = InitialStock[p] /\ InitialStock[p] \in Nat
      BY Quantities DEF Init, RowsInit
    <2> QED BY <2>1, <2>2
  <1> QED
    BY <1>1, <1>2, TypeCorrect, ShortIsShort, FewHoldersStep, NeverLostStep, PTL
       DEF Spec

\* Of a product of which there is enough no approval finds too little.
EnoughIsEnough ==
    \A p \in Tracked : EnoughFor(p) =>
        \A o \in Orders : p \notin approval[o].short \cup approval[o].zeroed

\* What all the orders together may hold.
LEMMA EnoughBounds ==
    ASSUME IsFiniteSet(Orders), NEW p \in Tracked, EnoughFor(p),
           NEW S \in SUBSET Orders
    PROVE  /\ SumFunctionOnSet(Ordered(p), S) \in Nat
           /\ SumFunctionOnSet(Ordered(p), S) <= InitialStock[p]
  <1> DEFINE f == Ordered(p)
  <1>1. \A x \in Orders : f[x] \in Nat
    BY Quantities
  <1>2. InitialStock[p] >= SumFunctionOnSet(f, Orders) /\ InitialStock[p] \in Nat
    BY Quantities DEF EnoughFor, SumFunction
  <1> HIDE DEF f
  <1>3. SumFunctionOnSet(f, S) <= SumFunctionOnSet(f, Orders)
    BY <1>1, SumOfPart
  <1>4. SumFunctionOnSet(f, S) \in Nat /\ SumFunctionOnSet(f, Orders) \in Nat
    BY <1>1, SumIsNat, FS_Subset
  <1> QED BY <1>2, <1>3, <1>4 DEF f

\* ... so that one more order always finds what it holds on the shelf.
LEMMA EnoughLeft ==
    ASSUME IsFiniteSet(Orders), TypeOK, StockExact, NEW p \in Tracked, EnoughFor(p),
           NEW o \in Orders, o \notin Holders
    PROVE  Items[o][p] <= stock[p]
  <1> DEFINE f == Ordered(p)
             H == Holders
  <1>1. H \in SUBSET Orders /\ H \cup {o} \in SUBSET Orders /\ o \notin H
    BY DEF Holders
  <1>2. (\A x \in Orders : f[x] \in Nat) /\ f[o] = Items[o][p]
    BY Quantities
  <1>3. stock[p] + SumFunctionOnSet(f, H) = InitialStock[p]
    BY DEF StockExact, Holding
  <1>4. stock[p] \in Nat /\ InitialStock[p] \in Nat
    BY Quantities DEF TypeOK, RowsTypeOK
  <1> HIDE DEF H
  <1>5. /\ SumFunctionOnSet(f, H \cup {o}) <= InitialStock[p]
        /\ SumFunctionOnSet(f, H) \in Nat
    BY <1>1, EnoughBounds
  <1> HIDE DEF f
  <1>6. SumFunctionOnSet(f, H \cup {o}) = f[o] + SumFunctionOnSet(f, H)
    BY <1>1, <1>2, SumWithOneMore, FS_Subset
  <1> QED BY <1>1, <1>2, <1>3, <1>4, <1>5, <1>6

LEMMA EnoughIsEnoughStep ==
    ASSUME IsFiniteSet(Orders)
    PROVE  TypeOK /\ ApprovalsReal /\ StockExact /\ EnoughIsEnough /\ [Next]_vars
               => EnoughIsEnough'
  <1> SUFFICES ASSUME TypeOK, ApprovalsReal, StockExact, EnoughIsEnough,
                      [Next]_vars, NEW p \in Tracked, EnoughFor(p),
                      NEW q \in Orders
               PROVE  p \notin approval'[q].short \cup approval'[q].zeroed
    BY DEF EnoughIsEnough, EnoughFor, Ordered
  <1>1. p \notin approval[q].short \cup approval[q].zeroed
    BY DEF EnoughIsEnough
  <1>2. CASE SomeTransition
    BY <1>1, <1>2 DEF SomeTransition, Transition, NoApproval, TypeOK, RowsTypeOK
  <1>3. ASSUME NEW o \in Orders, NEW r \in Products, FindShort(o, r)
        PROVE  p \notin approval'[q].short \cup approval'[q].zeroed
    <2>1. o \notin Holders
      BY <1>3
         DEF FindShort, Commits, CanTransition, OrderTransitions, Holders,
             HoldsStock, StockHeld
    <2>2. Items[o][p] <= stock[p]
      BY <2>1, EnoughLeft
    <2>3. Items[o][p] \in Nat /\ stock[p] \in Nat
      BY OrderStateAssumption DEF TypeOK, RowsTypeOK
    <2>4. r # p
      BY <1>3, <2>2, <2>3 DEF FindShort
    <2>5. /\ approval'[q].zeroed = approval[q].zeroed
          /\ approval'[q].short = IF q = o THEN {r} ELSE approval[q].short
      BY <1>3, MarksOfFind
    <2> QED BY <1>1, <2>4, <2>5
  <1>4. ASSUME NEW o \in Orders, ZeroStock(o) \/ RollBack(o)
        PROVE  p \notin approval'[q].short \cup approval'[q].zeroed
    BY <1>1, <1>4, MarksOfZero
  <1>5. CASE UNCHANGED approval
    BY <1>1, <1>5
  <1> QED BY <1>2, <1>3, <1>4, <1>5, ApprovalSteps

\* With enough on the shelf for all orders, no count is ever set to zero.
LEMMA StockExactStep ==
    ASSUME IsFiniteSet(Orders)
    PROVE  TypeOK /\ ApprovalsReal /\ EnoughIsEnough /\ StockExact /\ [Next]_vars
               => StockExact'
  <1> SUFFICES ASSUME TypeOK, ApprovalsReal, EnoughIsEnough, StockExact,
                      [Next]_vars
               PROVE  StockExact'
    OBVIOUS
  <1>1. FewHolders
    BY FS_Subset DEF FewHolders, Holders
  <1>2. ASSUME NEW p \in Tracked, EnoughFor(p)
        PROVE  stock'[p] + SumFunctionOnSet(Ordered(p), Holders')
                   = InitialStock[p]
    <2>1. stock[p] + Holding(p) = InitialStock[p]
      BY <1>2 DEF StockExact
    <2>2. stock[p] \in Nat /\ InitialStock[p] \in Nat
      BY Quantities DEF TypeOK, RowsTypeOK
    <2>3. ASSUME NEW o \in Orders, NEW to \in Statuses, NEW by \in Actors,
                 NEW d \in TransitionData(o), Transition(o, to, by, d)
          PROVE  stock'[p] + SumFunctionOnSet(Ordered(p), Holders')
                     = InitialStock[p]
      <3>1. p \notin approval[o].zeroed
        BY <1>2 DEF EnoughIsEnough
      <3> QED BY <1>1, <2>1, <2>2, <2>3, <3>1, StockMove
    <2>4. CASE ~SomeTransition
      BY <2>1, <2>4, HoldersSteps DEF Holding
    <2> QED BY <2>3, <2>4 DEF SomeTransition
  <1>3. ASSUME NEW p \in Products \ Tracked
        PROVE  stock'[p] = InitialStock[p]
    <2>1. stock[p] = InitialStock[p]
      BY DEF StockExact
    <2>2. ASSUME NEW o \in Orders, NEW to \in Statuses, NEW by \in Actors,
                 NEW d \in TransitionData(o), Transition(o, to, by, d)
          PROVE  stock'[p] = stock[p]
      <3>1. p \notin approval[o].zeroed
        BY DEF TypeOK, RowsTypeOK
      <3> QED BY <2>2, <3>1 DEF Transition, StockEffect
    <2>3. CASE ~SomeTransition
      BY <2>1, <2>3, HoldersSteps
    <2> QED BY <2>1, <2>2, <2>3 DEF SomeTransition
  <1> QED
    BY <1>2, <1>3 DEF StockExact, Holding, EnoughFor, Ordered

\* With finitely many orders, a product of which there is enough for all of
\* them is counted exactly, and what is not tracked does not move.
THEOREM StockCountedExactly ==
    ASSUME IsFiniteSet(Orders)
    PROVE  Spec => []StockExact
  <1>1. Init => StockExact
    <2> SUFFICES ASSUME Init
                 PROVE  StockExact
      OBVIOUS
    <2>1. ASSUME NEW p \in Products PROVE stock[p] = InitialStock[p]
      BY DEF Init, RowsInit
    <2>2. ASSUME NEW p \in Tracked PROVE stock[p] + Holding(p) = InitialStock[p]
      <3>1. Holding(p) = 0
        BY NoHolders, SumOfNone DEF Holding
      <3> QED BY <2>1, <3>1, Quantities
    <2> QED BY <2>1, <2>2 DEF StockExact
  <1>2. Init => EnoughIsEnough
    BY DEF Init, RowsInit, EnoughIsEnough, NoApproval
  <1> QED
    BY <1>1, <1>2, TypeCorrect, ShortIsShort, EnoughIsEnoughStep,
       StockExactStep, PTL DEF Spec

-----------------------------------------------------------------------------
(* What the refunds claim of an order's total.                             *)

\* The amounts of the rows of S, before a step and after it.
Amounts(S) == [r \in S |-> refunds[r].amount]

LEMMA RowsAreFew == \A S \in SUBSET RefundIds : IsFiniteSet(S)
  <1>1. IsFiniteSet(RefundIds)
    BY OrderStateAssumption, FS_Interval DEF RefundIds
  <1> QED BY <1>1, FS_Subset

LEMMA ClaimTypes ==
    ASSUME TypeOK, NEW o \in Orders
    PROVE  /\ IsFiniteSet(Claims(o))
           /\ FellThroughClaims(o) \subseteq Claims(o)
           /\ \A r \in Claims(o) : Amounts(Claims(o))[r] \in Nat \ {0}
  <1>1. Claims(o) \in SUBSET RefundIds
    BY DEF Claims, RefundsOf
  <1>2. \A r \in Claims(o) : refunds[r] \in Refund
    BY DEF Claims, RefundsOf, TypeOK, RowsTypeOK
  <1>3. \A r \in Claims(o) : refunds[r].amount \in Nat \ {0}
    BY <1>2 DEF Refund
  <1> QED
    BY <1>1, <1>3, RowsAreFew DEF Amounts, FellThroughClaims

\* What is claimed altogether is at least what the fallen-through order claims.
LEMMA FellThroughIsPart ==
    ASSUME TypeOK, NEW o \in Orders
    PROVE  /\ SumFunction(Amounts(FellThroughClaims(o))) \in Nat
           /\ Allotted(o) \in Nat
           /\ SumFunction(Amounts(FellThroughClaims(o))) <= Allotted(o)
  <1> DEFINE f == Amounts(Claims(o))
             h == Amounts(FellThroughClaims(o))
  <1>1. /\ IsFiniteSet(DOMAIN f) /\ DOMAIN h \subseteq DOMAIN f
        /\ \A r \in DOMAIN f : f[r] \in Nat
        /\ \A r \in DOMAIN h : h[r] = f[r]
    BY ClaimTypes DEF Amounts
  <1> HIDE DEF f, h
  <1>2. /\ SumFunction(h) \in Nat /\ SumFunction(f) \in Nat
        /\ SumFunction(h) <= SumFunction(f)
    BY <1>1, SumShrinks
  <1>3. Allotted(o) = SumFunction(f)
    BY DEF Allotted, Amounts, f
  <1> QED BY <1>2, <1>3 DEF h

\* The row a refund is inserted into, and what the claims of the orders are
\* afterwards.
ClaimsAfter(o) ==
    {r \in RefundIds : /\ refunds'[r] # NoRefund
                       /\ refunds'[r].order = o
                       /\ refunds'[r].status # "CANCELLED"}

FellThroughAfter(o) ==
    {r \in ClaimsAfter(o) : refunds'[r].reason \in StatusReasons}

AmountsAfter(S) == [r \in S |-> refunds'[r].amount]

LEMMA InsertedRow ==
    ASSUME TypeOK, NEW o \in Orders, NEW a \in Nat \ {0}, NEW why \in RefundReasons,
           NEW st \in RefundStatuses, InsertRefund(o, a, why, st)
    PROVE  \E q \in RefundIds :
              /\ refunds[q] = NoRefund
              /\ refunds'[q] # NoRefund
              /\ refunds'[q] = [order |-> o, amount |-> a, reason |-> why,
                                status |-> st]
              /\ \A r \in RefundIds \ {q} : refunds'[r] = refunds[r]
  <1>1. [order |-> o, amount |-> a, reason |-> why, status |-> st] \in Refund
    BY DEF Refund
  <1> QED
    BY <1>1, SentinelAssumption
       DEF InsertRefund, NextRefundId, TypeOK, RowsTypeOK

\* A live refund that is inserted adds its amount to what is claimed.
LEMMA InsertAddsClaim ==
    ASSUME TypeOK, NEW o \in Orders, NEW a \in Nat \ {0}, NEW why \in RefundReasons,
           NEW st \in RefundStatuses \ {"CANCELLED"}, InsertRefund(o, a, why, st)
    PROVE  SumFunction(AmountsAfter(ClaimsAfter(o))) = Allotted(o) + a
  <1>1. PICK q \in RefundIds :
           /\ refunds[q] = NoRefund
           /\ refunds'[q] # NoRefund
           /\ refunds'[q] = [order |-> o, amount |-> a, reason |-> why,
                             status |-> st]
           /\ \A r \in RefundIds \ {q} : refunds'[r] = refunds[r]
    BY InsertedRow
  <1> DEFINE f == Amounts(Claims(o))
             h == AmountsAfter(ClaimsAfter(o))
  <1>2. ClaimsAfter(o) = Claims(o) \cup {q} /\ q \notin Claims(o)
    BY <1>1 DEF ClaimsAfter, Claims, RefundsOf
  <1>3. \A r \in Claims(o) : refunds'[r] = refunds[r]
    BY <1>1, <1>2 DEF Claims, RefundsOf
  <1>4. /\ IsFiniteSet(DOMAIN f) /\ q \notin DOMAIN f
        /\ DOMAIN h = DOMAIN f \cup {q}
        /\ \A r \in DOMAIN f : f[r] \in Nat /\ h[r] = f[r]
    BY <1>2, <1>3, ClaimTypes DEF Amounts, AmountsAfter
  <1>5. h[q] = a
    BY <1>1, <1>2 DEF AmountsAfter
  <1> HIDE DEF f, h
  <1>6. SumFunction(h) = SumFunction(f) + h[q]
    BY <1>4, <1>5, SumGrows
  <1> QED BY <1>5, <1>6 DEF f, h, Allotted, Amounts

\* ... and what the fallen-through order claims grows by no more.
LEMMA InsertAddsFellThrough ==
    ASSUME TypeOK, NEW o \in Orders, NEW a \in Nat \ {0}, NEW why \in StatusReasons,
           NEW st \in RefundStatuses \ {"CANCELLED"}, InsertRefund(o, a, why, st)
    PROVE  SumFunction(AmountsAfter(FellThroughAfter(o)))
               = SumFunction(Amounts(FellThroughClaims(o))) + a
  <1>1. PICK q \in RefundIds :
           /\ refunds[q] = NoRefund
           /\ refunds'[q] # NoRefund
           /\ refunds'[q] = [order |-> o, amount |-> a, reason |-> why,
                             status |-> st]
           /\ \A r \in RefundIds \ {q} : refunds'[r] = refunds[r]
    BY InsertedRow DEF RefundReasons
  <1> DEFINE f == Amounts(FellThroughClaims(o))
             h == AmountsAfter(FellThroughAfter(o))
  <1>2. /\ FellThroughAfter(o) = FellThroughClaims(o) \cup {q}
        /\ q \notin FellThroughClaims(o)
    BY <1>1 DEF FellThroughAfter, ClaimsAfter, FellThroughClaims, Claims,
                RefundsOf, ForStatus
  <1>3. \A r \in FellThroughClaims(o) : r \in Claims(o) /\ refunds'[r] = refunds[r]
    BY <1>1, <1>2 DEF FellThroughClaims, Claims, RefundsOf
  <1>4. /\ IsFiniteSet(DOMAIN f) /\ q \notin DOMAIN f
        /\ DOMAIN h = DOMAIN f \cup {q}
        /\ \A r \in DOMAIN f : f[r] \in Nat /\ h[r] = f[r]
    BY <1>2, <1>3, ClaimTypes, FS_Subset DEF Amounts, AmountsAfter
  <1>5. h[q] = a
    BY <1>1, <1>2 DEF AmountsAfter
  <1> HIDE DEF f, h
  <1>6. SumFunction(h) = SumFunction(f) + h[q]
    BY <1>4, <1>5, SumGrows
  <1> QED BY <1>5, <1>6 DEF f, h

\* A step that inserts nothing for the order claims no more than before.
LEMMA ClaimsShrink ==
    ASSUME TypeOK, NEW o \in Orders,
           \A r \in FellThroughAfter(o) :
              r \in FellThroughClaims(o) /\ refunds'[r].amount = refunds[r].amount
    PROVE  /\ SumFunction(AmountsAfter(FellThroughAfter(o))) \in Nat
           /\ SumFunction(AmountsAfter(FellThroughAfter(o)))
                  <= SumFunction(Amounts(FellThroughClaims(o)))
  <1> DEFINE f == Amounts(FellThroughClaims(o))
             h == AmountsAfter(FellThroughAfter(o))
  <1>1. /\ IsFiniteSet(DOMAIN f) /\ DOMAIN h \subseteq DOMAIN f
        /\ \A r \in DOMAIN h : h[r] = f[r]
    BY ClaimTypes, FS_Subset DEF Amounts, AmountsAfter
  <1>2. \A r \in DOMAIN f : f[r] \in Nat
    BY ClaimTypes DEF Amounts
  <1> HIDE DEF f, h
  <1> QED BY <1>1, <1>2, SumShrinks DEF f, h

\* What a live row may become when no refund is inserted: its status moves.
RowMoves(r) ==
    \/ refunds'[r] = refunds[r]
    \/ /\ refunds[r] # NoRefund
       /\ refunds[r].status # "CANCELLED"
       /\ refunds'[r].order = refunds[r].order
       /\ refunds'[r].amount = refunds[r].amount
       /\ refunds'[r].reason = refunds[r].reason

LEMMA MovesShrink ==
    ASSUME TypeOK, NEW o \in Orders, \A r \in RefundIds : RowMoves(r)
    PROVE  /\ SumFunction(AmountsAfter(FellThroughAfter(o))) \in Nat
           /\ SumFunction(AmountsAfter(FellThroughAfter(o)))
                  <= SumFunction(Amounts(FellThroughClaims(o)))
  BY ClaimsShrink
     DEF RowMoves, FellThroughAfter, ClaimsAfter, FellThroughClaims, Claims,
         RefundsOf, ForStatus

\* A refund of another order, or one made by hand, does not count.
LEMMA InsertElsewhere ==
    ASSUME TypeOK, NEW o \in Orders, NEW p \in Orders, NEW a \in Nat \ {0},
           NEW why \in RefundReasons, NEW st \in RefundStatuses,
           p # o \/ why \notin StatusReasons, InsertRefund(p, a, why, st)
    PROVE  /\ SumFunction(AmountsAfter(FellThroughAfter(o))) \in Nat
           /\ SumFunction(AmountsAfter(FellThroughAfter(o)))
                  <= SumFunction(Amounts(FellThroughClaims(o)))
  <1>1. PICK q \in RefundIds :
           /\ refunds[q] = NoRefund
           /\ refunds'[q] # NoRefund
           /\ refunds'[q] = [order |-> p, amount |-> a, reason |-> why,
                             status |-> st]
           /\ \A r \in RefundIds \ {q} : refunds'[r] = refunds[r]
    BY InsertedRow
  <1>2. q \notin FellThroughAfter(o)
    BY <1>1 DEF FellThroughAfter, ClaimsAfter
  <1>3. \A r \in FellThroughAfter(o) :
           r \in FellThroughClaims(o) /\ refunds'[r].amount = refunds[r].amount
    BY <1>1, <1>2 DEF FellThroughAfter, ClaimsAfter, FellThroughClaims, Claims,
                      RefundsOf, ForStatus
  <1> QED BY <1>3, ClaimsShrink

LEMMA FellThroughStep ==
    TypeOK /\ FellThroughClaimsWithinTotal /\ [Next]_vars
        => FellThroughClaimsWithinTotal'
  <1> SUFFICES ASSUME TypeOK, FellThroughClaimsWithinTotal, [Next]_vars,
                      NEW o \in Orders
               PROVE  SumFunction(AmountsAfter(FellThroughAfter(o))) <= Total[o]
    BY DEF FellThroughClaimsWithinTotal, FellThroughClaims, Claims, RefundsOf,
           ForStatus, FellThroughAfter, ClaimsAfter, AmountsAfter
  <1> DEFINE before == SumFunction(Amounts(FellThroughClaims(o)))
             after == SumFunction(AmountsAfter(FellThroughAfter(o)))
  <1>1. before <= Total[o] /\ before \in Nat /\ before <= Allotted(o)
        /\ Allotted(o) \in Nat /\ Total[o] \in Nat
    BY FellThroughIsPart, Prices DEF FellThroughClaimsWithinTotal, Amounts
  <1> DEFINE Fits == \/ after \in Nat /\ after <= before
                     \/ \E a \in Nat : /\ after = before + a
                                       /\ Allotted(o) + a <= Total[o]
  <1>2. ASSUME NEW q \in Orders, NEW to \in Statuses, NEW by \in Actors,
               NEW d \in TransitionData(q), Transition(q, to, by, d)
        PROVE  Fits
    <2>1. RefundEffect(q, to, d) /\ Commits(q, to, d)
      BY <1>2 DEF Transition
    <2>2. CASE InsertsRefund(q, to, d)
      <3> DEFINE a == RefundAmount(q, d)
                 why == IF to = "REJECTED" THEN "ORDER_REJECTED"
                                           ELSE "ORDER_CANCELLED"
                 st == InitialRefundStatus(d)
      <3>1. to \in {"REJECTED", "CANCELLED"}
        BY <2>2 DEF InsertsRefund, RefundRequired
      <3>2. InsertRefund(q, a, why, st)
        BY <2>1, <2>2, <3>1 DEF RefundEffect
      <3>3. why \in StatusReasons /\ st \in RefundStatuses \ {"CANCELLED"}
        BY DEF StatusReasons, InitialRefundStatus, RefundStatuses
      <3>4. a \in Nat \ {0} /\ a <= Remaining(q)
        BY <2>1, <2>2, Prices DEF Commits, ValidAmount
      <3> HIDE DEF a, why, st
      <3>5. CASE q = o
        <4>1. after = before + a
          BY <3>2, <3>3, <3>4, <3>5, InsertAddsFellThrough
        <4>2. Allotted(o) + a <= Total[o]
          BY <1>1, <3>4, <3>5 DEF Remaining
        <4> QED BY <3>4, <4>1, <4>2
      <3>6. CASE q # o
        BY <3>2, <3>3, <3>4, <3>6, InsertElsewhere DEF RefundReasons
      <3> QED BY <3>5, <3>6
    <2>3. CASE ~InsertsRefund(q, to, d)
      <3>1. \A r \in RefundIds : RowMoves(r)
        BY <2>1, <2>3
           DEF RefundEffect, CancelledByApproval, RowMoves, TypeOK, RowsTypeOK,
               Refund
      <3> QED BY <3>1, MovesShrink
    <2> QED BY <2>2, <2>3
  <1>3. ASSUME NEW c \in Clients, CreateManualRefund(c)
        PROVE  Fits
    <2>1. client[c].order \in Orders /\ client[c].amount \in Nat \ {0}
      BY <1>3, ServedJob DEF CreateManualRefund, Serving, TypeOK
    <2>2. InsertRefund(client[c].order, client[c].amount, "MANUAL",
                       "AWAITING_DESTINATION")
      BY <1>3 DEF CreateManualRefund
    <2> QED
      BY <2>1, <2>2, InsertElsewhere
         DEF RefundReasons, StatusReasons, RefundStatuses
  <1>4. ASSUME NEW q \in RefundIds, RefundNext(q)
        PROVE  Fits
    <2>1. PICK st \in RefundStatuses :
             /\ refunds' = [refunds EXCEPT ![q].status = st]
             /\ refunds[q] # NoRefund
             /\ refunds[q].status # "CANCELLED"
      BY <1>4, RefundMoves DEF CanSetDestination, CanPay
    <2>2. \A r \in RefundIds : RowMoves(r)
      BY <2>1 DEF RowMoves, TypeOK, RowsTypeOK, Refund
    <2> QED BY <2>2, MovesShrink
  <1>5. ASSUME UNCHANGED refunds
        PROVE  Fits
    BY <1>5, MovesShrink DEF RowMoves
  <1>6. (\E c \in Clients, p \in Orders : PlaceOrder(c, p)) \/ UNCHANGED Tables
            => UNCHANGED refunds
    BY DEF PlaceOrder, Tables
  <1>7. Fits
    BY <1>2, <1>3, <1>4, <1>5, <1>6, StepCases DEF SomeTransition
  <1> HIDE DEF before, after
  <1>8. after <= Total[o]
    BY <1>1, <1>7
  <1> QED BY <1>8 DEF after

\* The live refunds of rejections and cancellations never claim more than the
\* order, for any number of refunds, however they interleave with refunds made
\* by hand: an insertion claims at most what all the claims leave over.
THEOREM FellThroughWithinTotal == Spec => []FellThroughClaimsWithinTotal
  <1>1. Init => FellThroughClaimsWithinTotal
    <2> SUFFICES ASSUME Init, NEW o \in Orders
                 PROVE  SumFunction(Amounts(FellThroughClaims(o))) <= Total[o]
      BY DEF FellThroughClaimsWithinTotal, Amounts
    <2>1. FellThroughClaims(o) = {}
      BY DEF Init, RowsInit, FellThroughClaims, Claims, RefundsOf
    <2>2. SumFunction(Amounts(FellThroughClaims(o))) = 0
      BY <2>1, SumOfNone DEF SumFunction, Amounts
    <2> QED BY <2>2, Prices
  <1> QED BY <1>1, TypeCorrect, FellThroughStep, PTL DEF Spec

\* The step that cancels an order with a sign of a payment inserts what is left
\* of its total, and so whatever was read before, all of it is claimed.
LEMMA CancellationClaims ==
    ASSUME TypeOK, [Next]_vars, NEW o \in Orders, PaidBefore(o),
           status[o] # "CANCELLED", status'[o] = "CANCELLED"
    PROVE  SumFunction(AmountsAfter(ClaimsAfter(o))) >= Total[o]
  <1>1. ASSUME NEW q \in Orders, NEW to \in Statuses, NEW by \in Actors,
               NEW d \in TransitionData(q), to = "CANCELLED" => d = NoData,
               Transition(q, to, by, d)
        PROVE  SumFunction(AmountsAfter(ClaimsAfter(o))) >= Total[o]
    <2>1. q = o /\ to = "CANCELLED" /\ d = NoData
      BY <1>1 DEF Transition, TypeOK, RowsTypeOK
    <2>2. RefundEffect(o, "CANCELLED", NoData) /\ Commits(o, "CANCELLED", NoData)
      BY <1>1, <2>1 DEF Transition
    <2>3. RefundRequired(o, "CANCELLED", NoData)
      BY DEF RefundRequired, NoData
    <2>4. RefundAmount(o, NoData) = Remaining(o)
      BY DEF RefundAmount, NoData
    <2>5. Allotted(o) \in Nat /\ Total[o] \in Nat
      BY FellThroughIsPart, Prices
    <2>6. CASE Remaining(o) > 0
      <3>1. InsertsRefund(o, "CANCELLED", NoData)
        BY <2>3, <2>6 DEF InsertsRefund
      <3>2. InsertRefund(o, Remaining(o), "ORDER_CANCELLED",
                         InitialRefundStatus(NoData))
        BY <2>2, <2>4, <3>1 DEF RefundEffect
      <3>3. Remaining(o) \in Nat \ {0} /\ Remaining(o) = Total[o] - Allotted(o)
        BY <2>5, <2>6 DEF Remaining
      <3>4. /\ "ORDER_CANCELLED" \in RefundReasons
            /\ InitialRefundStatus(NoData) \in RefundStatuses \ {"CANCELLED"}
        BY DEF RefundReasons, StatusReasons, InitialRefundStatus, RefundStatuses
      <3>5. SumFunction(AmountsAfter(ClaimsAfter(o))) = Allotted(o) + Remaining(o)
        BY <3>2, <3>3, <3>4, InsertAddsClaim
      <3> QED BY <2>5, <3>3, <3>5
    <2>7. CASE ~(Remaining(o) > 0)
      <3>1. UNCHANGED refunds
        BY <2>2, <2>7 DEF RefundEffect, InsertsRefund
      <3>2. AmountsAfter(ClaimsAfter(o)) = Amounts(Claims(o))
        BY <3>1 DEF AmountsAfter, ClaimsAfter, Amounts, Claims, RefundsOf
      <3>3. SumFunction(AmountsAfter(ClaimsAfter(o))) = Allotted(o)
        BY <3>2 DEF Allotted, Amounts
      <3> QED BY <2>5, <2>7, <3>3 DEF Remaining
    <2> QED BY <2>6, <2>7
  <1>2. ~\E c \in Clients, p \in Orders : PlaceOrder(c, p)
    BY DEF PlaceOrder, TypeOK, RowsTypeOK
  <1>3. ~\E c \in Clients : CreateManualRefund(c)
    BY DEF CreateManualRefund
  <1>4. ~\E r \in RefundIds : RefundNext(r)
    BY RefundMoves
  <1>5. ~UNCHANGED Tables
    BY DEF Tables
  <1> QED BY <1>1, <1>2, <1>3, <1>4, <1>5, StepCases DEF SomeTransition

\* Whoever cancels an order that shows a sign of a payment, refunds of its whole
\* total are live afterwards.
THEOREM NoPaymentDropped == Spec => CancelledPaymentIsClaimed
  <1>1. TypeOK /\ [Next]_vars =>
            [\A o \in Orders :
                /\ status[o] \in {"RECEIPT_SUBMITTED", "APPROVED"} \/ receipt[o] > 0
                /\ status[o] # "CANCELLED" /\ status'[o] = "CANCELLED"
                => Allotted(o)' >= Total[o]]_vars
    <2> SUFFICES ASSUME TypeOK, [Next]_vars, NEW o \in Orders,
                        status[o] \in {"RECEIPT_SUBMITTED", "APPROVED"}
                            \/ receipt[o] > 0,
                        status[o] # "CANCELLED", status'[o] = "CANCELLED"
                 PROVE  Allotted(o)' >= Total[o]
      OBVIOUS
    <2>1. SumFunction(AmountsAfter(ClaimsAfter(o))) >= Total[o]
      BY CancellationClaims DEF PaidBefore
    <2> QED
      BY <2>1 DEF Allotted, Claims, RefundsOf, AmountsAfter, ClaimsAfter
  <1> QED BY <1>1, TypeCorrect, PTL DEF Spec, CancelledPaymentIsClaimed

=============================================================================
