------------------------- MODULE CreditPlannerProofs -------------------------
(***************************************************************************)
(* Proofs about the functions of CreditPlanner, for any markups, buckets   *)
(* and amounts: a use is paid in full and by less than a toman too much,   *)
(* from the cheapest bucket on; a purchase is paid in full from what there *)
(* is; and no debit makes a debt while a bucket has money.                 *)
(*                                                                         *)
(* Every function walks over the buckets in an order and takes from each   *)
(* what is left for it.  That walk is one lemma (DueIsFilled), for any     *)
(* strict order of the sources and any worth of a toman of each.           *)
(***************************************************************************)
EXTENDS CreditPlanner, FiniteSets, FiniteSetTheorems, WellFoundedInduction,
        TLAPS

-----------------------------------------------------------------------------
(* The planner's functions return integers.                                *)

Amounts == [Sources -> Int]

LEMMA SumInt ==
    ASSUME NEW f \in Amounts
    PROVE  Sum(f) \in Int
  BY DEF Amounts, Sources, Sum

LEMMA PartsInt ==
    ASSUME NEW k \in Kinds
    PROVE  /\ Unit \div GlobalMarkup[k] \in Int
           /\ \A s \in Sources : Unit \div Markup[k][s] \in Int
           /\ GlobalMarkup[k] \in Nat \ {0}
           /\ \A s \in Sources : Markup[k][s] \in Nat \ {0}
           /\ Unit \in Nat \ {0}
  <1>1. /\ GlobalMarkup[k] \in Nat \ {0}
        /\ \A s \in Sources : Markup[k][s] \in Nat \ {0}
        /\ Unit \in Nat \ {0}
    BY PlannerAssumption
  <1> QED  BY <1>1

LEMMA CoverInt ==
    ASSUME NEW k \in Kinds, NEW b \in Amounts, NEW s \in Sources
    PROVE  Cover(k, b, s) \in Int
  <1>1. b[s] \in Int /\ Unit \div Markup[k][s] \in Int
    BY PartsInt DEF Amounts
  <1>2. b[s] * (Unit \div Markup[k][s]) \in Int
    BY <1>1
  <1> QED  BY <1>2 DEF Cover

LEMMA DueInt ==
    ASSUME NEW k \in Kinds, NEW raw \in Nat, NEW left \in Nat
    PROVE  DueAfterTrial(k, raw, left) \in Int
  <1>1. /\ Unit \in Int /\ GlobalMarkup[k] \in Int
        /\ Unit \div GlobalMarkup[k] \in Int
    BY PartsInt
  <1>2. raw * Unit \in Int /\ left * (Unit \div GlobalMarkup[k]) \in Int
    BY <1>1
  <1> QED  BY <1>2 DEF DueAfterTrial

\* A debit by hand takes exactly its amount.
LEMMA AdminChargesExact ==
    ASSUME NEW b \in Amounts, NEW a \in Int
    PROVE  /\ AdminCharges(b, a) \in Amounts
           /\ Sum(AdminCharges(b, a)) = a
  <1> DEFINE takes == [s \in Sources |-> FromPositive(b, a, s)]
  <1>1. ASSUME NEW s \in Sources
        PROVE  FromPositive(b, a, s) \in Int
    <2>1. [r \in Sources |-> IF Fuller(b, r, s) THEN Positive(b, r)
                                                ELSE 0] \in Amounts
      BY DEF Amounts, Positive
    <2>2. AdminLeftFor(b, a, s) \in Int
      BY <2>1, SumInt DEF AdminLeftFor
    <2> QED  BY <2>2 DEF FromPositive, Lesser, Amounts
  <1>2. takes \in Amounts
    BY <1>1 DEF Amounts
  <1>3. Sum(takes) \in Int
    BY <1>2, SumInt
  <1>4. AdminCharges(b, a)
          = [takes EXCEPT !["ADMIN_MANUAL"] = @ + (a - Sum(takes))]
    BY DEF AdminCharges
  <1>5. ASSUME NEW f \in Amounts, NEW d \in Int
        PROVE  /\ [f EXCEPT !["ADMIN_MANUAL"] = @ + d] \in Amounts
               /\ Sum([f EXCEPT !["ADMIN_MANUAL"] = @ + d]) = Sum(f) + d
    BY DEF Amounts, Sum, Sources
  <1> HIDE DEF takes
  <1>6. a - Sum(takes) \in Int /\ Sum(takes) + (a - Sum(takes)) = a
    BY <1>3
  <1> QED  BY <1>2, <1>4, <1>5, <1>6

-----------------------------------------------------------------------------
(* Whole toman.                                                            *)

LEMMA Scaled ==
    ASSUME NEW a \in Int, NEW b \in Int, NEW m \in Nat \ {0}
    PROVE  /\ a * m < b * m <=> a < b
           /\ a * m <= b * m <=> a <= b
  OBVIOUS

LEMMA Quotient ==
    ASSUME NEW a \in Int, NEW b \in Nat \ {0}
    PROVE  /\ a \div b \in Int
           /\ (a \div b) * b <= a
           /\ a < (a \div b) * b + b
  OBVIOUS

\* A price rounded up to whole toman covers it, and by less than one more.
LEMMA RoundedUp ==
    ASSUME NEW x \in Int, NEW m \in Nat \ {0}, NEW w \in Nat \ {0},
           NEW whole, whole = w * m
    PROVE  /\ CeilDiv(x * m, whole) \in Int
           /\ x <= CeilDiv(x * m, whole) * w
           /\ CeilDiv(x * m, whole) * w < x + w
           /\ x > 0 => CeilDiv(x * m, whole) > 0
  <1> DEFINE q == CeilDiv(x * m, whole)
  <1>1. whole \in Nat \ {0} /\ x * m \in Int
    OBVIOUS
  <1>2. /\ q \in Int
        /\ q * whole <= x * m + whole - 1
        /\ x * m + whole - 1 < q * whole + whole
    <2>1. q = (x * m + whole - 1) \div whole /\ x * m + whole - 1 \in Int
      BY <1>1 DEF CeilDiv
    <2> HIDE DEF q
    <2> QED BY <1>1, <2>1, Quotient
  <1> HIDE DEF q
  <1>3. q * w \in Int /\ q * whole = (q * w) * m
    BY <1>2
  <1>4. (q * w) * m < (x + w) * m
    BY <1>1, <1>2, <1>3
  <1>5. x * m <= (q * w) * m
    BY <1>1, <1>2, <1>3
  <1>6. x <= q * w /\ q * w < x + w
    BY <1>3, <1>4, <1>5, Scaled
  <1>7. x > 0 => q > 0
    BY <1>2, <1>6
  <1> QED BY <1>2, <1>6, <1>7 DEF q

-----------------------------------------------------------------------------
(* The sources in an order, and the sum of what comes before one of them.  *)

\* Of the subsets of a finite set, some have no smaller one among them.
LEMMA SmallestSubset ==
    ASSUME NEW S, IsFiniteSet(S), NEW T, T \subseteq SUBSET S, T # {}
    PROVE  \E s \in T : \A t \in T : t \subseteq s => t = s
  <1>1. FiniteSubsetsOf(S) = SUBSET S
    BY FS_FiniteSubsetsOfFinite
  <1>2. IsWellFoundedOn(StrictSubsetOrdering(S), SUBSET S)
    BY <1>1, FS_StrictSubsetOrderingWellFounded
  <1>3. \E s \in T : \A t \in T : ~(<<t, s>> \in StrictSubsetOrdering(S))
    BY <1>2, WFMin
  <1> QED
    BY <1>3 DEF StrictSubsetOrdering

LEMMA FewSources == IsFiniteSet(Sources)
  <1>1. \A T, x : IsFiniteSet(T) => IsFiniteSet(T \cup {x})
    BY FS_AddElement
  <1>2. IsFiniteSet({})
    BY FS_EmptySet
  <1> DEFINE Three == (({} \cup {"ZIBAL"}) \cup {"ZARINPAL"}) \cup {"VANDAR"}
             Five == (Three \cup {"BAZAAR"}) \cup {"SNAPPPAY"}
             All == (Five \cup {"ADMIN_MANUAL"}) \cup {"LEGACY"}
  <1>3. IsFiniteSet(All)
    BY <1>1, <1>2
  <1>4. Sources = All
    BY DEF Sources
  <1> QED BY <1>3, <1>4

\* R holds <<r, s>> when r is visited before s.
StrictOrder(R) ==
    /\ \A s \in Sources : <<s, s>> \notin R
    /\ \A r, s \in Sources : r # s => <<r, s>> \in R \/ <<s, r>> \in R
    /\ \A q, r, s \in Sources :
           <<q, r>> \in R /\ <<r, s>> \in R => <<q, s>> \in R

\* Any sources have a first one.
LEMMA FirstOf ==
    ASSUME NEW R, StrictOrder(R), NEW T \in SUBSET Sources, T # {}
    PROVE  \E s \in T : \A r \in T \ {s} : <<s, r>> \in R
  <1> DEFINE Upto(s) == {r \in Sources : r = s \/ <<r, s>> \in R}
             D == {Upto(s) : s \in T}
  <1>1. D \subseteq SUBSET Sources /\ D # {}
    OBVIOUS
  <1>2. \E d \in D : \A e \in D : e \subseteq d => e = d
    <2> HIDE DEF D
    <2> QED BY <1>1, FewSources, SmallestSubset
  <1>3. PICK s \in T :
            \A r \in T : Upto(r) \subseteq Upto(s) => Upto(r) = Upto(s)
    <2>1. PICK d \in D : \A e \in D : e \subseteq d => e = d
      BY <1>2
    <2>2. PICK s \in T : d = Upto(s)
      BY <2>1
    <2>3. \A r \in T : Upto(r) \in D
      OBVIOUS
    <2> HIDE DEF D, Upto
    <2> QED BY <2>1, <2>2, <2>3
  <1>4. ASSUME NEW r \in T \ {s}, <<r, s>> \in R
        PROVE  FALSE
    <2>1. r \in Sources /\ s \in Sources
      OBVIOUS
    <2>2. Upto(r) \subseteq Upto(s)
      BY <1>4, <2>1 DEF StrictOrder
    <2>3. s \in Upto(r)
      BY <1>3, <2>1, <2>2
    <2> QED BY <1>4, <2>1, <2>3 DEF StrictOrder
  <1> QED BY <1>4 DEF StrictOrder

\* One source comes after all others.
LEMMA LastOf ==
    ASSUME NEW R, StrictOrder(R)
    PROVE  \E z \in Sources : \A r \in Sources \ {z} : <<r, z>> \in R
  <1> DEFINE B == {p \in Sources \X Sources : <<p[2], p[1]>> \in R}
  <1>1. \A r, s \in Sources : <<r, s>> \in B <=> <<s, r>> \in R
    OBVIOUS
  <1>2. StrictOrder(B)
    <2> HIDE DEF B
    <2> QED BY <1>1 DEF StrictOrder
  <1>3. Sources # {} /\ Sources \in SUBSET Sources
    BY DEF Sources
  <1>4. PICK z \in Sources : \A r \in Sources \ {z} : <<z, r>> \in B
    <2> HIDE DEF B
    <2> QED BY <1>2, <1>3, FirstOf
  <1> QED BY <1>1, <1>4

\* Sums over the sources.
LEMMA SumOrder ==
    ASSUME NEW f \in Amounts, NEW g \in Amounts,
           \A s \in Sources : f[s] <= g[s]
    PROVE  Sum(f) <= Sum(g)
  BY DEF Amounts, Sources, Sum

LEMMA SumSplit ==
    ASSUME NEW f \in Amounts, NEW g \in Amounts, NEW h \in Amounts,
           \A s \in Sources : h[s] = f[s] + g[s]
    PROVE  Sum(h) = Sum(f) + Sum(g)
  BY DEF Amounts, Sources, Sum

\* v for the source s, nothing for the others.
At(s, v) == [r \in Sources |-> IF r = s THEN v ELSE 0]

LEMMA SumAt ==
    ASSUME NEW s \in Sources, NEW v \in Int
    PROVE  At(s, v) \in Amounts /\ Sum(At(s, v)) = v
  BY DEF Amounts, Sources, Sum, At

\* What f gives to those before s.
Before(R, f, s) == [r \in Sources |-> IF <<r, s>> \in R THEN f[r] ELSE 0]

LEMMA BeforeTypes ==
    ASSUME NEW R, NEW f \in Amounts, NEW s
    PROVE  /\ Before(R, f, s) \in Amounts
           /\ Sum(Before(R, f, s)) \in Int
  <1>1. Before(R, f, s) \in Amounts
    BY DEF Before, Amounts
  <1> QED BY <1>1, SumInt

LEMMA LaterIsLess ==
    ASSUME NEW R, StrictOrder(R), NEW f \in Amounts,
           \A s \in Sources : f[s] >= 0,
           NEW r \in Sources, NEW s \in Sources, <<r, s>> \in R
    PROVE  Sum(Before(R, f, r)) + f[r] <= Sum(Before(R, f, s))
  <1> DEFINE h == [q \in Sources |-> Before(R, f, r)[q] + At(r, f[r])[q]]
  <1>1. f[r] \in Int
    BY DEF Amounts
  <1>2. /\ Before(R, f, r) \in Amounts /\ Before(R, f, s) \in Amounts
        /\ At(r, f[r]) \in Amounts /\ Sum(At(r, f[r])) = f[r]
    BY <1>1, BeforeTypes, SumAt
  <1>3. /\ h \in Amounts
        /\ \A q \in Sources : h[q] = Before(R, f, r)[q] + At(r, f[r])[q]
    BY <1>2 DEF Amounts
  <1>4. ASSUME NEW q \in Sources
        PROVE  h[q] <= Before(R, f, s)[q]
    <2>1. /\ Before(R, f, s)[q] = IF <<q, s>> \in R THEN f[q] ELSE 0
          /\ Before(R, f, r)[q] = IF <<q, r>> \in R THEN f[q] ELSE 0
          /\ At(r, f[r])[q] = IF q = r THEN f[r] ELSE 0
          /\ f[q] \in Int /\ f[q] >= 0
      BY DEF Before, At, Amounts
    <2>2. /\ <<q, r>> \in R => <<q, s>> \in R
          /\ <<r, r>> \notin R
      BY DEF StrictOrder
    <2> QED BY <1>3, <2>1, <2>2
  <1> HIDE DEF h
  <1>5. Sum(h) = Sum(Before(R, f, r)) + f[r]
    BY <1>2, <1>3, SumSplit
  <1>6. Sum(h) <= Sum(Before(R, f, s))
    BY <1>2, <1>3, <1>4, SumOrder
  <1> QED BY <1>5, <1>6

LEMMA BeforeIsPart ==
    ASSUME NEW R, StrictOrder(R), NEW f \in Amounts,
           \A s \in Sources : f[s] >= 0,
           NEW s \in Sources
    PROVE  /\ Sum(Before(R, f, s)) + f[s] <= Sum(f)
           /\ (\A r \in Sources \ {s} : <<r, s>> \in R)
                  => Sum(Before(R, f, s)) + f[s] = Sum(f)
  <1> DEFINE h == [q \in Sources |-> Before(R, f, s)[q] + At(s, f[s])[q]]
  <1>1. f[s] \in Int
    BY DEF Amounts
  <1>2. /\ Before(R, f, s) \in Amounts
        /\ At(s, f[s]) \in Amounts /\ Sum(At(s, f[s])) = f[s]
    BY <1>1, BeforeTypes, SumAt
  <1>3. /\ h \in Amounts
        /\ \A q \in Sources : h[q] = Before(R, f, s)[q] + At(s, f[s])[q]
    BY <1>2 DEF Amounts
  <1>4. ASSUME NEW q \in Sources
        PROVE  /\ h[q] <= f[q]
               /\ (\A r \in Sources \ {s} : <<r, s>> \in R) => f[q] <= h[q]
    <2>1. /\ Before(R, f, s)[q] = IF <<q, s>> \in R THEN f[q] ELSE 0
          /\ At(s, f[s])[q] = IF q = s THEN f[s] ELSE 0
          /\ f[q] \in Int /\ f[q] >= 0
      BY DEF Before, At, Amounts
    <2>2. <<s, s>> \notin R
      BY DEF StrictOrder
    <2> QED BY <1>3, <2>1, <2>2
  <1> HIDE DEF h
  <1>6. Sum(h) = Sum(Before(R, f, s)) + f[s]
    BY <1>2, <1>3, SumSplit
  <1>7. Sum(h) <= Sum(f)
    BY <1>3, <1>4, SumOrder
  <1>8. (\A r \in Sources \ {s} : <<r, s>> \in R) => Sum(f) <= Sum(h)
    BY <1>3, <1>4, SumOrder
  <1>9. Sum(h) \in Int /\ Sum(f) \in Int
    BY <1>3, SumInt
  <1> QED BY <1>6, <1>7, <1>8, <1>9

\* If anything comes before s, some source comes right before it.
LEMMA LastBefore ==
    ASSUME NEW R, StrictOrder(R), NEW f \in Amounts, NEW s \in Sources,
           Sum(Before(R, f, s)) # 0
    PROVE  \E p \in Sources :
               /\ <<p, s>> \in R
               /\ Sum(Before(R, f, s)) = Sum(Before(R, f, p)) + f[p]
  <1> DEFINE B == {q \in Sources \X Sources : <<q[2], q[1]>> \in R}
             P == {r \in Sources : <<r, s>> \in R}
  <1>1. \A r, q \in Sources : <<r, q>> \in B <=> <<q, r>> \in R
    OBVIOUS
  <1>2. StrictOrder(B)
    <2> HIDE DEF B
    <2> QED BY <1>1 DEF StrictOrder
  <1>3. P # {} /\ P \in SUBSET Sources
    <2>1. P = {} => Before(R, f, s) = [r \in Sources |-> 0]
      BY DEF Before
    <2>2. Sum([r \in Sources |-> 0]) = 0
      BY DEF Sum, Sources
    <2> QED BY <2>1, <2>2
  <1>4. PICK p \in P : \A r \in P \ {p} : <<p, r>> \in B
    <2> HIDE DEF B, P
    <2> QED BY <1>2, <1>3, FirstOf
  <1>5. p \in Sources /\ <<p, s>> \in R /\ \A r \in P \ {p} : <<r, p>> \in R
    BY <1>1, <1>4
  <1>6. f[p] \in Int
    BY <1>5 DEF Amounts
  <1>7. /\ Before(R, f, p) \in Amounts /\ Before(R, f, s) \in Amounts
        /\ At(p, f[p]) \in Amounts /\ Sum(At(p, f[p])) = f[p]
    BY <1>5, <1>6, BeforeTypes, SumAt
  <1>8. ASSUME NEW q \in Sources
        PROVE  Before(R, f, s)[q] = Before(R, f, p)[q] + At(p, f[p])[q]
    <2>1. /\ Before(R, f, s)[q] = IF <<q, s>> \in R THEN f[q] ELSE 0
          /\ Before(R, f, p)[q] = IF <<q, p>> \in R THEN f[q] ELSE 0
          /\ At(p, f[p])[q] = IF q = p THEN f[p] ELSE 0
          /\ f[q] \in Int
      BY DEF Before, At, Amounts
    <2>2. <<q, s>> \in R <=> q = p \/ <<q, p>> \in R
      BY <1>5 DEF StrictOrder
    <2>3. <<p, p>> \notin R
      BY <1>5 DEF StrictOrder
    <2> QED BY <2>1, <2>2, <2>3
  <1>9. Sum(Before(R, f, s)) = Sum(Before(R, f, p)) + Sum(At(p, f[p]))
    BY <1>7, <1>8, SumSplit
  <1> QED BY <1>5, <1>7, <1>9

LEMMA SumNonNegative ==
    ASSUME NEW f \in Amounts, \A s \in Sources : f[s] >= 0
    PROVE  Sum(f) >= 0
  BY DEF Amounts, Sources, Sum

\* What is left for s of what is due, when all before it give what they cover.
Left(R, c, due, s) == due - Sum(Before(R, c, s))

\* m takes from each source in turn all that it covers, c, or what is left and
\* less than g beyond it.
Fills(R, c, m, due, g) ==
    \A s \in Sources :
        /\ Left(R, c, due, s) <= 0 => m[s] = 0
        /\ Left(R, c, due, s) > c[s] => m[s] = c[s]
        /\ Left(R, c, due, s) > 0 /\ Left(R, c, due, s) <= c[s] =>
               /\ Left(R, c, due, s) <= m[s]
               /\ m[s] < Left(R, c, due, s) + g

LEMMA NothingDue ==
    ASSUME NEW R, StrictOrder(R), NEW c \in Amounts,
           \A s \in Sources : c[s] >= 0,
           NEW m, NEW due \in Int, NEW g \in Nat, Fills(R, c, m, due, g),
           due <= 0
    PROVE  \A s \in Sources : m[s] = 0
  <1>1. ASSUME NEW s \in Sources
        PROVE  m[s] = 0
    <2>1. Before(R, c, s) \in Amounts /\ Sum(Before(R, c, s)) \in Int
      BY BeforeTypes
    <2>2. \A q \in Sources : Before(R, c, s)[q] >= 0
      BY DEF Before
    <2>3. Sum(Before(R, c, s)) >= 0
      BY <2>1, <2>2, SumNonNegative
    <2> QED BY <2>1, <2>3 DEF Fills, Left
  <1> QED BY <1>1

LEMMA MoreThanAllDue ==
    ASSUME NEW R, StrictOrder(R), NEW c \in Amounts,
           \A s \in Sources : c[s] >= 0,
           NEW m, NEW due \in Int, NEW g \in Nat, Fills(R, c, m, due, g),
           due > Sum(c)
    PROVE  \A s \in Sources : m[s] = c[s]
  <1>1. ASSUME NEW s \in Sources
        PROVE  m[s] = c[s]
    <2>1. Sum(Before(R, c, s)) \in Int /\ Sum(c) \in Int /\ c[s] \in Int
      BY BeforeTypes, SumInt DEF Amounts
    <2>2. Sum(Before(R, c, s)) + c[s] <= Sum(c)
      BY BeforeIsPart
    <2> QED BY <2>1, <2>2 DEF Fills, Left
  <1> QED BY <1>1

\* If the sources cover what is due, m takes it and less than g beyond it: all
\* of those before one source s, which gives the rest, and nothing after s.
LEMMA DueIsFilled ==
    ASSUME NEW R, StrictOrder(R), NEW c \in Amounts,
           \A s \in Sources : c[s] >= 0,
           NEW m \in Amounts, NEW due \in Int, NEW g \in Nat,
           Fills(R, c, m, due, g), due > 0, due <= Sum(c)
    PROVE  due <= Sum(m) /\ Sum(m) < due + g
  <1> DEFINE T == {s \in Sources : Left(R, c, due, s) <= c[s]}
  <1>1. ASSUME NEW s \in Sources
        PROVE  /\ Left(R, c, due, s) \in Int /\ c[s] \in Int /\ m[s] \in Int
               /\ Sum(Before(R, c, s)) \in Int
    BY BeforeTypes DEF Left, Amounts
  <1>2. Sum(c) \in Int /\ Sum(m) \in Int
    BY SumInt
  <1>3. T # {} /\ T \in SUBSET Sources
    <2>1. PICK z \in Sources : \A r \in Sources \ {z} : <<r, z>> \in R
      BY LastOf
    <2>2. Sum(Before(R, c, z)) + c[z] = Sum(c)
      BY <2>1, BeforeIsPart
    <2>3. z \in T
      BY <1>1, <1>2, <2>2 DEF Left
    <2> QED BY <2>3
  <1>4. PICK s \in T : \A r \in T \ {s} : <<s, r>> \in R
    <2> HIDE DEF T
    <2> QED BY <1>3, FirstOf
  <1>5. s \in Sources /\ Left(R, c, due, s) <= c[s]
    OBVIOUS
  <1>6. ASSUME NEW r \in Sources, <<r, s>> \in R
        PROVE  Left(R, c, due, r) > c[r] /\ m[r] = c[r]
    <2>1. <<s, r>> \notin R /\ r # s
      BY <1>5, <1>6 DEF StrictOrder
    <2>2. r \notin T
      BY <1>4, <2>1
    <2>3. Left(R, c, due, r) > c[r]
      BY <1>1, <2>2
    <2> QED BY <2>3 DEF Fills
  <1>7. ASSUME NEW r \in Sources, <<s, r>> \in R
        PROVE  m[r] = 0
    <2>1. Sum(Before(R, c, s)) + c[s] <= Sum(Before(R, c, r))
      BY <1>5, <1>7, LaterIsLess
    <2>2. Left(R, c, due, r) <= 0
      BY <1>1, <1>5, <2>1 DEF Left
    <2> QED BY <2>2 DEF Fills
  <1>8. Left(R, c, due, s) > 0
    <2>1. CASE Sum(Before(R, c, s)) = 0
      BY <2>1 DEF Left
    <2>2. CASE Sum(Before(R, c, s)) # 0
      <3>1. PICK p \in Sources :
                /\ <<p, s>> \in R
                /\ Sum(Before(R, c, s)) = Sum(Before(R, c, p)) + c[p]
        BY <1>5, <2>2, LastBefore
      <3>2. Left(R, c, due, p) > c[p]
        BY <1>6, <3>1
      <3> QED BY <1>1, <3>1, <3>2 DEF Left
    <2> QED BY <2>1, <2>2
  <1>9. Left(R, c, due, s) <= m[s] /\ m[s] < Left(R, c, due, s) + g
    BY <1>5, <1>8 DEF Fills
  <1>10. Sum(m) = Sum(Before(R, c, s)) + m[s]
    <2>1. /\ Before(R, c, s) \in Amounts
          /\ At(s, m[s]) \in Amounts /\ Sum(At(s, m[s])) = m[s]
      BY <1>1, <1>5, BeforeTypes, SumAt
    <2>2. ASSUME NEW q \in Sources
          PROVE  m[q] = Before(R, c, s)[q] + At(s, m[s])[q]
      <3>1. /\ Before(R, c, s)[q] = IF <<q, s>> \in R THEN c[q] ELSE 0
            /\ At(s, m[s])[q] = IF q = s THEN m[s] ELSE 0
            /\ m[q] \in Int /\ c[q] \in Int
        BY <1>1 DEF Before, At
      <3>2. /\ q = s \/ <<q, s>> \in R \/ <<s, q>> \in R
            /\ <<s, s>> \notin R
            /\ ~(<<q, s>> \in R /\ <<s, q>> \in R)
        BY <1>5 DEF StrictOrder
      <3>3. /\ <<q, s>> \in R => m[q] = c[q]
            /\ <<s, q>> \in R => m[q] = 0
        BY <1>6, <1>7
      <3> QED BY <3>1, <3>2, <3>3
    <2>3. Sum(m) = Sum(Before(R, c, s)) + Sum(At(s, m[s]))
      BY <2>1, <2>2, SumSplit
    <2> QED BY <2>1, <2>3
  <1> HIDE DEF T
  <1> QED BY <1>1, <1>2, <1>5, <1>9, <1>10 DEF Left

-----------------------------------------------------------------------------
(* A use of the model.                                                     *)

\* How many parts of a cost a toman of s pays for.
Parts(k, s) == Unit \div Markup[k][s]

\* A quotient without remainder.
LEMMA Exact ==
    ASSUME NEW a \in Nat \ {0}, NEW b \in Nat \ {0}, a % b = 0
    PROVE  /\ a \div b \in Nat \ {0}
           /\ (a \div b) * b = a
           /\ a \div b <= a
  OBVIOUS

LEMMA PartsExact ==
    ASSUME NEW k \in Kinds, NEW s \in Sources
    PROVE  /\ Parts(k, s) \in Nat \ {0}
           /\ Markup[k][s] \in Nat \ {0}
           /\ Parts(k, s) * Markup[k][s] = Unit
           /\ Parts(k, s) <= Unit
  <1>1. Unit \in Nat \ {0} /\ Markup[k][s] \in Nat \ {0}
    BY PartsInt
  <1>2. Unit % Markup[k][s] = 0
    BY PlannerAssumption
  <1> QED BY <1>1, <1>2, Exact DEF Parts

CheapestFirst(k) == {p \in Sources \X Sources : Precedes(k, p[1], p[2])}

LEMMA CheapestFirstMeans ==
    ASSUME NEW k, NEW r \in Sources, NEW s \in Sources
    PROVE  <<r, s>> \in CheapestFirst(k) <=> Precedes(k, r, s)
  BY DEF CheapestFirst

LEMMA CheapestFirstIsOrder ==
    ASSUME NEW k \in Kinds
    PROVE  StrictOrder(CheapestFirst(k))
  <1>1. \A s \in Sources : Markup[k][s] \in Nat /\ Position[s] \in Nat
    BY PartsInt, PlannerAssumption
  <1>2. \A s, r \in Sources : Position[s] = Position[r] => s = r
    BY PlannerAssumption
  <1> QED BY <1>1, <1>2, CheapestFirstMeans DEF StrictOrder, Precedes

\* What the buckets b cover of a cost.
Covers(k, b) == [s \in Sources |-> Cover(k, b, s)]

LEMMA CoversTypes ==
    ASSUME NEW k \in Kinds, NEW b \in Amounts
    PROVE  /\ Covers(k, b) \in Amounts
           /\ \A s \in Sources : Covers(k, b)[s] >= 0
           /\ Sum(Covers(k, b)) \in Int
  <1>1. ASSUME NEW s \in Sources
        PROVE  Cover(k, b, s) \in Int /\ Cover(k, b, s) >= 0
    <2>1. b[s] \in Int /\ Parts(k, s) \in Nat
      BY PartsExact DEF Amounts
    <2>2. b[s] > 0 => b[s] * Parts(k, s) \in Nat
      BY <2>1
    <2> QED BY <2>1, <2>2 DEF Cover, Parts
  <1>2. Covers(k, b) \in Amounts
    BY <1>1 DEF Covers, Amounts
  <1> QED BY <1>1, <1>2, SumInt DEF Covers

LEMMA LeftForIsLeft ==
    ASSUME NEW k \in Kinds, NEW b \in Amounts, NEW due \in Int,
           NEW s \in Sources
    PROVE  /\ LeftFor(k, b, due, s)
                  = Left(CheapestFirst(k), Covers(k, b), due, s)
           /\ LeftFor(k, b, due, s) \in Int
  <1>1. [r \in Sources |-> IF Precedes(k, r, s) THEN Cover(k, b, r) ELSE 0]
          = Before(CheapestFirst(k), Covers(k, b), s)
    BY CheapestFirstMeans DEF Before, Covers
  <1>2. Sum(Before(CheapestFirst(k), Covers(k, b), s)) \in Int
    BY CoversTypes, BeforeTypes
  <1> QED BY <1>1, <1>2 DEF LeftFor, Left

\* What a planner takes from a bucket: what is left, rounded up to whole toman,
\* or all that there is.  A toman of the bucket pays for w parts.
Take(x, l, factor, whole) ==
    IF x <= 0 \/ l <= 0 THEN 0 ELSE Lesser(x, CeilDiv(l * factor, whole))

\* m toman were taken of x, when l parts were left.
TookWhatWasLeft(x, l, w, m) ==
    /\ m \in Nat /\ m <= x
    /\ l <= 0 => m = 0
    /\ l > x * w => m = x
    /\ l > 0 /\ l <= x * w => l <= m * w /\ m * w < l + w

LEMMA TakesWhatIsLeft ==
    ASSUME NEW b, NEW s, b[s] \in Int, NEW l \in Int,
           NEW w \in Nat \ {0}, NEW factor \in Nat \ {0},
           NEW whole, whole = w * factor
    PROVE  TookWhatWasLeft(Positive(b, s), l, w, Take(b[s], l, factor, whole))
  <1> DEFINE q == CeilDiv(l * factor, whole)
             x == b[s]
             c == Positive(b, s) * w
             m == Take(x, l, factor, whole)
  <1>2. /\ q \in Int /\ l <= q * w /\ q * w < l + w
        /\ l > 0 => q > 0
    BY RoundedUp
  <1>3. /\ Positive(b, s) = IF x > 0 THEN x ELSE 0
        /\ x \in Int
    BY DEF Positive
  <1>4. m = IF x <= 0 \/ l <= 0 THEN 0 ELSE IF x <= q THEN x ELSE q
    BY DEF Take, Lesser
  <1> HIDE DEF q, x
  <1>6. q * w \in Int /\ x * w \in Int /\ 0 * w = 0
    BY <1>2, <1>3
  <1>5. c = IF x > 0 THEN x * w ELSE 0
    BY <1>3, <1>6
  <1> HIDE DEF m, c
  <1>7. x > 0 /\ l > c => x < q
    <2>1. x > 0 /\ l > c => x * w < q * w
      BY <1>2, <1>5, <1>6
    <2> QED BY <1>2, <1>3, <2>1, Scaled
  <1>8. x > 0 /\ l <= c => q <= x
    <2>1. (x + 1) * w = x * w + w
      BY <1>3
    <2>2. x > 0 /\ l <= c => q * w < (x + 1) * w
      BY <1>2, <1>5, <1>6, <2>1
    <2>3. x > 0 /\ l <= c => q < x + 1
      BY <1>2, <1>3, <2>2, Scaled
    <2> QED BY <1>2, <1>3, <2>3
  <1>9. /\ m \in Nat /\ m <= Positive(b, s)
        /\ l <= 0 => m = 0
        /\ l > c => m = Positive(b, s)
        /\ l > 0 /\ l <= c => m = q
    BY <1>2, <1>3, <1>4, <1>5, <1>6, <1>7, <1>8
  <1>10. l > 0 /\ l <= c => l <= m * w /\ m * w < l + w
    BY <1>2, <1>9
  <1> QED BY <1>9, <1>10 DEF x, c, m, TookWhatWasLeft

LEMMA FromMoneyFills ==
    ASSUME NEW k \in Kinds, NEW b \in Amounts, NEW due \in Int,
           NEW s \in Sources
    PROVE  /\ FromMoney(k, b, due, s) \in Nat
           /\ FromMoney(k, b, due, s) <= Positive(b, s)
           /\ LeftFor(k, b, due, s) <= 0 => FromMoney(k, b, due, s) = 0
           /\ LeftFor(k, b, due, s) > Cover(k, b, s) =>
                  FromMoney(k, b, due, s) = Positive(b, s)
           /\ LeftFor(k, b, due, s) > 0
              /\ LeftFor(k, b, due, s) <= Cover(k, b, s) =>
                  /\ LeftFor(k, b, due, s)
                        <= FromMoney(k, b, due, s) * Parts(k, s)
                  /\ FromMoney(k, b, due, s) * Parts(k, s)
                        < LeftFor(k, b, due, s) + Parts(k, s)
           /\ Cover(k, b, s) = Positive(b, s) * Parts(k, s)
  <1> DEFINE l == LeftFor(k, b, due, s)
             u == Parts(k, s)
             m == FromMoney(k, b, due, s)
             c == Cover(k, b, s)
             f == Markup[k][s]
  <1>1. /\ l \in Int /\ b[s] \in Int /\ u \in Nat \ {0}
        /\ f \in Nat \ {0} /\ Unit = u * f
    BY LeftForIsLeft, PartsExact DEF Amounts
  <1>2. c = Positive(b, s) * u
    <2>1. c = IF b[s] > 0 THEN b[s] * u ELSE 0
      BY DEF Cover, Parts
    <2>2. 0 * u = 0
      BY <1>1
    <2> HIDE DEF c, u
    <2> QED BY <2>1, <2>2 DEF Positive
  <1>3. m = Take(b[s], l, f, Unit)
    BY DEF FromMoney, Take
  <1> HIDE DEF l, u, m, c, f
  <1>4. /\ m \in Nat /\ m <= Positive(b, s)
        /\ l <= 0 => m = 0
        /\ l > c => m = Positive(b, s)
        /\ l > 0 /\ l <= c => l <= m * u /\ m * u < l + u
    <2>1. TookWhatWasLeft(Positive(b, s), l, u, Take(b[s], l, f, Unit))
      BY <1>1, TakesWhatIsLeft
    <2> QED BY <1>2, <1>3, <2>1 DEF TookWhatWasLeft
  <1> QED BY <1>2, <1>4 DEF l, u, m, c

\* What the money of each bucket pays for.
Paid(k, b, due) ==
    [s \in Sources |-> FromMoney(k, b, due, s) * Parts(k, s)]

LEMMA PaidFills ==
    ASSUME NEW k \in Kinds, NEW b \in Amounts, NEW due \in Int
    PROVE  /\ Paid(k, b, due) \in Amounts
           /\ Fills(CheapestFirst(k), Covers(k, b), Paid(k, b, due), due, Unit)
  <1>1. ASSUME NEW s \in Sources
        PROVE  FromMoney(k, b, due, s) * Parts(k, s) \in Int
    <2>1. FromMoney(k, b, due, s) \in Int /\ Parts(k, s) \in Int
      BY FromMoneyFills, PartsExact
    <2> QED BY <2>1
  <1>2. ASSUME NEW s \in Sources,
               NEW l, l = Left(CheapestFirst(k), Covers(k, b), due, s),
               NEW c, c = Covers(k, b)[s], NEW p, p = Paid(k, b, due)[s]
        PROVE  /\ l <= 0 => p = 0
               /\ l > c => p = c
               /\ l > 0 /\ l <= c => l <= p /\ p < l + Unit
    <2>1. /\ p = FromMoney(k, b, due, s) * Parts(k, s) /\ c = Cover(k, b, s)
          /\ l = LeftFor(k, b, due, s) /\ l \in Int
      BY <1>2, LeftForIsLeft DEF Paid, Covers
    <2>2. Parts(k, s) \in Nat /\ Parts(k, s) <= Unit /\ 0 * Parts(k, s) = 0
          /\ Unit \in Nat /\ p \in Int
      BY <1>1, <2>1, PartsExact, PartsInt
    <2>3. l <= 0 => p = 0
      BY <2>1, <2>2, FromMoneyFills
    <2>4. l > c => p = c
      BY <2>1, <2>2, FromMoneyFills
    <2>5. l > 0 /\ l <= c => l <= p /\ p < l + Parts(k, s)
      BY <2>1, FromMoneyFills
    <2> QED BY <2>1, <2>2, <2>3, <2>4, <2>5
  <1> QED BY <1>1, <1>2 DEF Fills, Paid, Amounts

LEMMA DebtorIsSource ==
    ASSUME NEW k \in Kinds, NEW rows \in SUBSET Sources
    PROVE  Debtor(k, rows) \in Sources
  <1>1. CASE rows = {}
    BY <1>1 DEF Debtor, Sources
  <1>2. CASE rows # {}
    <2>1. \E s \in rows : \A r \in rows \ {s} : <<s, r>> \in CheapestFirst(k)
      BY <1>2, CheapestFirstIsOrder, FirstOf
    <2>2. \E s \in rows : \A r \in rows \ {s} : Precedes(k, s, r)
      BY <2>1, CheapestFirstMeans
    <2>3. Debtor(k, rows) \in rows
      BY <1>2, <2>2 DEF Debtor
    <2> QED BY <2>3
  <1> QED BY <1>1, <1>2

\* The debt of a use is on one bucket, and pays for what the money does not.
LEMMA OnDebtPays ==
    ASSUME NEW k \in Kinds, NEW b \in Amounts, NEW rows \in SUBSET Sources,
           NEW due \in Int, Uncovered(k, b, due) > 0
    PROVE  LET d == Debtor(k, rows)
               x == Uncovered(k, b, due)
           IN  /\ \A s \in Sources \ {d} : OnDebt(k, b, rows, due, s) = 0
               /\ OnDebt(k, b, rows, due, d) \in Nat
               /\ x <= OnDebt(k, b, rows, due, d) * Parts(k, d)
               /\ OnDebt(k, b, rows, due, d) * Parts(k, d) < x + Parts(k, d)
  <1> DEFINE d == Debtor(k, rows)
             x == Uncovered(k, b, due)
             q == CeilDiv(x * Markup[k][d], Unit)
             u == Parts(k, d)
  <1>1. d \in Sources
    BY DebtorIsSource
  <1>2. x \in Int /\ x > 0
    <2>1. Sum(Covers(k, b)) \in Int
      BY CoversTypes
    <2> QED BY <2>1 DEF Uncovered, Covers
  <1>3. /\ u \in Nat \ {0} /\ Markup[k][d] \in Nat \ {0}
        /\ Unit = u * Markup[k][d]
    <2> HIDE DEF d
    <2> QED BY <1>1, PartsExact
  <1>4. q \in Int /\ x <= q * u /\ q * u < x + u /\ q > 0
    <2> HIDE DEF d, x, u
    <2> QED BY <1>2, <1>3, RoundedUp
  <1>5. OnDebt(k, b, rows, due, d) = q
    BY <1>2 DEF OnDebt
  <1>6. \A s \in Sources \ {d} : OnDebt(k, b, rows, due, s) = 0
    BY DEF OnDebt
  <1> HIDE DEF d, x, q, u
  <1>7. /\ OnDebt(k, b, rows, due, d) \in Nat
        /\ x <= OnDebt(k, b, rows, due, d) * u
        /\ OnDebt(k, b, rows, due, d) * u < x + u
    BY <1>4, <1>5
  <1> QED BY <1>6, <1>7 DEF d, x, u

\* When the money covers the cost, nothing goes on a debt; when it does not, it
\* is used up.
LEMMA DebtOnlyWhenMoneyIsUsed ==
    ASSUME NEW k \in Kinds, NEW b \in Amounts, NEW rows \in SUBSET Sources,
           NEW due \in Int, NEW s \in Sources
    PROVE  /\ OnDebt(k, b, rows, due, s) \in Nat
           /\ \/ Uncovered(k, b, due) <= 0 /\ OnDebt(k, b, rows, due, s) = 0
              \/ /\ Uncovered(k, b, due) > 0
                 /\ \A r \in Sources : FromMoney(k, b, due, r) = Positive(b, r)
  <1>1. /\ Uncovered(k, b, due) = due - Sum(Covers(k, b))
        /\ Sum(Covers(k, b)) \in Int
    BY CoversTypes DEF Uncovered, Covers
  <1>2. CASE Uncovered(k, b, due) <= 0
    BY <1>1, <1>2 DEF OnDebt
  <1>3. CASE Uncovered(k, b, due) > 0
    <2>1. ASSUME NEW r \in Sources
          PROVE  FromMoney(k, b, due, r) = Positive(b, r)
      <3>1. Sum(Before(CheapestFirst(k), Covers(k, b), r)) \in Int
        BY CoversTypes, BeforeTypes
      <3>2. Sum(Before(CheapestFirst(k), Covers(k, b), r)) + Covers(k, b)[r]
              <= Sum(Covers(k, b))
        BY CheapestFirstIsOrder, CoversTypes, BeforeIsPart
      <3>3. Covers(k, b)[r] = Cover(k, b, r) /\ Cover(k, b, r) \in Int
        BY CoverInt DEF Covers
      <3>4. LeftFor(k, b, due, r) > Cover(k, b, r)
        BY <1>1, <1>3, <3>1, <3>2, <3>3, LeftForIsLeft DEF Left
      <3> QED BY <3>4, FromMoneyFills
    <2>2. OnDebt(k, b, rows, due, s) \in Nat
      <3>1. CASE s = Debtor(k, rows)
        BY <1>3, <3>1, OnDebtPays
      <3>2. CASE s # Debtor(k, rows)
        BY <3>2 DEF OnDebt
      <3> QED BY <3>1, <3>2
    <2> QED BY <1>3, <2>1, <2>2
  <1> QED BY <1>1, <1>2, <1>3

LEMMA BucketChargesInt ==
    ASSUME NEW k \in Kinds, NEW b \in Amounts, NEW rows \in SUBSET Sources,
           NEW due \in Int
    PROVE  BucketCharges(k, b, rows, due) \in Amounts
  <1>1. ASSUME NEW s \in Sources
        PROVE  FromMoney(k, b, due, s) + OnDebt(k, b, rows, due, s) \in Int
    <2>1. /\ FromMoney(k, b, due, s) \in Nat
          /\ OnDebt(k, b, rows, due, s) \in Nat
      BY FromMoneyFills, DebtOnlyWhenMoneyIsUsed
    <2> QED BY <2>1
  <1> QED BY <1>1 DEF BucketCharges, Amounts

\* A bucket is charged only when the money of those cheaper is used up.
LEMMA ChargedCheapestFirst ==
    ASSUME NEW k \in Kinds, NEW b \in Amounts, NEW rows \in SUBSET Sources,
           NEW due \in Int, NEW r \in Sources, NEW s \in Sources,
           Markup[k][r] < Markup[k][s], BucketCharges(k, b, rows, due)[s] > 0
    PROVE  b[r] <= BucketCharges(k, b, rows, due)[r]
  <1>1. /\ FromMoney(k, b, due, r) \in Nat /\ FromMoney(k, b, due, s) \in Nat
        /\ OnDebt(k, b, rows, due, r) \in Nat
        /\ OnDebt(k, b, rows, due, s) \in Nat
    BY FromMoneyFills, DebtOnlyWhenMoneyIsUsed
  <1>2. \A q \in Sources : BucketCharges(k, b, rows, due)[q]
            = FromMoney(k, b, due, q) + OnDebt(k, b, rows, due, q)
    BY DEF BucketCharges
  <1>3. FromMoney(k, b, due, r) = Positive(b, r)
    <2>1. CASE OnDebt(k, b, rows, due, s) # 0
      BY <2>1, DebtOnlyWhenMoneyIsUsed
    <2>2. CASE FromMoney(k, b, due, s) # 0
      <3>1. LeftFor(k, b, due, s) > 0
        BY <2>2, FromMoneyFills, LeftForIsLeft
      <3>2. <<r, s>> \in CheapestFirst(k)
        BY CheapestFirstMeans DEF Precedes
      <3>3. Sum(Before(CheapestFirst(k), Covers(k, b), r)) + Covers(k, b)[r]
              <= Sum(Before(CheapestFirst(k), Covers(k, b), s))
        BY <3>2, CheapestFirstIsOrder, CoversTypes, LaterIsLess
      <3>4. /\ Sum(Before(CheapestFirst(k), Covers(k, b), r)) \in Int
            /\ Sum(Before(CheapestFirst(k), Covers(k, b), s)) \in Int
            /\ Covers(k, b)[r] = Cover(k, b, r) /\ Cover(k, b, r) \in Int
        BY CoversTypes, BeforeTypes, CoverInt DEF Covers
      <3>5. LeftFor(k, b, due, r) > Cover(k, b, r)
        BY <3>1, <3>3, <3>4, LeftForIsLeft DEF Left
      <3> QED BY <3>5, FromMoneyFills
    <2> QED BY <1>1, <1>2, <2>1, <2>2
  <1>4. b[r] \in Int /\ b[r] <= Positive(b, r)
    BY DEF Positive, Amounts
  <1> QED BY <1>1, <1>2, <1>3, <1>4

\* What the charges pay for.
Pays(k, charges) == [s \in Sources |-> charges[s] * (Unit \div Markup[k][s])]

LEMMA NothingDueNothingCharged ==
    ASSUME NEW k \in Kinds, NEW b \in Amounts, NEW rows \in SUBSET Sources,
           NEW due \in Int, due <= 0
    PROVE  \A s \in Sources : BucketCharges(k, b, rows, due)[s] = 0
  <1>1. Uncovered(k, b, due) <= 0 /\ Uncovered(k, b, due) \in Int
    <2>1. Sum(Covers(k, b)) >= 0 /\ Sum(Covers(k, b)) \in Int
      BY CoversTypes, SumNonNegative
    <2> QED BY <2>1 DEF Uncovered, Covers
  <1>2. ASSUME NEW s \in Sources
        PROVE  FromMoney(k, b, due, s) = 0
    <2>1. Sum(Before(CheapestFirst(k), Covers(k, b), s)) >= 0
      <3>1. \A q \in Sources :
                Before(CheapestFirst(k), Covers(k, b), s)[q] >= 0
        BY CoversTypes DEF Before
      <3> QED BY <3>1, CoversTypes, BeforeTypes, SumNonNegative
    <2>2. Sum(Before(CheapestFirst(k), Covers(k, b), s)) \in Int
      BY CoversTypes, BeforeTypes
    <2>3. LeftFor(k, b, due, s) <= 0
      BY <2>1, <2>2, LeftForIsLeft DEF Left
    <2> QED BY <2>3, FromMoneyFills
  <1>3. ASSUME NEW s \in Sources
        PROVE  OnDebt(k, b, rows, due, s) = 0
    BY <1>1, DebtOnlyWhenMoneyIsUsed
  <1>4. ASSUME NEW s \in Sources
        PROVE  BucketCharges(k, b, rows, due)[s]
                   = FromMoney(k, b, due, s) + OnDebt(k, b, rows, due, s)
    BY DEF BucketCharges
  <1>5. ASSUME NEW s \in Sources
        PROVE  BucketCharges(k, b, rows, due)[s] = 0
    <2>1. FromMoney(k, b, due, s) = 0 /\ OnDebt(k, b, rows, due, s) = 0
      BY <1>2, <1>3
    <2> QED BY <1>4, <2>1
  <1> QED BY <1>5

\* A use is paid in full, and less than a toman beyond it.
LEMMA DueIsPaid ==
    ASSUME NEW k \in Kinds, NEW b \in Amounts, NEW rows \in SUBSET Sources,
           NEW due \in Int, due > 0
    PROVE  LET paid == Sum(Pays(k, BucketCharges(k, b, rows, due)))
           IN  paid \in Int /\ due <= paid /\ paid < due + Unit
  <1> DEFINE f == Pays(k, BucketCharges(k, b, rows, due))
             m == Paid(k, b, due)
             d == Debtor(k, rows)
             x == Uncovered(k, b, due)
             c == Covers(k, b)
  <1>1. \A s \in Sources :
            f[s] = (FromMoney(k, b, due, s) + OnDebt(k, b, rows, due, s))
                       * Parts(k, s)
    BY DEF Pays, BucketCharges, Parts
  <1>2. ASSUME NEW s \in Sources
        PROVE  /\ FromMoney(k, b, due, s) \in Nat
               /\ OnDebt(k, b, rows, due, s) \in Nat
               /\ Parts(k, s) \in Nat
               /\ m[s] = FromMoney(k, b, due, s) * Parts(k, s)
               /\ f[s] = m[s] + OnDebt(k, b, rows, due, s) * Parts(k, s)
    <2>1. /\ FromMoney(k, b, due, s) \in Nat
          /\ OnDebt(k, b, rows, due, s) \in Nat
          /\ Parts(k, s) \in Nat
      BY FromMoneyFills, DebtOnlyWhenMoneyIsUsed, PartsExact
    <2>2. m[s] = FromMoney(k, b, due, s) * Parts(k, s)
      BY DEF Paid
    <2>3. f[s] = (FromMoney(k, b, due, s) + OnDebt(k, b, rows, due, s))
                       * Parts(k, s)
      BY <1>1
    <2> HIDE DEF f, m
    <2> QED BY <2>1, <2>2, <2>3
  <1>3. m \in Amounts /\ f \in Amounts
    <2>1. m \in Amounts
      BY PaidFills
    <2>2. f = [s \in Sources |-> f[s]]
      BY DEF Pays
    <2>3. ASSUME NEW s \in Sources PROVE f[s] \in Int
      <3>1. OnDebt(k, b, rows, due, s) * Parts(k, s) \in Int /\ m[s] \in Int
        BY <1>2, <2>1 DEF Amounts
      <3> QED BY <1>2, <3>1
    <2> HIDE DEF f
    <2> QED BY <2>1, <2>2, <2>3 DEF Amounts
  <1>4. Sum(m) \in Int /\ Sum(f) \in Int /\ Sum(c) \in Int /\ Unit \in Nat
        /\ x = due - Sum(c)
    BY <1>3, SumInt, CoversTypes, PlannerAssumption DEF Uncovered, Covers
  <1>7. x \in Int
    <2> HIDE DEF x, c
    <2> QED BY <1>4
  <1>5. CASE x <= 0
    <2>1. f = m
      <3>1. ASSUME NEW s \in Sources PROVE f[s] = m[s]
        <4>1. OnDebt(k, b, rows, due, s) = 0
          BY <1>5, <1>7, DebtOnlyWhenMoneyIsUsed
        <4> QED BY <1>2, <1>3, <4>1 DEF Amounts
      <3> HIDE DEF f, m
      <3> QED BY <1>3, <3>1 DEF Amounts
    <2>2. due <= Sum(c)
      BY <1>4, <1>5
    <2>3. due <= Sum(m) /\ Sum(m) < due + Unit
      BY <1>4, <2>2, PaidFills, CoversTypes, CheapestFirstIsOrder, DueIsFilled
    <2> HIDE DEF f, m
    <2> QED BY <1>4, <2>1, <2>3 DEF f
  <1>6. CASE x > 0
    <2> DEFINE v == OnDebt(k, b, rows, due, d) * Parts(k, d)
    <2>1. /\ d \in Sources
          /\ \A s \in Sources \ {d} : OnDebt(k, b, rows, due, s) = 0
          /\ x <= v /\ v < x + Parts(k, d)
      BY <1>6, DebtorIsSource, OnDebtPays
    <2>2. v \in Int /\ Parts(k, d) <= Unit /\ Parts(k, d) \in Int
      BY <1>2, <2>1, PartsExact
    <2>3. \A s \in Sources : m[s] = c[s]
      <3>1. due > Sum(c)
        BY <1>4, <1>6
      <3>2. /\ StrictOrder(CheapestFirst(k))
            /\ c \in Amounts /\ \A s \in Sources : c[s] >= 0
            /\ Fills(CheapestFirst(k), c, m, due, Unit)
        BY PaidFills, CoversTypes, CheapestFirstIsOrder
      <3> HIDE DEF c, m
      <3> QED BY <1>4, <3>1, <3>2, MoreThanAllDue
    <2>4. Sum(m) = Sum(c)
      <3>1. m = c
        <4> HIDE DEF m, c
        <4> QED BY <1>3, <2>3, CoversTypes DEF Amounts, c
      <3> QED BY <3>1
    <2>5. Sum(f) = Sum(m) + Sum(At(d, v))
      <3>1. At(d, v) \in Amounts
        BY <2>1, <2>2, SumAt
      <3>2. ASSUME NEW s \in Sources PROVE f[s] = m[s] + At(d, v)[s]
        <4>1. At(d, v)[s] = IF s = d THEN v ELSE 0
          BY DEF At
        <4>2. s # d => OnDebt(k, b, rows, due, s) * Parts(k, s) = 0
          BY <1>2, <2>1
        <4>3. f[s] = m[s] + OnDebt(k, b, rows, due, s) * Parts(k, s)
          BY <1>2
        <4> HIDE DEF f, m, d
        <4> QED BY <4>1, <4>2, <4>3
      <3> HIDE DEF f, m, v
      <3> QED BY <1>3, <3>1, <3>2, SumSplit
    <2>6. Sum(At(d, v)) = v
      BY <2>1, <2>2, SumAt
    <2> HIDE DEF f, m, v, c, x, d
    <2>7. due <= Sum(f) /\ Sum(f) < due + Unit
      BY <1>4, <2>1, <2>2, <2>4, <2>5, <2>6
    <2> QED BY <1>4, <2>7 DEF f
  <1> QED BY <1>5, <1>6, <1>7

-----------------------------------------------------------------------------
(* A purchase.                                                             *)

\* What a toman of a bucket pays for, in parts of a toman at the global markup.
Worth(s) == Parts("BUYER", s) * GlobalMarkup["BUYER"]

LEMMA WorthExact ==
    ASSUME NEW s \in Sources
    PROVE  /\ Worth(s) \in Nat \ {0}
           /\ Unit * GlobalMarkup["BUYER"] = Worth(s) * Markup["BUYER"][s]
           /\ Markup["BUYER"][s] \in Nat \ {0}
           /\ Worth(s) <= Unit * GlobalMarkup["BUYER"]
           /\ Unit * GlobalMarkup["BUYER"] \in Nat
  <1> DEFINE u == Parts("BUYER", s)
             G == GlobalMarkup["BUYER"]
             f == Markup["BUYER"][s]
  <1>1. "BUYER" \in Kinds
    BY DEF Kinds
  <1>2. /\ u \in Nat \ {0} /\ f \in Nat \ {0} /\ u * f = Unit /\ u <= Unit
        /\ G \in Nat \ {0} /\ Unit \in Nat \ {0}
    BY <1>1, PartsExact, PartsInt
  <1>3. Worth(s) = u * G
    BY DEF Worth
  <1> HIDE DEF u, G, f
  <1>4. /\ u * G \in Nat \ {0} /\ Unit * G = (u * G) * f /\ u * G <= Unit * G
        /\ Unit * G \in Nat
    BY <1>2
  <1> QED BY <1>2, <1>3, <1>4 DEF G, f

\* What the buckets b cover of a price.
Effectives(b) == [s \in Sources |-> Effective(b, s)]

LEMMA EffectiveIsWorth ==
    ASSUME NEW b \in Amounts, NEW s \in Sources
    PROVE  /\ Effective(b, s) = Positive(b, s) * Worth(s)
           /\ Effective(b, s) \in Nat
  <1> DEFINE u == Parts("BUYER", s)
             G == GlobalMarkup["BUYER"]
             p == Positive(b, s)
  <1>1. "BUYER" \in Kinds
    BY DEF Kinds
  <1>2. u \in Nat /\ G \in Nat /\ p \in Nat
    BY <1>1, PartsExact, PartsInt DEF Amounts, Positive
  <1>3. Effective(b, s) = (p * u) * G /\ Worth(s) = u * G
    BY <1>1, FromMoneyFills DEF Effective, Worth
  <1> HIDE DEF u, G, p
  <1>4. (p * u) * G = p * (u * G) /\ (p * u) * G \in Nat
    BY <1>2
  <1> QED BY <1>3, <1>4 DEF p

LEMMA EffectivesTypes ==
    ASSUME NEW b \in Amounts
    PROVE  /\ Effectives(b) \in Amounts
           /\ \A s \in Sources : Effectives(b)[s] >= 0
  BY EffectiveIsWorth DEF Effectives, Amounts

LEMMA PriceTakes ==
    ASSUME NEW b \in Amounts, NEW price \in Nat, NEW s \in Sources
    PROVE  LET l == Left(CheapestFirst("BUYER"), Effectives(b), price * Unit,
                         s)
               m == PriceCharges(b, price)[s]
               c == Effectives(b)[s]
           IN  /\ l \in Int
               /\ m \in Nat /\ m <= Positive(b, s)
               /\ l <= 0 => m = 0
               /\ l > c => m * Worth(s) = c
               /\ l > 0 /\ l <= c =>
                      l <= m * Worth(s) /\ m * Worth(s) < l + Worth(s)
  <1> DEFINE l == Left(CheapestFirst("BUYER"), Effectives(b), price * Unit, s)
             m == PriceCharges(b, price)[s]
             f == Markup["BUYER"][s]
             whole == Unit * GlobalMarkup["BUYER"]
             w == Worth(s)
  <1>1. l = PriceLeftFor(b, price, s) /\ l \in Int
    <2>1. [r \in Sources |-> IF Precedes("BUYER", r, s) THEN Effective(b, r)
                                                        ELSE 0]
            = Before(CheapestFirst("BUYER"), Effectives(b), s)
      BY CheapestFirstMeans DEF Before, Effectives
    <2>2. Sum(Before(CheapestFirst("BUYER"), Effectives(b), s)) \in Int
      BY EffectivesTypes, BeforeTypes
    <2>3. price * Unit \in Int
      BY PlannerAssumption
    <2> QED BY <2>1, <2>2, <2>3 DEF PriceLeftFor, Left
  <1>2. /\ w \in Nat \ {0} /\ f \in Nat \ {0} /\ whole = w * f
        /\ b[s] \in Int
    BY WorthExact DEF Amounts
  <1>3. m = Take(b[s], l, f, whole)
    BY <1>1 DEF PriceCharges, Take
  <1>4. Effectives(b)[s] = Positive(b, s) * w
    BY EffectiveIsWorth DEF Effectives
  <1> HIDE DEF l, m, f, whole, w
  <1>5. TookWhatWasLeft(Positive(b, s), l, w, Take(b[s], l, f, whole))
    BY <1>1, <1>2, TakesWhatIsLeft
  <1>6. /\ m \in Nat /\ m <= Positive(b, s)
        /\ l <= 0 => m = 0
        /\ l > Effectives(b)[s] => m * w = Effectives(b)[s]
        /\ l > 0 /\ l <= Effectives(b)[s] => l <= m * w /\ m * w < l + w
    BY <1>3, <1>4, <1>5 DEF TookWhatWasLeft
  <1> QED BY <1>1, <1>6 DEF l, m, w

LEMMA PriceChargesInt ==
    ASSUME NEW b \in Amounts, NEW price \in Nat
    PROVE  PriceCharges(b, price) \in Amounts
  <1>1. \A s \in Sources : PriceCharges(b, price)[s] \in Int
    BY PriceTakes
  <1> QED BY <1>1 DEF PriceCharges, Amounts

\* A purchase that can be afforded is paid in full.
LEMMA PriceIsPaid ==
    ASSUME NEW b \in Amounts, NEW price \in Nat \ {0}, Affordable(b, price)
    PROVE  price * Unit <=
               Sum([s \in Sources |->
                       PriceCharges(b, price)[s] * GlobalMarkup["BUYER"]
                           * (Unit \div Markup["BUYER"][s])])
  <1> DEFINE charges == PriceCharges(b, price)
             f == [s \in Sources |-> charges[s] * GlobalMarkup["BUYER"]
                           * (Unit \div Markup["BUYER"][s])]
             m == [s \in Sources |-> charges[s] * Worth(s)]
             c == Effectives(b)
             due == price * Unit
             g == Unit * GlobalMarkup["BUYER"]
             R == CheapestFirst("BUYER")
  <1>1. due \in Int /\ due > 0 /\ g \in Nat
    <2>1. Unit \in Nat \ {0} /\ GlobalMarkup["BUYER"] \in Nat
      BY PlannerAssumption DEF Kinds
    <2> QED BY <2>1
  <1>2. ASSUME NEW s \in Sources
        PROVE  f[s] = m[s] /\ m[s] = charges[s] * Worth(s) /\ m[s] \in Int
    <2> DEFINE u == Parts("BUYER", s)
               G == GlobalMarkup["BUYER"]
               x == charges[s]
    <2>1. u \in Int /\ G \in Int /\ x \in Int
      BY PartsExact, PartsInt, PriceTakes DEF Kinds
    <2>2. f[s] = (x * G) * u /\ m[s] = x * (u * G)
      BY DEF Parts, Worth
    <2>3. m[s] = charges[s] * Worth(s)
      OBVIOUS
    <2> HIDE DEF u, G, x, f, m
    <2>4. (x * G) * u = x * (u * G) /\ x * (u * G) \in Int
      BY <2>1
    <2> QED BY <2>2, <2>3, <2>4
  <1>3. f = m /\ m \in Amounts
    BY <1>2 DEF Amounts
  <1>4. Fills(R, c, m, due, g)
    <2>1. ASSUME NEW s \in Sources
          PROVE  /\ Left(R, c, due, s) <= 0 => m[s] = 0
                 /\ Left(R, c, due, s) > c[s] => m[s] = c[s]
                 /\ Left(R, c, due, s) > 0 /\ Left(R, c, due, s) <= c[s] =>
                        /\ Left(R, c, due, s) <= m[s]
                        /\ m[s] < Left(R, c, due, s) + g
      <3> DEFINE l == Left(R, c, due, s)
                 w == Worth(s)
                 x == charges[s]
      <3>1. /\ l \in Int /\ x \in Nat
            /\ l <= 0 => x = 0
            /\ l > c[s] => x * w = c[s]
            /\ l > 0 /\ l <= c[s] => l <= x * w /\ x * w < l + w
        BY PriceTakes
      <3>2. w \in Nat /\ w <= g
        BY WorthExact
      <3>3. m[s] = x * w
        BY <1>2
      <3> HIDE DEF l, w, x, m, c, g
      <3>4. 0 * w = 0 /\ x * w \in Int
        BY <3>1, <3>2
      <3>5. /\ l <= 0 => m[s] = 0
            /\ l > c[s] => m[s] = c[s]
            /\ l > 0 /\ l <= c[s] => l <= m[s] /\ m[s] < l + g
        BY <1>1, <3>1, <3>2, <3>3, <3>4
      <3> QED BY <3>5 DEF l
    <2> HIDE DEF R, c, m, due, g
    <2> QED BY <2>1 DEF Fills
  <1>5. /\ StrictOrder(R) /\ c \in Amounts /\ \A s \in Sources : c[s] >= 0
        /\ due <= Sum(c)
    <2>1. Sum(c) \in Int
      BY EffectivesTypes, SumInt
    <2>2. "BUYER" \in Kinds
      BY DEF Kinds
    <2>3. Sum(c) >= due
      BY DEF Affordable, Effectives
    <2> HIDE DEF c, due
    <2>4. due <= Sum(c)
      BY <1>1, <2>1, <2>3
    <2> QED BY <2>2, <2>4, EffectivesTypes, CheapestFirstIsOrder DEF c
  <1>6. due <= Sum(m)
    <2> HIDE DEF R, c, m, due, g
    <2> QED BY <1>1, <1>3, <1>4, <1>5, DueIsFilled
  <1> QED BY <1>3, <1>6

-----------------------------------------------------------------------------
(* A debit by hand, and the debts of all three.                            *)

\* The order of a debit by hand.
FullestFirst(b) == {p \in Sources \X Sources : Fuller(b, p[1], p[2])}

LEMMA FullestFirstIsOrder ==
    ASSUME NEW b \in Amounts
    PROVE  /\ StrictOrder(FullestFirst(b))
           /\ \A r, s \in Sources :
                  <<r, s>> \in FullestFirst(b) <=> Fuller(b, r, s)
  <1>1. \A s \in Sources : b[s] \in Int /\ Position[s] \in Nat
    BY PlannerAssumption DEF Amounts
  <1>2. \A s, r \in Sources : Position[s] = Position[r] => s = r
    BY PlannerAssumption
  <1>3. \A r, s \in Sources : <<r, s>> \in FullestFirst(b) <=> Fuller(b, r, s)
    BY DEF FullestFirst
  <1> QED BY <1>1, <1>2, <1>3 DEF StrictOrder, Fuller

\* The money there is.
Positives(b) == [s \in Sources |-> Positive(b, s)]

\* What a debit of a takes of it.
Takes(b, a) == [s \in Sources |-> FromPositive(b, a, s)]

LEMMA TakesFill ==
    ASSUME NEW b \in Amounts, NEW a \in Int
    PROVE  /\ Positives(b) \in Amounts
           /\ \A s \in Sources : Positives(b)[s] >= 0
           /\ Takes(b, a) \in Amounts
           /\ \A s \in Sources : Takes(b, a)[s] <= Positive(b, s)
           /\ Fills(FullestFirst(b), Positives(b), Takes(b, a), a, 1)
  <1>1. Positives(b) \in Amounts /\ \A s \in Sources : Positives(b)[s] >= 0
    BY DEF Positives, Positive, Amounts
  <1>2. ASSUME NEW s \in Sources,
               NEW l, l = Left(FullestFirst(b), Positives(b), a, s)
        PROVE  /\ l \in Int
               /\ Takes(b, a)[s] = IF b[s] <= 0 \/ l <= 0 THEN 0
                                   ELSE Lesser(b[s], l)
               /\ Positives(b)[s] = IF b[s] > 0 THEN b[s] ELSE 0
               /\ b[s] \in Int
    <2>1. [r \in Sources |-> IF Fuller(b, r, s) THEN Positive(b, r) ELSE 0]
            = Before(FullestFirst(b), Positives(b), s)
      BY FullestFirstIsOrder DEF Before, Positives
    <2>2. l = AdminLeftFor(b, a, s)
      BY <1>2, <2>1 DEF AdminLeftFor, Left
    <2>3. Sum(Before(FullestFirst(b), Positives(b), s)) \in Int
      BY <1>1, BeforeTypes
    <2>4. l \in Int
      BY <1>2, <2>3 DEF Left
    <2> QED BY <2>2, <2>4 DEF Takes, FromPositive, Positives, Positive, Amounts
  <1>3. ASSUME NEW s \in Sources,
               NEW l, l = Left(FullestFirst(b), Positives(b), a, s)
        PROVE  /\ Takes(b, a)[s] \in Int /\ Takes(b, a)[s] <= Positive(b, s)
               /\ l <= 0 => Takes(b, a)[s] = 0
               /\ l > Positives(b)[s] => Takes(b, a)[s] = Positives(b)[s]
               /\ l > 0 /\ l <= Positives(b)[s] =>
                      l <= Takes(b, a)[s] /\ Takes(b, a)[s] < l + 1
    BY <1>2, <1>3 DEF Lesser, Positive
  <1>4. Takes(b, a) \in Amounts
    BY <1>3 DEF Takes, Amounts
  <1> QED BY <1>1, <1>3, <1>4 DEF Fills

\* A debit by hand leaves a rest for ADMIN_MANUAL only when no money is left.
LEMMA RestOnlyWhenMoneyIsUsed ==
    ASSUME NEW b \in Amounts, NEW a \in Nat \ {0}, a > Sum(Takes(b, a))
    PROVE  \A s \in Sources : Takes(b, a)[s] = Positive(b, s)
  <1>1. /\ StrictOrder(FullestFirst(b))
        /\ Positives(b) \in Amounts
        /\ \A s \in Sources : Positives(b)[s] >= 0
        /\ Takes(b, a) \in Amounts
        /\ Fills(FullestFirst(b), Positives(b), Takes(b, a), a, 1)
    BY FullestFirstIsOrder, TakesFill
  <1>2. Sum(Positives(b)) \in Int /\ Sum(Takes(b, a)) \in Int
    BY <1>1, SumInt
  <1>3. ~(a <= Sum(Positives(b)))
    BY <1>1, <1>2, DueIsFilled
  <1>4. a > Sum(Positives(b))
    BY <1>2, <1>3
  <1>5. \A s \in Sources : Takes(b, a)[s] = Positives(b)[s]
    <2>1. a \in Int /\ 1 \in Nat
      OBVIOUS
    <2> QED BY <1>1, <1>4, <2>1, MoreThanAllDue
  <1> QED BY <1>5 DEF Positives

\* Charges that put a bucket into debt only when the money of all is used.
Needed(b, charges) ==
    \A s \in Sources :
        \/ charges[s] <= Positive(b, s)
        \/ \A r \in Sources : charges[r] >= Positive(b, r)

LEMMA UseIsNeeded ==
    ASSUME NEW k \in Kinds, NEW b \in Amounts, NEW rows \in SUBSET Sources,
           NEW due \in Int
    PROVE  Needed(b, BucketCharges(k, b, rows, due))
  <1>1. ASSUME NEW s \in Sources
        PROVE  /\ FromMoney(k, b, due, s) \in Nat
               /\ OnDebt(k, b, rows, due, s) \in Nat
               /\ FromMoney(k, b, due, s) <= Positive(b, s)
               /\ Positive(b, s) \in Int
               /\ BucketCharges(k, b, rows, due)[s]
                    = FromMoney(k, b, due, s) + OnDebt(k, b, rows, due, s)
    <2>1. Positive(b, s) \in Int
      BY DEF Positive, Amounts
    <2> QED BY <2>1, FromMoneyFills, DebtOnlyWhenMoneyIsUsed DEF BucketCharges
  <1>2. ASSUME NEW s \in Sources, OnDebt(k, b, rows, due, s) # 0,
               NEW r \in Sources
        PROVE  BucketCharges(k, b, rows, due)[r] >= Positive(b, r)
    <2>1. FromMoney(k, b, due, r) = Positive(b, r)
      BY <1>2, DebtOnlyWhenMoneyIsUsed
    <2> QED BY <1>1, <2>1
  <1>3. ASSUME NEW s \in Sources, OnDebt(k, b, rows, due, s) = 0
        PROVE  BucketCharges(k, b, rows, due)[s] <= Positive(b, s)
    BY <1>1, <1>3
  <1> QED BY <1>2, <1>3 DEF Needed

LEMMA DebitByHandIsNeeded ==
    ASSUME NEW b \in Amounts, NEW a \in Nat \ {0}
    PROVE  Needed(b, AdminCharges(b, a))
  <1> DEFINE takes == Takes(b, a)
             rest == a - Sum(takes)
             charges == AdminCharges(b, a)
  <1>1. /\ takes \in Amounts
        /\ \A s \in Sources : takes[s] <= Positive(b, s)
        /\ Sum(takes) \in Int
    BY TakesFill, SumInt
  <1>2. charges = [takes EXCEPT !["ADMIN_MANUAL"] = @ + rest]
    BY DEF AdminCharges, Takes
  <1> HIDE DEF charges, takes
  <1>3. ASSUME NEW s \in Sources
        PROVE  /\ takes[s] \in Int /\ Positive(b, s) \in Int
               /\ charges[s] = IF s = "ADMIN_MANUAL" THEN takes[s] + rest
                               ELSE takes[s]
    BY <1>1, <1>2 DEF Amounts, Positive
  <1>4. CASE a > Sum(takes)
    <2>1. \A s \in Sources : takes[s] = Positive(b, s)
      BY <1>4, RestOnlyWhenMoneyIsUsed DEF takes
    <2>2. rest \in Int /\ rest > 0
      BY <1>1, <1>4
    <2> HIDE DEF rest
    <2>3. ASSUME NEW s \in Sources
          PROVE  charges[s] >= Positive(b, s)
      BY <1>3, <2>1, <2>2
    <2> QED BY <2>3 DEF Needed, charges
  <1>5. CASE ~(a > Sum(takes))
    <2>1. rest \in Int /\ rest <= 0
      BY <1>1, <1>5
    <2> HIDE DEF rest
    <2>2. ASSUME NEW s \in Sources
          PROVE  charges[s] <= Positive(b, s)
      <3>1. takes[s] <= Positive(b, s)
        BY <1>1
      <3> QED BY <1>3, <2>1, <3>1
    <2> QED BY <2>2 DEF Needed, charges
  <1> QED BY <1>4, <1>5

=============================================================================
