---------------------------- MODULE CreditPlanner ----------------------------
(***************************************************************************)
(* How an amount is taken from a store's credit, which is kept in buckets, *)
(* one for each source of payment, with a markup of its own: the pure      *)
(* functions of credit-deduction.planner.ts and the debit by hand of       *)
(* store-credit-deduction.service.ts.                                      *)
(*                                                                         *)
(* The source walks over the sorted buckets and carries along what is      *)
(* left; here what is left for a bucket is what those before it do not     *)
(* cover.  The floating-point remainders of the source are exact: an       *)
(* uncovered cost is counted in parts of a toman, Unit of them to one, and *)
(* Unit is a multiple of every markup.                                     *)
(***************************************************************************)
EXTENDS Integers

Sources == {"ZIBAL", "ZARINPAL", "VANDAR", "BAZAAR", "SNAPPPAY",
            "ADMIN_MANUAL", "LEGACY"}

Kinds == {"BUYER", "SELLER"}   \* who used the model: a chat or the panel

CONSTANTS
    Markup,        \* Markup[k][s]: factor on a cost of kind k paid from s
    GlobalMarkup,  \* GlobalMarkup[k]: factor on what the trial pays
    Unit,          \* parts of a toman, see above
    Position       \* order of the rows in the table: settles equal markups

ASSUME PlannerAssumption ==
    /\ Unit \in Nat \ {0}
    /\ Markup \in [Kinds -> [Sources -> Nat \ {0}]]
    /\ GlobalMarkup \in [Kinds -> Nat \ {0}]
    /\ Position \in [Sources -> Nat]
    /\ \A s, r \in Sources : Position[s] = Position[r] => s = r
    /\ \A k \in Kinds, s \in Sources : Unit % Markup[k][s] = 0
    /\ \A k \in Kinds : Unit % GlobalMarkup[k] = 0

Sum(f) == f["ZIBAL"] + f["ZARINPAL"] + f["VANDAR"] + f["BAZAAR"]
        + f["SNAPPPAY"] + f["ADMIN_MANUAL"] + f["LEGACY"]

Lesser(a, b) == IF a <= b THEN a ELSE b

CeilDiv(a, b) == (a + b - 1) \div b

PrecedesAsInTheTable(k, r, s) == Position[r] < Position[s]

\* Buckets are visited from the cheapest markup to the dearest.
Precedes(k, r, s) ==
    \/ Markup[k][r] < Markup[k][s]
    \/ Markup[k][r] = Markup[k][s] /\ Position[r] < Position[s]

-----------------------------------------------------------------------------
(* Usage of a model: planDeduction *)

TrialCharge(k, raw, remaining) == Lesser(raw * GlobalMarkup[k], remaining)

\* The cost, in parts, that the trial leaves to the buckets.
DueAfterTrial(k, raw, remaining) ==
    IF raw * GlobalMarkup[k] <= remaining THEN 0
    ELSE raw * Unit - remaining * (Unit \div GlobalMarkup[k])

\* The cost, in parts, that the money of a bucket pays for.
Cover(k, b, s) ==
    IF b[s] > 0 THEN b[s] * (Unit \div Markup[k][s]) ELSE 0

LeftFor(k, b, due, s) ==
    due - Sum([r \in Sources |-> IF Precedes(k, r, s) THEN Cover(k, b, r)
                                                      ELSE 0])

Uncovered(k, b, due) == due - Sum([r \in Sources |-> Cover(k, b, r)])

\* The bucket that goes into debt: the cheapest there is, even an empty one.
Debtor(k, held) ==
    IF held = {} THEN "LEGACY"
    ELSE CHOOSE s \in held : \A r \in held \ {s} : Precedes(k, s, r)

FromMoney(k, b, due, s) ==
    IF b[s] <= 0 \/ LeftFor(k, b, due, s) <= 0 THEN 0
    ELSE Lesser(b[s], CeilDiv(LeftFor(k, b, due, s) * Markup[k][s], Unit))

OnDebt(k, b, held, due, s) ==
    IF s = Debtor(k, held) /\ Uncovered(k, b, due) > 0
    THEN CeilDiv(Uncovered(k, b, due) * Markup[k][s], Unit) ELSE 0

BucketCharges(k, b, held, due) ==
    [s \in Sources |-> FromMoney(k, b, due, s) + OnDebt(k, b, held, due, s)]

-----------------------------------------------------------------------------
(* A purchase at a fixed price: planFixedPriceDebit.  A bucket dearer than *)
(* the global markup counts for less than it holds; there is no debt.      *)

EffectiveAtFaceValue(b, s) == IF b[s] > 0 THEN b[s] * Unit ELSE 0

Effective(b, s) == Cover("BUYER", b, s) * GlobalMarkup["BUYER"]

Affordable(b, price) ==
    Sum([s \in Sources |-> Effective(b, s)]) >= price * Unit

PriceLeftFor(b, price, s) ==
    price * Unit - Sum([r \in Sources |->
        IF Precedes("BUYER", r, s) THEN Effective(b, r) ELSE 0])

PriceCharges(b, price) ==
    [s \in Sources |->
        IF b[s] <= 0 \/ PriceLeftFor(b, price, s) <= 0 THEN 0
        ELSE Lesser(b[s], CeilDiv(PriceLeftFor(b, price, s)
                                    * Markup["BUYER"][s],
                                  Unit * GlobalMarkup["BUYER"]))]

-----------------------------------------------------------------------------
(* A debit by hand: the fullest bucket first, the rest on ADMIN_MANUAL. *)

Fuller(b, r, s) == b[r] > b[s] \/ (b[r] = b[s] /\ Position[r] < Position[s])

Positive(b, s) == IF b[s] > 0 THEN b[s] ELSE 0

AdminLeftFor(b, amount, s) ==
    amount - Sum([r \in Sources |-> IF Fuller(b, r, s) THEN Positive(b, r)
                                                       ELSE 0])

FromPositive(b, amount, s) ==
    IF b[s] <= 0 \/ AdminLeftFor(b, amount, s) <= 0 THEN 0
    ELSE Lesser(b[s], AdminLeftFor(b, amount, s))

AdminChargesByHand(b, amount) ==
    [s \in Sources |-> IF s = "ADMIN_MANUAL" THEN amount ELSE 0]

AdminCharges(b, amount) ==
    LET takes == [s \in Sources |-> FromPositive(b, amount, s)]
    IN  [takes EXCEPT !["ADMIN_MANUAL"] = @ + (amount - Sum(takes))]

=============================================================================
