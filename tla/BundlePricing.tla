---------------------------- MODULE BundlePricing ----------------------------
(***************************************************************************)
(* allocateBundlePrice: the price of a bundle split over its courses, one  *)
(* share after the other, the last one taking what is left.  Amounts are   *)
(* integers of a unit of which a cent holds Cent; Decimal's 20 significant *)
(* digits are taken as exact.  A sum of amounts, none of them negative, is *)
(* the number of units they hold.                                          *)
(***************************************************************************)
EXTENDS Integers, Sequences, FiniteSets

CONSTANTS
  Cent,          \* units to a cent
  MaxPrice,      \* bound: list price of a course
  MaxCourses     \* bound: courses of the bundle

ConstantsAssumption ==
  Cent \in Nat \ {0} /\ MaxPrice \in Nat /\ MaxCourses \in Nat \ {0}

VARIABLES
  total,         \* the bundle price
  prices,        \* list prices of its courses
  shares,        \* allocations, in order
  allocated      \* running sum of the allocations

vars == <<total, prices, shares, allocated>>

Units(s) == UNION {{i} \X (1 .. s[i]) : i \in 1 .. Len(s)}

SumOf(s) == Cardinality(Units(s))

ListTotal == SumOf(prices)

\* toDecimalPlaces(2, ROUND_DOWN) of the quotient n / d
CentsDown(n, d) == Cent * (n \div (d * Cent))

\* (mutant) every share is pro-rata, the last one too
SharePlain(i) ==
  IF ListTotal = 0 THEN CentsDown(total, Len(prices))
  ELSE CentsDown(total * prices[i], ListTotal)

\* (mutant) list prices never looked at
ShareEven(i) ==
  IF i = Len(prices) THEN total - allocated ELSE CentsDown(total, Len(prices))

ShareOf(i) ==
  IF i = Len(prices) THEN total - allocated
  ELSE IF ListTotal = 0 THEN CentsDown(total, Len(prices))
  ELSE CentsDown(total * prices[i], ListTotal)

Allocate ==
  LET share == ShareOf(Len(shares) + 1)
  IN /\ Len(shares) < Len(prices)
     /\ allocated' = allocated + share
     /\ shares' = Append(shares, share)
     /\ UNCHANGED <<total, prices>>

\* create asks for a price below the sum of the list prices at the time;
\* courses are repriced later.
Init ==
  /\ prices \in UNION {[1 .. n -> 0 .. MaxPrice] : n \in 1 .. MaxCourses}
  /\ total \in 0 .. MaxPrice * MaxCourses
  /\ shares = <<>> /\ allocated = 0

Next == Allocate

Spec == Init /\ [][Next]_vars

-----------------------------------------------------------------------------
(***************************************************************************)
(* Properties                                                              *)
(***************************************************************************)
Divided == Len(shares) = Len(prices)

\* The shares add up to the price and none is negative: rounding never gives
\* away more than there is, so what is left for the last course is a share.
ExactSplit == Divided => SumOf(shares) = total /\ \A i \in 1 .. Len(shares) : shares[i] >= 0

\* A share misses its exact proportion by less than a cent, the last one by
\* less than a cent for every other course.
ProRata ==
  Divided /\ ListTotal > 0 =>
    \A i \in 1 .. Len(shares) :
      LET off == shares[i] * ListTotal - total * prices[i]
      IN IF i < Len(shares)
           THEN off <= 0 /\ -off < Cent * ListTotal
           ELSE off >= 0 /\ (Len(shares) > 1 => off < Cent * ListTotal * (Len(shares) - 1))
==============================================================================
