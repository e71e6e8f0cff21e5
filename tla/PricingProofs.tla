--------------------------- MODULE PricingProofs ---------------------------
(***************************************************************************)
(* What a batch is asked for, whatever its length, its price, the event's  *)
(* setting and the gateway: the price counts those who pay, and the fee is *)
(* the percentage to the nearest integer.                                  *)
(*                                                                         *)
(* The count needs no induction over the batch: the places given away are  *)
(* an interval of the incomplete block, and an interval's size is known.   *)
(***************************************************************************)
EXTENDS BatchPrice, FiniteSetTheorems, TLAPS

LEMMA Quotient ==
  ASSUME NEW n \in Nat, NEW a \in Nat, a > 0
  PROVE  /\ n \div a \in Nat
         /\ n % a \in 0..(a - 1)
         /\ n = (n \div a) * a + (n % a)
<1>1. /\ n \div a \in Int
      /\ n % a \in 0..(a - 1)
      /\ n = a * (n \div a) + (n % a)
  BY Z3
<1>2. n \div a >= 0
  BY <1>1, Z3
<1>3. a * (n \div a) = (n \div a) * a
  BY <1>1, Z3
<1> QED
  BY <1>1, <1>2, <1>3

LEMMA ProductInNat ==
  ASSUME NEW x \in Nat, NEW y \in Nat
  PROVE  x * y \in Nat
  BY Z3

LEMMA ProductOfDifference ==
  ASSUME NEW r \in Nat, NEW n \in Nat, NEW m \in Nat
  PROVE  r * n - r * m = r * (n - m)
  BY Z3

(* Those who pay, when the places b+1 to b+m of a batch are free. *)
LEMMA IntervalOut ==
  ASSUME NEW n \in Nat, NEW b \in Nat, NEW m \in Nat, b + m <= n
  PROVE  Cardinality((1..n) \ ((b + 1)..(b + m))) = n - m
<1> DEFINE T == (b + 1)..(b + m)
<1>1. IsFiniteSet(1..n) /\ Cardinality(1..n) = n
  BY FS_Interval, 1 \in Int, n \in Int
<1>2. b + 1 \in Int /\ b + m \in Int
  OBVIOUS
<1>3. Cardinality(T) = m
  BY <1>2, FS_Interval
<1>4. (1..n) \cap T = T
  OBVIOUS
<1> HIDE DEF T
<1>5. Cardinality((1..n) \ T) = Cardinality(1..n) - Cardinality((1..n) \cap T)
  BY <1>1, FS_Difference
<1> QED
  BY <1>1, <1>3, <1>4, <1>5 DEF T

-----------------------------------------------------------------------------
(* The participants of full blocks, and the places getPrice gives away. *)
Full == (length \div setting.amount) * setting.amount

Given ==
  IF length % setting.amount >= Cashback(length, setting)
  THEN Cashback(length, setting)
  ELSE length % setting.amount

(* The places given away are the first ones behind the full blocks. *)
LEMMA GivenAreFree ==
  ASSUME setting \in [amount : Nat, free : Nat], length \in Nat, setting.amount > 0
  PROVE  /\ Full \in Nat /\ Given \in Nat /\ Full + Given <= length
         /\ {i \in 1..length : ~Free(i)} = (1..length) \ ((Full + 1)..(Full + Given))
<1> DEFINE rem == length % setting.amount
           blocks == length \div setting.amount
           cash == Cashback(length, setting)
<1>1. setting.amount \in Nat /\ setting.free \in Nat
  OBVIOUS
<1>2. blocks \in Nat /\ rem \in Nat /\ length = Full + rem
  <2>1. blocks \in Nat /\ rem \in 0..(setting.amount - 1)
    BY <1>1, Quotient
  <2>2. length = blocks * setting.amount + rem
    BY <1>1, Quotient
  <2> QED
    BY <1>1, <2>1, <2>2 DEF Full
<1>3. Full \in Nat /\ cash \in Nat /\ cash = blocks * setting.free
  BY <1>1, <1>2, ProductInNat DEF Cashback, Full
<1>4. Given = IF rem >= cash THEN cash ELSE rem
  BY DEF Given
<1>5. \A i \in 1..length : Free(i) <=> i > Full /\ i - Full <= cash
  BY <1>3 DEF Free, Full
<1> HIDE DEF rem, blocks, cash
<1>6. Given \in Nat /\ Given <= rem /\ Given <= cash
  BY <1>2, <1>3, <1>4
<1>7. \A i \in 1..length : Free(i) <=> i \in (Full + 1)..(Full + Given)
  <2> TAKE i \in 1..length
  <2>1. i \in Nat /\ i <= Full + rem
    BY <1>2
  <2>2. i > Full /\ i - Full <= cash <=> i > Full /\ i <= Full + Given
    BY <1>2, <1>3, <1>4, <1>6, <2>1
  <2> QED
    BY <1>3, <1>5, <1>6, <2>1, <2>2
<1> QED
  BY <1>2, <1>3, <1>6, <1>7

(* The price is that of the participants that are not given a place. *)
LEMMA CountsPaying ==
  ASSUME setting \in [amount : Nat, free : Nat], length \in Nat, RegisterPrice \in Nat
  PROVE  PriceCountsPaying
<1> DEFINE paying == {i \in 1..length : ~Free(i)}
<1>1. CASE setting.amount = 0
  <2>1. paying = 1..length
    BY <1>1 DEF Free
  <2>2. Cardinality(1..length) = length
    BY FS_Interval, 1 \in Int, length \in Int
  <2> QED
    BY <1>1, <2>1, <2>2 DEF PriceCountsPaying, GetPrice
<1>2. CASE setting.amount # 0
  <2>1. GetPrice(length, RegisterPrice, setting) =
          RegisterPrice * length - RegisterPrice * Given
    BY <1>2 DEF GetPrice, Given
  <2>2. setting.amount > 0
    BY <1>2
  <2> HIDE DEF paying
  <2>3. /\ Full \in Nat /\ Given \in Nat /\ Full + Given <= length
        /\ paying = (1..length) \ ((Full + 1)..(Full + Given))
    BY <2>2, GivenAreFree DEF paying
  <2>4. Cardinality(paying) = length - Given
    BY <2>3, IntervalOut
  <2> QED
    BY <2>1, <2>3, <2>4, ProductOfDifference DEF PriceCountsPaying, paying
<1> QED
  BY <1>1, <1>2

(* toFixed() rounds to an integer at most half a unit away. *)
LEMMA RoundsToNearest ==
  ASSUME NEW amount \in Nat, NEW g \in [fee_flat : Nat, fee_percentage : Nat],
         NEW error, error = 100 * (GetFee(amount, g) - g.fee_flat)
                              - g.fee_percentage * amount
  PROVE  -50 < error /\ error <= 50
<1> DEFINE part == g.fee_percentage * amount
<1>1. part \in Nat
  BY ProductInNat
<1>2. GetFee(amount, g) = g.fee_flat + (part + 50) \div 100
  BY DEF GetFee
<1>3. error = 100 * (GetFee(amount, g) - g.fee_flat) - part
  OBVIOUS
<1>4. g.fee_flat \in Nat
  OBVIOUS
<1> HIDE DEF part
<1> QED
  BY <1>1, <1>2, <1>3, <1>4, Z3

-----------------------------------------------------------------------------
(* A batch's length, its setting and its gateway are what the columns hold. *)
Priced ==
  /\ length \in 0..MaxLength
  /\ setting \in [amount : Nat, free : Nat]
  /\ gateway \in [fee_flat : Nat, fee_percentage : Nat]

LEMMA PricedInvariance == Spec => []Priced
<1>1. Init => Priced
  BY PricesAssumption DEF Init, Priced
<1>2. Priced /\ [AddParticipant]_vars => Priced'
  BY PricesAssumption DEF Priced, AddParticipant, vars
<1> QED
  BY <1>1, <1>2, PTL DEF Spec

(* getPrice: whatever the setting, everybody pays the registration price but
   those to whom the setting gives a place, one by one.                    *)
THEOREM PriceIsCount == Spec => []PriceCountsPaying
<1>1. Priced => PriceCountsPaying
  BY CountsPaying, PricesAssumption DEF Priced
<1> QED
  BY <1>1, PricedInvariance, PTL

LEMMA PriceIsNat ==
  ASSUME Priced
  PROVE  GetPrice(length, RegisterPrice, setting) \in Nat
<1> DEFINE paying == {i \in 1..length : ~Free(i)}
<1>1. length \in Nat /\ RegisterPrice \in Nat
  BY PricesAssumption DEF Priced
<1>2. IsFiniteSet(1..length)
  BY <1>1, FS_Interval, 1 \in Int, length \in Int
<1>3. IsFiniteSet(paying)
  BY <1>2, FS_Subset
<1>4. Cardinality(paying) \in Nat
  BY <1>3, FS_CardinalityType
<1>5. GetPrice(length, RegisterPrice, setting) = RegisterPrice * Cardinality(paying)
  BY <1>1, CountsPaying DEF Priced, PriceCountsPaying
<1> QED
  BY <1>1, <1>4, <1>5, ProductInNat

(* getFee, toFixed: whatever is paid through whatever gateway, the percentage
   is off by at most half a unit, a half rounded upwards.                  *)
THEOREM FeesAreNearest == Spec => []FeeIsNearest
<1>1. Priced => FeeIsNearest
  BY PriceIsNat, RoundsToNearest DEF Priced, FeeIsNearest
<1> QED
  BY <1>1, PricedInvariance, PTL
=============================================================================
