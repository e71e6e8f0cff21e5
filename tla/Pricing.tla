------------------------------ MODULE Pricing ------------------------------
(***************************************************************************)
(* What a registration costs.  A batch of participants pays the degree's   *)
(* registration price for each of them, less the places the event gives    *)
(* away: every full block of `amount' paying participants earns `free'      *)
(* places, and the places are taken by the participants of the last,       *)
(* incomplete block.  The gateway adds its fee to what the batch pays.     *)
(***************************************************************************)
EXTENDS Integers

(* getPrice.  The setting is the event's row, a record with the fields
   amount and free.  With amount = 0 the code divides by zero: the cashback
   and the remainder are not numbers, neither branch is taken and the price
   stays the full one.                                                     *)
Cashback(length, setting) == (length \div setting.amount) * setting.free

\* Mutant: the places given away are not limited to the incomplete block.
GetPriceUncapped(length, registerPrice, setting) ==
  IF setting.amount = 0
  THEN registerPrice * length
  ELSE registerPrice * length - registerPrice * Cashback(length, setting)

GetPrice(length, registerPrice, setting) ==
  LET remainder == length % setting.amount
      freed == IF remainder >= Cashback(length, setting)
               THEN Cashback(length, setting)
               ELSE remainder
  IN  IF setting.amount = 0
      THEN registerPrice * length
      ELSE registerPrice * length - registerPrice * freed

\* Mutant: the fraction is cut off.
GetFeeTruncated(amount, gateway) ==
  gateway.fee_flat + (gateway.fee_percentage * amount) \div 100

(* getFee, rounded to an integer by toFixed() (a half is rounded up).      *)
GetFee(amount, gateway) ==
  gateway.fee_flat + (gateway.fee_percentage * amount + 50) \div 100

(* The limits create() checks before it asks the gateway for a QR code.    *)
WithinLimits(amount, gateway) ==
  /\ amount <= gateway.max_amount
  /\ amount >= gateway.min_amount
=============================================================================
