----------------------------- MODULE BatchPrice -----------------------------
(***************************************************************************)
(* A batch that grows by one participant at a time, under one setting and  *)
(* one gateway, and what Pricing asks for it at every length: against a    *)
(* count of those who pay, and against the exact percentage.               *)
(***************************************************************************)
EXTENDS Pricing, FiniteSets

CONSTANTS
  MaxLength,      \* bound: participants of the batch
  RegisterPrice,  \* the degree's price of one registration
  Settings,       \* the event's settings to price under
  Gateways        \* the gateways to pay through

(* The columns are unsigned integers (event-settings.entity.ts,
   payment-gateways.entity.ts, degree.entity.ts).                          *)
ASSUME PricesAssumption ==
  /\ MaxLength \in Nat
  /\ RegisterPrice \in Nat
  /\ Settings \subseteq [amount : Nat, free : Nat]
  /\ Gateways \subseteq [fee_flat : Nat, fee_percentage : Nat]

VARIABLES length, setting, gateway

vars == <<length, setting, gateway>>

Init ==
  /\ length = 0
  /\ setting \in Settings
  /\ gateway \in Gateways

AddParticipant ==
  /\ length < MaxLength
  /\ length' = length + 1
  /\ UNCHANGED <<setting, gateway>>

Spec == Init /\ [][AddParticipant]_vars

-----------------------------------------------------------------------------
(* One by one: the participants of full blocks pay; of the others, the first
   `free' for every full block before them do not.                         *)
Free(i) ==
  /\ setting.amount > 0
  /\ LET blocks == length \div setting.amount
     IN  /\ i > blocks * setting.amount
         /\ i - blocks * setting.amount <= blocks * setting.free

(* getPrice (participant.service.ts) asks the registration price of every
   participant that is not free, and the full price with amount = 0.       *)
PriceCountsPaying ==
  GetPrice(length, RegisterPrice, setting) =
    RegisterPrice * Cardinality({i \in 1..length : ~Free(i)})

(* getFee's percentage is rounded to the nearest integer, a half upwards, so
   that the total asked of the customer is off by less than one.           *)
FeeIsNearest ==
  LET amount == GetPrice(length, RegisterPrice, setting)
      error == 100 * (GetFee(amount, gateway) - gateway.fee_flat)
                 - gateway.fee_percentage * amount
  IN  -50 < error /\ error <= 50
=============================================================================
