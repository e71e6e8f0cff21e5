--------------------------- MODULE MCPaymentDesk ---------------------------
(* PaymentDesk with the values TLC checks it for. *)
EXTENDS PaymentDesk, TLC

CONSTANTS s1, s2, i1, i2

MCEventSetting == [amount |-> 2, free |-> 1]

MCGateway == [min_amount |-> 1, max_amount |-> 9]

SlotAndInvoiceSymmetry == Permutations(Slots) \cup Permutations(Invoices)
=============================================================================
