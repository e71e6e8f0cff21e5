--------------------------- MODULE MCPaymentFlow ---------------------------
(* PaymentFlow with the values TLC checks it for. *)
EXTENDS PaymentFlow, TLC

CONSTANTS s1, s2, s3, i1, i2, i3

MCEventSetting == [amount |-> 2, free |-> 1]

\* Every batch but the empty one is within the gateway's limits.
MCGateway == [min_amount |-> 1, max_amount |-> 9]

SlotSymmetry == Permutations(Slots)

SlotAndInvoiceSymmetry == Permutations(Slots) \cup Permutations(Invoices)
=============================================================================
