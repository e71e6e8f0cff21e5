----------------------------- MODULE Settlement -----------------------------
(***************************************************************************)
(* What the system promises about registrations and their bills, without   *)
(* requests, locks or failures: every change of the tables is one of three *)
(* steps, and each is made of a whole batch.                               *)
(*                                                                         *)
(* A bill is issued for a batch of participants.  A batch may be billed    *)
(* again, which withdraws a bill that nobody is left on; and a bill that   *)
(* was not withdrawn is settled once, which makes its batch active.        *)
(***************************************************************************)
EXTENDS Naturals, Sequences

CONSTANT MaxBatch  \* participants one registration may bring

VARIABLES
  issued,    \* the batch every bill was issued for, in the order of issue
  bill,      \* the bill each participant is on, in the order of registration
  active,    \* the participants who are active
  settled,   \* the bills that were settled
  withdrawn  \* the bills that were withdrawn

vars == <<issued, bill, active, settled, withdrawn>>

OnBill(b) == {p \in DOMAIN bill : bill[p] = b}

(* The batches: all who are on one bill.  A bill may have nobody left. *)
Batches == {OnBill(b) : b \in DOMAIN issued} \cup {{}}

(* A batch that may be active: it was issued a bill that was settled. *)
Entitled(batch) == \E b \in settled : batch \subseteq issued[b]

Init ==
  /\ issued = <<>>
  /\ bill = <<>>
  /\ active = {}
  /\ settled = {}
  /\ withdrawn = {}

(* n new participants, on a new bill of their own. *)
Register(n) ==
  LET all == Len(bill) + n
  IN  /\ issued' = Append(issued, Len(bill) + 1 .. all)
      /\ bill' = [p \in 1..all |-> IF p <= Len(bill) THEN bill[p]
                                   ELSE Len(issued) + 1]
      /\ UNCHANGED <<active, settled, withdrawn>>

(* The whole batch moves to a new bill, and keeps its standing or, as a whole,
   takes an earlier one; the withdrawn bill keeps nobody.                  *)
BillAgain(batch, old) ==
  /\ issued' = Append(issued, batch)
  /\ OnBill(old) \subseteq batch
  /\ bill' = [p \in DOMAIN bill |-> IF p \in batch THEN Len(issued) + 1
                                    ELSE bill[p]]
  /\ \/ active' = active
     \/ active' = active \ batch
     \/ Entitled(batch) /\ active' = active \cup batch
  /\ withdrawn' = withdrawn \cup {old}
  /\ UNCHANGED settled

Settle(b) ==
  /\ b \notin settled \cup withdrawn
  /\ settled' = settled \cup {b}
  /\ active' = active \cup OnBill(b)
  /\ UNCHANGED <<issued, bill, withdrawn>>

Next ==
  \/ \E n \in 0..MaxBatch : Register(n)
  \/ \E batch \in Batches, old \in DOMAIN issued : BillAgain(batch, old)
  \/ \E b \in DOMAIN issued : Settle(b)

Spec == Init /\ [][Next]_vars

(* What follows from it: nobody is on a withdrawn bill, and nobody is active
   without a settled bill of the own batch.                                *)
NobodyLeftBehind == \A p \in DOMAIN bill : bill[p] \notin withdrawn

ActiveAreEntitled ==
  \A p \in active : \E b \in settled : p \in issued[b]
=============================================================================
