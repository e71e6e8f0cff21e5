------------------------- MODULE PaymentFlowProofs -------------------------
(***************************************************************************)
(* What TLAPS proves about PaymentFlow, for any number of slots, invoices, *)
(* participants, payments and faults.                                      *)
(*                                                                         *)
(* The inductive invariant IInv adds to the properties what the handlers   *)
(* hold between their awaits: the rows they refer to exist, a count made   *)
(* under the lock is still the number of participants, and the payments    *)
(* that webhooks are settling are PENDING until their commit and settled   *)
(* by one webhook each.                                                    *)
(***************************************************************************)
EXTENDS PaymentFlow, FiniteSetTheorems, TLAPS

Has(s, pcs) == req[s].pc \in pcs

(* Every payment has its history. *)
Lengths == Len(billed) = Len(payments) /\ Len(emitted) = Len(payments)

(* The rows a handler holds ids of are in the tables. *)
RowsExist ==
  \A s \in Slots :
    /\ Has(s, {"begun", "renewed", "locked", "committed"}) =>
         req[s].id \in DOMAIN payments
    /\ Has(s, {"listed", "begun", "renewed"}) =>
         req[s].list \subseteq DOMAIN participants

(* The count is current for as long as its lock is held. *)
CountIsCurrent ==
  \A s \in Slots : Has(s, {"counted"}) => req[s].count = Len(participants)

(* A webhook's payment is PENDING before its commit and PAID after, not yet
   announced, and no other webhook's.                                      *)
SettledByOne ==
  \A s \in Slots :
    /\ Has(s, {"locked"}) => payments[req[s].id].status = "PENDING"
    /\ Has(s, {"committed"}) => /\ payments[req[s].id].status = "PAID"
                                /\ emitted[req[s].id] = 0
    /\ \A t \in Slots \ {s} :
         Has(s, {"locked", "committed"}) /\ Has(t, {"locked", "committed"}) =>
           req[s].id # req[t].id

EmittedOnce ==
  \A id \in DOMAIN payments :
    /\ emitted[id] <= 1
    /\ payments[id].status = "PENDING" => emitted[id] = 0

IInv ==
  /\ TypeOK
  /\ Lengths
  /\ RowsExist
  /\ CountIsCurrent
  /\ KeplekGapFree
  /\ SettledByOne
  /\ EmittedOnce
  /\ AckIsDurable

-----------------------------------------------------------------------------
(* Prices *)

LEMMA Quotient ==
  ASSUME NEW n \in Nat, NEW a \in Nat, a > 0
  PROVE  /\ n \div a \in Nat
         /\ n % a \in 0..(a - 1)
         /\ n % a <= n
<1>1. /\ n \div a \in Int
      /\ n % a \in 0..(a - 1)
      /\ n = a * (n \div a) + (n % a)
  BY Z3
<1>2. n \div a >= 0
  BY <1>1, Z3
<1>3. a * (n \div a) >= 0
  BY <1>1, <1>2, Z3
<1> QED
  BY <1>1, <1>2, <1>3

LEMMA ProductInNat ==
  ASSUME NEW x \in Nat, NEW y \in Nat
  PROVE  x * y \in Nat
  BY Z3

LEMMA ProductMonotone ==
  ASSUME NEW r \in Nat, NEW x \in Nat, NEW y \in Nat, x <= y
  PROVE  r * y - r * x \in Nat /\ r * y - r * x <= r * y
  BY Z3

(* No batch is given more places than it has: what a batch costs is never
   negative, so that it fits the unsigned column it is stored in, and never
   more than the price of all its participants.                            *)
THEOREM PriceBounds ==
  ASSUME NEW n \in Nat, NEW r \in Nat, NEW setting \in [amount : Nat, free : Nat]
  PROVE  GetPrice(n, r, setting) \in 0..(r * n)
<1>1. CASE setting.amount = 0
  BY <1>1, ProductInNat DEF GetPrice
<1>2. CASE setting.amount # 0
  <2> DEFINE rem == n % setting.amount
             cash == Cashback(n, setting)
             freed == IF rem >= cash THEN cash ELSE rem
  <2>1. setting.amount \in Nat /\ setting.amount > 0 /\ setting.free \in Nat
    BY <1>2
  <2>2. rem \in Nat /\ rem <= n /\ n \div setting.amount \in Nat
    BY <2>1, Quotient
  <2>3. cash \in Nat
    BY <2>1, <2>2, ProductInNat DEF Cashback
  <2>4. freed \in Nat /\ freed <= n
    <3> HIDE DEF rem, cash
    <3> QED BY <2>2, <2>3
  <2>5. GetPrice(n, r, setting) = r * n - r * freed
    BY <1>2 DEF GetPrice
  <2> HIDE DEF freed
  <2>6. r * n - r * freed \in Nat /\ r * n - r * freed <= r * n
    BY <2>4, ProductMonotone
  <2>7. r * n \in Nat
    BY ProductInNat
  <2> QED
    BY <2>5, <2>6, <2>7
<1> QED
  BY <1>1, <1>2

COROLLARY PriceInNat ==
  ASSUME NEW n \in Nat, NEW r \in Nat, NEW setting \in [amount : Nat, free : Nat]
  PROVE  GetPrice(n, r, setting) \in Nat
<1>1. r * n \in Nat
  BY ProductInNat
<1>2. GetPrice(n, r, setting) \in 0..(r * n)
  BY PriceBounds
<1> QED
  BY <1>1, <1>2, SMT

-----------------------------------------------------------------------------
LEMMA FunctionIsSeq ==
  ASSUME NEW S, NEW n \in Nat, NEW f \in [1..n -> S]
  PROVE  f \in Seq(S) /\ Len(f) = n /\ DOMAIN f = 1..n
OBVIOUS

(* What a handler's record holds, by where the handler is. *)
LEMMA RequestFields ==
  ASSUME TypeOK, NEW s \in Slots
  PROVE  /\ req[s] \in Request
         /\ Has(s, {"priced"}) =>
              req[s] \in [pc : {"priced"}, invoice : Invoices, prefix : Prefixes,
                          n : Nat]
         /\ Has(s, {"counted"}) =>
              req[s] \in [pc : {"counted"}, invoice : Invoices,
                          prefix : Prefixes, n : Nat, count : Nat]
         /\ Has(s, {"listed"}) =>
              req[s] \in [pc : {"listed"}, old : Invoices, list : SUBSET Nat,
                          active : SUBSET Nat]
         /\ Has(s, {"begun"}) =>
              req[s] \in [pc : {"begun"}, id : Nat, list : SUBSET Nat,
                          active : SUBSET Nat, snapshot : SUBSET Nat]
         /\ Has(s, {"renewed"}) =>
              req[s] \in [pc : {"renewed"}, id : Nat, list : SUBSET Nat,
                          active : SUBSET Nat, snapshot : SUBSET Nat,
                          invoice : Invoices]
         /\ Has(s, {"locked", "committed"}) =>
              req[s] \in [pc : {"locked", "committed"}, id : Nat]
BY DEF TypeOK, Request, Idle, Has

LEMMA RowsAreNat ==
  ASSUME TypeOK
  PROVE  /\ DOMAIN participants = 1..Len(participants)
         /\ DOMAIN payments = 1..Len(payments)
         /\ Len(participants) \in Nat
         /\ Len(payments) \in Nat
         /\ \A p \in DOMAIN participants : participants[p] \in Participant
         /\ \A id \in DOMAIN payments : payments[id] \in Payment
         /\ \A id : Attached(id) \subseteq DOMAIN participants
         /\ \A ps : Active(ps) \subseteq ps
BY DEF TypeOK, Attached, Active

LEMMA InsertPaymentType ==
  ASSUME TypeOK, NEW i \in Invoices, NEW n \in Nat, NEW a \in Nat
  PROVE  /\ InsertPayment(i, n, a) \in Seq(Payment)
         /\ Len(InsertPayment(i, n, a)) = Len(payments) + 1
         /\ \A id \in DOMAIN payments : InsertPayment(i, n, a)[id] = payments[id]
         /\ InsertPayment(i, n, a)[Len(payments) + 1].status = "PENDING"
BY DEF TypeOK, InsertPayment, Payment, PaymentStatus

(* A step that changes one handler's record and no table. *)
LEMMA RecordStep ==
  ASSUME TypeOK, NEW s \in Slots, NEW r \in Request, SetReq(s, r), Rest,
         faults' \in Nat, UNCHANGED <<money, answered>>
  PROVE  TypeOK' /\ req'[s] = r /\ \A t \in Slots \ {s} : req'[t] = req[t]
BY DEF TypeOK, SetReq, Rest

(* What a new record of slot s must satisfy, the tables being as they are. *)
GoodRecord(s, r) ==
  /\ r \in Request
  /\ r.pc # "committed"
  /\ r.pc \in {"begun", "renewed", "locked"} => r.id \in DOMAIN payments
  /\ r.pc \in {"listed", "begun", "renewed"} => r.list \subseteq DOMAIN participants
  /\ r.pc = "counted" => r.count = Len(participants)
  /\ r.pc = "locked" =>
       /\ payments[r.id].status = "PENDING"
       /\ \A t \in Slots \ {s} : Has(t, {"locked", "committed"}) => req[t].id # r.id

LEMMA IdleIsGood == ASSUME NEW s \in Slots PROVE GoodRecord(s, Idle)
BY DEF GoodRecord, Request, Idle

LEMMA GoodRecordStep ==
  ASSUME IInv, NEW s \in Slots, NEW r, GoodRecord(s, r), SetReq(s, r), Rest,
         faults' \in Nat, UNCHANGED <<money, answered>>
  PROVE  IInv'
<1>1. TypeOK' /\ req'[s] = r /\ \A t \in Slots \ {s} : req'[t] = req[t]
  BY RecordStep DEF IInv, GoodRecord
<1>2. UNCHANGED <<participants, payments, billed, emitted, answered>>
  BY DEF Rest
<1>3. Lengths' /\ KeplekGapFree' /\ EmittedOnce' /\ AckIsDurable'
  BY <1>2 DEF IInv, Lengths, KeplekGapFree, EmittedOnce, AckIsDurable
<1>4. RowsExist' /\ CountIsCurrent'
  BY <1>1, <1>2 DEF IInv, RowsExist, CountIsCurrent, GoodRecord, Has
<1>5. SettledByOne'
  BY <1>1, <1>2 DEF IInv, SettledByOne, GoodRecord, Has
<1> QED
  BY <1>1, <1>3, <1>4, <1>5 DEF IInv

-----------------------------------------------------------------------------
(* The steps that change a handler's record only. *)
LEMMA CreateSteps ==
  ASSUME IInv, NEW s \in Slots, CreateStart(s) \/ CreateCount(s) \/ CreateRollback(s)
  PROVE  IInv'
<1> USE DEF IInv
<1>0. faults \in Nat
  BY DEF TypeOK
<1>1. CASE CreateStart(s)
  <2>1. PICK n \in 0..MaxBatch, prefix \in Prefixes, i \in GenerateInvoiceNumber :
          SetReq(s, [pc |-> "priced", invoice |-> i, prefix |-> prefix, n |-> n])
    BY <1>1 DEF CreateStart
  <2>2. i \in Invoices /\ n \in Nat
    BY BatchAssumption DEF GenerateInvoiceNumber
  <2>3. GoodRecord(s, [pc |-> "priced", invoice |-> i, prefix |-> prefix, n |-> n])
    BY <2>2 DEF GoodRecord, Request
  <2> QED
    BY <1>0, <1>1, <2>1, <2>3, GoodRecordStep DEF CreateStart
<1>2. CASE CreateCount(s)
  <2> DEFINE r == [pc |-> "counted", invoice |-> req[s].invoice,
                   prefix |-> req[s].prefix, n |-> req[s].n,
                   count |-> Len(participants)]
  <2>1. GoodRecord(s, r)
    BY <1>2, RequestFields, RowsAreNat DEF CreateCount, Has, GoodRecord, Request
  <2> QED
    BY <1>0, <1>2, <2>1, GoodRecordStep DEF CreateCount
<1>3. CASE CreateRollback(s)
  BY <1>0, <1>3, IdleIsGood, GoodRecordStep DEF CreateRollback
<1> QED
  BY <1>1, <1>2, <1>3

LEMMA RegenerateSteps ==
  ASSUME IInv, NEW s \in Slots,
         \/ RegenerateRead(s) \/ RegenerateBegin(s) \/ RegenerateInvoice(s)
         \/ RegenerateRollback(s)
  PROVE  IInv'
<1> USE DEF IInv
<1>0. faults \in Nat
  BY DEF TypeOK
<1>1. CASE RegenerateRead(s)
  <2>1. PICK i \in HandedOut :
          LET list == UNION {Attached(id) : id \in FindPayment(i)}
          IN  SetReq(s, [pc |-> "listed", old |-> i, list |-> list,
                         active |-> Active(list)])
    BY <1>1 DEF RegenerateRead
  <2> DEFINE list == UNION {Attached(id) : id \in FindPayment(i)}
             r == [pc |-> "listed", old |-> i, list |-> list, active |-> Active(list)]
  <2>2. i \in Invoices
    BY RowsAreNat DEF HandedOut, Payment
  <2>3. list \subseteq DOMAIN participants /\ Active(list) \subseteq list
    BY RowsAreNat
  <2>4. list \in SUBSET Nat /\ Active(list) \in SUBSET Nat
    BY <2>3, RowsAreNat
  <2>5. GoodRecord(s, r)
    <3> HIDE DEF list
    <3> QED BY <2>2, <2>3, <2>4 DEF GoodRecord, Request
  <2> QED
    BY <1>0, <1>1, <2>1, <2>5, GoodRecordStep DEF RegenerateRead
<1>2. CASE RegenerateBegin(s)
  <2>1. CASE SetReq(s, Idle)
    BY <1>0, <1>2, <2>1, IdleIsGood, GoodRecordStep DEF RegenerateBegin
  <2>2. ASSUME NEW id \in FindPayment(req[s].old),
               SetReq(s, [pc |-> "begun", id |-> id, list |-> req[s].list,
                          active |-> req[s].active,
                          snapshot |-> Active(req[s].list)])
        PROVE  IInv'
    <3>1. id \in DOMAIN payments /\ id \in Nat
      BY RowsAreNat DEF FindPayment
    <3>2. req[s].list \subseteq DOMAIN participants /\ req[s].active \in SUBSET Nat
      BY <1>2, RequestFields DEF RegenerateBegin, RowsExist, Has
    <3>3. req[s].list \in SUBSET Nat /\ Active(req[s].list) \in SUBSET Nat
      BY <3>2, RowsAreNat
    <3>4. GoodRecord(s, [pc |-> "begun", id |-> id, list |-> req[s].list,
                         active |-> req[s].active,
                         snapshot |-> Active(req[s].list)])
      BY <3>1, <3>2, <3>3 DEF GoodRecord, Request
    <3> QED
      BY <1>0, <1>2, <2>2, <3>4, GoodRecordStep DEF RegenerateBegin
  <2> QED
    BY <1>2, <2>1, <2>2 DEF RegenerateBegin
<1>3. CASE RegenerateInvoice(s)
  <2>1. PICK i \in GenerateInvoiceNumber :
          SetReq(s, [pc |-> "renewed", id |-> req[s].id, list |-> req[s].list,
                     active |-> req[s].active, snapshot |-> req[s].snapshot,
                     invoice |-> i])
    BY <1>3 DEF RegenerateInvoice
  <2>2. GoodRecord(s, [pc |-> "renewed", id |-> req[s].id, list |-> req[s].list,
                       active |-> req[s].active, snapshot |-> req[s].snapshot,
                       invoice |-> i])
    BY <1>3, RequestFields
       DEF RegenerateInvoice, RowsExist, Has, GenerateInvoiceNumber, GoodRecord,
           Request
  <2> QED
    BY <1>0, <1>3, <2>1, <2>2, GoodRecordStep DEF RegenerateInvoice
<1>4. CASE RegenerateRollback(s)
  BY <1>0, <1>4, IdleIsGood, GoodRecordStep DEF RegenerateRollback
<1> QED
  BY <1>1, <1>2, <1>3, <1>4

(* A webhook locks a PENDING payment that no other webhook holds: one that
   holds it before its commit excludes this one by the lock, one that has
   committed has made it PAID.                                             *)
LEMMA PaidLockStep ==
  ASSUME IInv, NEW s \in Slots, NEW i \in Invoices, PaidLock(s, i)
  PROVE  IInv'
<1> USE DEF IInv
<1>1. PICK id \in DOMAIN payments :
        /\ PaidRead(s, i, id)
        /\ payments[id].status = "PENDING"
        /\ SetReq(s, [pc |-> "locked", id |-> id])
  BY DEF PaidLock
<1>2. ASSUME NEW t \in Slots \ {s}, Has(t, {"locked", "committed"})
      PROVE  req[t].id # id
  <2>1. CASE req[t].pc = "locked"
    BY <1>1, <2>1 DEF PaidRead, Unlocked, LockedPayments
  <2>2. CASE req[t].pc = "committed"
    BY <1>1, <2>2 DEF SettledByOne, Has
  <2> QED
    BY <1>2, <2>1, <2>2 DEF Has
<1>3. GoodRecord(s, [pc |-> "locked", id |-> id])
  BY <1>1, <1>2, RowsAreNat DEF GoodRecord, Request
<1> QED
  BY <1>1, <1>3, GoodRecordStep DEF PaidLock, TypeOK

-----------------------------------------------------------------------------
(* The steps that change no table but what Xendit was told, what customers
   have paid, or what a fault cuts off.                                    *)
LEMMA AnswerSteps ==
  ASSUME IInv, NEW i \in Invoices,
         PaidUnknown(i) \/ (\E s \in Slots : PaidAgain(s, i)) \/ CustomerPays(i)
  PROVE  IInv'
<1> USE DEF IInv
<1>1. UNCHANGED <<participants, payments, billed, emitted, req, faults>>
  BY DEF PaidUnknown, PaidAgain, CustomerPays, Rest
<1>2. TypeOK'
  BY <1>1 DEF TypeOK, PaidUnknown, PaidAgain, CustomerPays, Answer
<1>3. Lengths' /\ RowsExist' /\ CountIsCurrent' /\ KeplekGapFree'
  BY <1>1 DEF Lengths, RowsExist, CountIsCurrent, KeplekGapFree, Has
<1>4. SettledByOne' /\ EmittedOnce'
  BY <1>1 DEF SettledByOne, EmittedOnce, Has
<1>5. AckIsDurable'
  <2>1. CASE PaidUnknown(i)
    BY <1>1, <2>1 DEF PaidUnknown, Answer, AckIsDurable, TypeOK
  <2>2. ASSUME NEW s \in Slots, PaidAgain(s, i) PROVE AckIsDurable'
    <3>1. \E id \in DOMAIN payments :
            payments[id].invoice = i /\ payments[id].status = "PAID"
      BY <2>2 DEF PaidAgain, PaidRead, FindPayment
    <3> QED
      BY <1>1, <2>2, <3>1 DEF PaidAgain, Answer, AckIsDurable, TypeOK
  <2>3. CASE CustomerPays(i)
    BY <1>1, <2>3 DEF CustomerPays, AckIsDurable
  <2> QED
    BY <2>1, <2>2, <2>3
<1> QED
  BY <1>2, <1>3, <1>4, <1>5

LEMMA FaultSteps ==
  ASSUME IInv, NEW s \in Slots, RequestFails(s) \/ WebhookFails(s) \/ Crash
  PROVE  IInv'
<1> USE DEF IInv
<1>0. faults' \in Nat
  BY DEF TypeOK, RequestFails, WebhookFails, Crash, Fault
<1>1. UNCHANGED <<participants, payments, billed, emitted, money>>
  BY DEF RequestFails, WebhookFails, Crash, Rest
<1>2. CASE RequestFails(s)
  BY <1>0, <1>2, IdleIsGood, GoodRecordStep DEF RequestFails
<1>3. CASE WebhookFails(s)
  <2>1. TypeOK'
    BY <1>0, <1>1, <1>3 DEF TypeOK, WebhookFails, SetReq, Answer, Request
  <2>2. req'[s] = Idle /\ \A t \in Slots \ {s} : req'[t] = req[t]
    BY <1>3 DEF WebhookFails, SetReq, TypeOK
  <2>3. Lengths' /\ KeplekGapFree' /\ EmittedOnce'
    BY <1>1 DEF Lengths, KeplekGapFree, EmittedOnce
  <2>4. RowsExist' /\ CountIsCurrent' /\ SettledByOne'
    BY <1>1, <2>2 DEF RowsExist, CountIsCurrent, SettledByOne, Has, Idle
  <2>5. AckIsDurable'
    BY <1>1, <1>3 DEF WebhookFails, Answer, AckIsDurable, TypeOK
  <2> QED
    BY <2>1, <2>3, <2>4, <2>5
<1>4. CASE Crash
  <2>1. req' = [t \in Slots |-> Idle] /\ UNCHANGED answered
    BY <1>4 DEF Crash
  <2>2. TypeOK'
    BY <1>0, <1>1, <2>1 DEF TypeOK, Request
  <2>3. Lengths' /\ KeplekGapFree' /\ EmittedOnce' /\ AckIsDurable'
    BY <1>1, <2>1 DEF Lengths, KeplekGapFree, EmittedOnce, AckIsDurable
  <2>4. RowsExist' /\ CountIsCurrent' /\ SettledByOne'
    BY <1>1, <2>1 DEF RowsExist, CountIsCurrent, SettledByOne, Has, Idle
  <2> QED
    BY <2>2, <2>3, <2>4
<1> QED
  BY <1>2, <1>3, <1>4

-----------------------------------------------------------------------------
(* The commit of a webhook, and what follows it. *)
LEMMA PaidCommitStep ==
  ASSUME IInv, NEW s \in Slots, PaidCommit(s)
  PROVE  IInv'
<1> USE DEF IInv
<1> DEFINE id == req[s].id
<1>1. /\ Has(s, {"locked"}) /\ id \in DOMAIN payments /\ id \in Nat
      /\ payments[id].status = "PENDING" /\ emitted[id] = 0
  BY RequestFields, RowsAreNat
     DEF PaidCommit, Has, RowsExist, SettledByOne, EmittedOnce
<1>2. /\ payments' = [payments EXCEPT ![id].status = "PAID"]
      /\ DOMAIN payments' = DOMAIN payments
      /\ payments'[id] = [payments[id] EXCEPT !.status = "PAID"]
      /\ \A k \in DOMAIN payments \ {id} : payments'[k] = payments[k]
  BY <1>1 DEF PaidCommit, TypeOK
<1>3. /\ participants' = Activated(id)
      /\ UNCHANGED <<money, answered, faults, billed, emitted>>
      /\ req' = [req EXCEPT ![s] = [pc |-> "committed", id |-> id]]
  BY DEF PaidCommit, SetReq
<1>4. /\ req'[s] = [pc |-> "committed", id |-> id]
      /\ \A t \in Slots \ {s} : req'[t] = req[t]
  BY <1>3 DEF TypeOK
<1>5. payments' \in Seq(Payment) /\ Len(payments') = Len(payments)
  <2>1. payments'[id] \in Payment
    BY <1>1, <1>2, RowsAreNat DEF Payment, PaymentStatus
  <2>2. payments' \in [1..Len(payments) -> Payment]
    BY <1>1, <1>2, <2>1, RowsAreNat DEF TypeOK
  <2> QED
    BY <2>2, RowsAreNat, FunctionIsSeq
<1>6. /\ participants' \in Seq(Participant)
      /\ Len(participants') = Len(participants)
      /\ DOMAIN participants' = DOMAIN participants
      /\ \A p \in DOMAIN participants : participants'[p].seq = participants[p].seq
  <2>1. ASSUME NEW p \in DOMAIN participants
        PROVE  /\ participants'[p] \in Participant
               /\ participants'[p].seq = participants[p].seq
    BY <1>3, RowsAreNat DEF Activated, Participant, ParticipantStatus
  <2>2. participants' \in [1..Len(participants) -> Participant]
    BY <1>3, <2>1, RowsAreNat DEF Activated
  <2> QED
    BY <2>1, <2>2, RowsAreNat, FunctionIsSeq
<1>7. TypeOK'
  <2>1. [pc |-> "committed", id |-> id] \in Request
    BY <1>1 DEF Request
  <2> QED
    BY <1>3, <1>5, <1>6, <2>1 DEF TypeOK
<1>8. Lengths' /\ KeplekGapFree'
  BY <1>3, <1>5, <1>6 DEF Lengths, KeplekGapFree
<1>9. RowsExist' /\ CountIsCurrent'
  BY <1>1, <1>2, <1>4, <1>6 DEF RowsExist, CountIsCurrent, Has
<1>10. SettledByOne'
  BY <1>1, <1>2, <1>3, <1>4 DEF SettledByOne, RowsExist, Has
<1>11. EmittedOnce'
  BY <1>1, <1>2, <1>3 DEF EmittedOnce
<1>12. AckIsDurable'
  BY <1>1, <1>2, <1>3, RowsAreNat DEF AckIsDurable, Payment
<1> QED
  BY <1>7, <1>8, <1>9, <1>10, <1>11, <1>12

LEMMA PaidEmitStep ==
  ASSUME IInv, NEW s \in Slots, PaidEmit(s)
  PROVE  IInv'
<1> USE DEF IInv
<1> DEFINE id == req[s].id
<1>1. /\ Has(s, {"committed"}) /\ id \in DOMAIN payments
      /\ payments[id].status = "PAID" /\ emitted[id] = 0
      /\ payments[id].invoice \in Invoices
  BY RowsAreNat DEF PaidEmit, Has, RowsExist, SettledByOne, Payment
<1>2. /\ emitted' = [emitted EXCEPT ![id] = @ + 1]
      /\ answered' = [answered EXCEPT ![payments[id].invoice] = "ok"]
      /\ req' = [req EXCEPT ![s] = Idle]
      /\ UNCHANGED <<participants, payments, money, faults, billed>>
  BY DEF PaidEmit, Answer, SetReq
<1>3. id \in DOMAIN emitted /\ DOMAIN emitted = DOMAIN payments
  BY <1>1, RowsAreNat DEF Lengths, TypeOK
<1>4. /\ emitted' \in Seq(Nat) /\ Len(emitted') = Len(emitted)
      /\ emitted'[id] = 1
      /\ \A k \in DOMAIN payments \ {id} : emitted'[k] = emitted[k]
  BY <1>1, <1>2, <1>3 DEF TypeOK
<1>5. req'[s] = Idle /\ \A t \in Slots \ {s} : req'[t] = req[t]
  BY <1>2 DEF TypeOK
<1>6. TypeOK'
  BY <1>2, <1>4 DEF TypeOK, Request
<1>7. Lengths' /\ KeplekGapFree' /\ EmittedOnce'
  BY <1>1, <1>2, <1>4 DEF Lengths, KeplekGapFree, EmittedOnce
<1>8. RowsExist' /\ CountIsCurrent'
  BY <1>2, <1>5 DEF RowsExist, CountIsCurrent, Has, Idle
<1>9. SettledByOne'
  BY <1>1, <1>2, <1>4, <1>5 DEF SettledByOne, RowsExist, Has, Idle
<1>10. AckIsDurable'
  BY <1>1, <1>2 DEF AckIsDurable, TypeOK
<1> QED
  BY <1>6, <1>7, <1>8, <1>9, <1>10

-----------------------------------------------------------------------------
(* The commits that insert a payment. *)

LEMMA AppendFacts ==
  ASSUME NEW S, NEW q \in Seq(S), NEW e \in S
  PROVE  /\ Append(q, e) \in Seq(S)
         /\ Len(Append(q, e)) = Len(q) + 1
         /\ \A i \in 1..Len(q) : Append(q, e)[i] = q[i]
         /\ Append(q, e)[Len(q) + 1] = e
OBVIOUS

(* What both commits leave as it was: the other handlers' records, and the
   status and invoice of every payment; the new one is PENDING.            *)
InsertedBy(s) ==
  /\ SetReq(s, Idle)
  /\ UNCHANGED <<money, answered, faults>>
  /\ payments' \in Seq(Payment)
  /\ Len(payments') = Len(payments) + 1
  /\ \A id \in DOMAIN payments :
       /\ payments'[id].status = payments[id].status
       /\ payments'[id].invoice = payments[id].invoice
  /\ payments'[Len(payments) + 1].status = "PENDING"
  /\ emitted' = Append(emitted, 0)
  /\ \E new \in SUBSET Nat : billed' = Append(billed, new)
  /\ participants' \in Seq(Participant)
  /\ Len(participants') >= Len(participants)
  /\ \A t \in Slots \ {s} :
       Has(t, {"counted"}) => Len(participants') = Len(participants)

LEMMA InsertStep ==
  ASSUME IInv, NEW s \in Slots, InsertedBy(s), KeplekGapFree'
  PROVE  IInv'
<1>0. /\ TypeOK /\ Lengths /\ RowsExist /\ CountIsCurrent
      /\ SettledByOne /\ EmittedOnce /\ AckIsDurable
  BY DEF IInv
<1>1. req'[s] = Idle /\ \A t \in Slots \ {s} : req'[t] = req[t]
  BY <1>0 DEF InsertedBy, SetReq, TypeOK
<1>2. /\ DOMAIN payments' = 1..(Len(payments) + 1)
      /\ DOMAIN payments = 1..Len(payments)
      /\ DOMAIN participants' = 1..Len(participants')
      /\ DOMAIN participants = 1..Len(participants)
      /\ Len(payments) \in Nat /\ Len(participants) \in Nat
      /\ Len(participants') \in Nat
      /\ Len(participants') >= Len(participants)
  BY <1>0, RowsAreNat DEF InsertedBy
<1>3. /\ emitted' \in Seq(Nat) /\ Len(emitted') = Len(payments) + 1
      /\ \A id \in DOMAIN payments : emitted'[id] = emitted[id]
      /\ emitted'[Len(payments) + 1] = 0
  <2>1. emitted \in Seq(Nat) /\ Len(emitted) = Len(payments)
    BY <1>0 DEF TypeOK, Lengths
  <2>2. emitted' = Append(emitted, 0)
    BY DEF InsertedBy
  <2> QED
    BY <1>2, <2>1, <2>2, AppendFacts
<1>4. billed' \in Seq(SUBSET Nat) /\ Len(billed') = Len(payments) + 1
  BY <1>0, AppendFacts DEF TypeOK, Lengths, InsertedBy
<1>5. TypeOK'
  <2>1. req' \in [Slots -> Request]
    BY <1>0 DEF InsertedBy, TypeOK, SetReq, Request
  <2> QED
    BY <1>0, <1>3, <1>4, <2>1 DEF TypeOK, InsertedBy
<1>6. Lengths'
  BY <1>3, <1>4 DEF Lengths, InsertedBy
<1>7. RowsExist' /\ CountIsCurrent'
  <2>1. /\ DOMAIN payments \subseteq DOMAIN payments'
        /\ DOMAIN participants \subseteq DOMAIN participants'
    BY <1>2
  <2>2. RowsExist'
    BY <1>0, <1>1, <2>1 DEF RowsExist, Has, Idle
  <2>3. CountIsCurrent'
    <3>1. ASSUME NEW t \in Slots, Has(t, {"counted"})'
          PROVE  /\ t # s /\ req'[t] = req[t] /\ Has(t, {"counted"})
      BY <1>1, <3>1 DEF Has, Idle
    <3>2. ASSUME NEW t \in Slots, Has(t, {"counted"})'
          PROVE  req'[t].count = Len(participants')
      <4>1. req[t].count = Len(participants)
        BY <1>0, <3>1, <3>2 DEF CountIsCurrent
      <4>2. Len(participants') = Len(participants)
        BY <3>1, <3>2 DEF InsertedBy
      <4> QED
        BY <3>1, <3>2, <4>1, <4>2
    <3> QED
      BY <3>2 DEF CountIsCurrent, Has
  <2> QED
    BY <2>2, <2>3
<1>8. SettledByOne'
  <2>1. ASSUME NEW t \in Slots, Has(t, {"locked", "committed"})'
        PROVE  /\ t # s /\ req'[t] = req[t] /\ Has(t, {"locked", "committed"})
               /\ req[t].id \in DOMAIN payments
               /\ payments'[req[t].id].status = payments[req[t].id].status
               /\ emitted'[req[t].id] = emitted[req[t].id]
    <3>1. t # s /\ req'[t] = req[t] /\ Has(t, {"locked", "committed"})
      BY <1>1, <2>1 DEF Has, Idle
    <3>2. req[t].id \in DOMAIN payments
      BY <1>0, <3>1 DEF RowsExist, Has
    <3> QED
      BY <1>3, <3>1, <3>2 DEF InsertedBy
  <2> QED
    BY <1>0, <2>1 DEF SettledByOne, Has
<1>9. EmittedOnce'
  <2> SUFFICES ASSUME NEW id \in DOMAIN payments'
               PROVE  /\ emitted'[id] <= 1
                      /\ payments'[id].status = "PENDING" => emitted'[id] = 0
    BY DEF EmittedOnce
  <2>1. CASE id \in DOMAIN payments
    BY <1>0, <1>3, <2>1 DEF EmittedOnce, InsertedBy
  <2>2. CASE id = Len(payments) + 1
    BY <1>3, <2>2
  <2> QED
    BY <1>2, <2>1, <2>2
<1>10. AckIsDurable'
  <2> SUFFICES ASSUME NEW i \in Invoices, answered[i] = "ok"
               PROVE  \E id \in DOMAIN payments' :
                        payments'[id].invoice = i /\ payments'[id].status = "PAID"
    BY DEF AckIsDurable, InsertedBy
  <2>1. PICK id \in DOMAIN payments :
          payments[id].invoice = i /\ payments[id].status = "PAID"
    BY <1>0 DEF AckIsDurable
  <2>2. id \in DOMAIN payments'
    BY <1>2
  <2>3. payments'[id].invoice = i /\ payments'[id].status = "PAID"
    BY <2>1 DEF InsertedBy
  <2> QED
    BY <2>2, <2>3
<1> QED
  BY <1>5, <1>6, <1>7, <1>8, <1>9, <1>10 DEF IInv

(* A batch is numbered from the count, which the lock has kept current. *)
LEMMA CreateCommitStep ==
  ASSUME IInv, NEW s \in Slots, CreateCommit(s)
  PROVE  IInv'
<1> USE DEF IInv
<1> DEFINE r == req[s]
           all == Len(participants) + r.n
           amount == GetPrice(r.n, RegisterPrice, EventSetting)
<1>1. /\ r.pc = "counted" /\ r.invoice \in Invoices /\ r.prefix \in Prefixes
      /\ r.n \in Nat /\ r.count = Len(participants)
  BY RequestFields DEF CreateCommit, Has, CountIsCurrent
<1>2. amount \in Nat
  BY <1>1, PriceAssumption, PriceInNat
<1>3. /\ payments' = InsertPayment(r.invoice, r.n, amount)
      /\ participants' = [p \in 1..all |-> IF p <= Len(participants)
                                           THEN participants[p]
                                           ELSE NewParticipant(r, p)]
      /\ billed' = Append(billed, Len(participants) + 1 .. all)
      /\ emitted' = Append(emitted, 0)
      /\ SetReq(s, Idle)
      /\ UNCHANGED <<money, answered, faults>>
  BY DEF CreateCommit
<1> HIDE DEF amount
<1>4. /\ payments' \in Seq(Payment) /\ Len(payments') = Len(payments) + 1
      /\ \A id \in DOMAIN payments : payments'[id] = payments[id]
      /\ payments'[Len(payments) + 1].status = "PENDING"
  BY <1>1, <1>2, <1>3, InsertPaymentType
<1>5. ASSUME NEW p \in 1..all
      PROVE  participants'[p] \in Participant /\ participants'[p].seq = p
  <2>1. CASE p <= Len(participants)
    BY <1>1, <1>3, <2>1, RowsAreNat DEF KeplekGapFree
  <2>2. CASE p > Len(participants)
    <3>1. participants'[p] = NewParticipant(r, p)
      BY <1>1, <1>3, <2>2, RowsAreNat
    <3>2. NewParticipant(r, p).seq = p
      BY <1>1, <2>2, RowsAreNat DEF NewParticipant
    <3>3. NewParticipant(r, p) \in Participant
      BY <1>1, <3>2, RowsAreNat DEF NewParticipant, Participant, ParticipantStatus
    <3> QED BY <3>1, <3>2, <3>3
  <2> QED
    BY <1>1, <2>1, <2>2, RowsAreNat
<1>6. participants' \in Seq(Participant) /\ Len(participants') = all
  <2>1. all \in Nat
    BY <1>1, RowsAreNat
  <2>2. participants' \in [1..all -> Participant]
    BY <1>3, <1>5
  <2> QED
    BY <2>1, <2>2, FunctionIsSeq
<1>7. KeplekGapFree'
  BY <1>3, <1>5 DEF KeplekGapFree
<1>8. \A t \in Slots \ {s} : ~Has(t, {"counted"})
  BY DEF CreateCommit, GapLocked, Counting, Has
<1>9. Len(participants) + 1 .. all \in SUBSET Nat
  BY <1>1, RowsAreNat
<1>10. all >= Len(participants)
  BY <1>1, RowsAreNat
<1>11. InsertedBy(s)
  BY <1>3, <1>4, <1>6, <1>8, <1>9, <1>10 DEF InsertedBy
<1> QED
  BY <1>7, <1>11, InsertStep

LEMMA RegenerateCommitStep ==
  ASSUME IInv, NEW s \in Slots, RegenerateCommit(s)
  PROVE  IInv'
<1> USE DEF IInv
<1> DEFINE r == req[s]
           inserted == InsertPayment(r.invoice, Cardinality(r.list),
                                     payments[r.id].amount)
<1>1. /\ r.pc = "renewed" /\ r.invoice \in Invoices
      /\ r.id \in DOMAIN payments /\ r.list \subseteq DOMAIN participants
  BY RequestFields DEF RegenerateCommit, Has, RowsExist
<1>2. Cardinality(r.list) \in Nat
  <2>1. IsFiniteSet(1..Len(participants))
    BY RowsAreNat, FS_Interval
  <2>2. IsFiniteSet(r.list)
    BY <1>1, <2>1, RowsAreNat, FS_Subset
  <2> QED
    BY <2>2, FS_CardinalityType
<1>3. payments[r.id].amount \in Nat
  BY <1>1, RowsAreNat DEF Payment
<1>4. /\ payments' = [inserted EXCEPT ![r.id].live = FALSE]
      /\ participants' = MoveParticipants(r)
      /\ billed' = Append(billed, r.list)
      /\ emitted' = Append(emitted, 0)
      /\ SetReq(s, Idle)
      /\ UNCHANGED <<money, answered, faults>>
  BY DEF RegenerateCommit
<1>5. /\ inserted \in Seq(Payment) /\ Len(inserted) = Len(payments) + 1
      /\ \A id \in DOMAIN payments : inserted[id] = payments[id]
      /\ inserted[Len(payments) + 1].status = "PENDING"
  BY <1>1, <1>2, <1>3, InsertPaymentType
<1> HIDE DEF inserted
<1>6. /\ payments' \in Seq(Payment) /\ Len(payments') = Len(payments) + 1
      /\ \A id \in DOMAIN payments :
           /\ payments'[id].status = payments[id].status
           /\ payments'[id].invoice = payments[id].invoice
      /\ payments'[Len(payments) + 1].status = "PENDING"
  <2>1. DOMAIN inserted = 1..(Len(payments) + 1) /\ Len(payments) + 1 \in Nat
    BY <1>5, RowsAreNat
  <2>2. \A id \in 1..(Len(payments) + 1) :
          /\ payments'[id] \in Payment
          /\ payments'[id].status = inserted[id].status
          /\ payments'[id].invoice = inserted[id].invoice
    <3> SUFFICES ASSUME NEW id \in 1..(Len(payments) + 1)
                 PROVE  /\ payments'[id] \in Payment
                        /\ payments'[id].status = inserted[id].status
                        /\ payments'[id].invoice = inserted[id].invoice
      OBVIOUS
    <3>1. inserted[id] \in Payment
      BY <1>5, <2>1
    <3>2. payments'[id] = IF id = r.id THEN [inserted[id] EXCEPT !.live = FALSE]
                                       ELSE inserted[id]
      BY <1>4, <2>1
    <3> QED
      BY <3>1, <3>2 DEF Payment
  <2>3. payments' \in [1..(Len(payments) + 1) -> Payment]
    BY <1>4, <2>1, <2>2
  <2> QED
    BY <1>1, <1>5, <2>1, <2>2, <2>3, RowsAreNat, FunctionIsSeq
<1>7. ASSUME NEW p \in DOMAIN participants
      PROVE  /\ participants'[p] \in Participant
             /\ participants'[p].seq = participants[p].seq
  <2>1. SavedStatus(r, p) \in ParticipantStatus
    BY RowsAreNat DEF SavedStatus, Participant, ParticipantStatus
  <2>2. participants[p] \in Participant /\ Len(payments) + 1 \in Nat
    BY RowsAreNat
  <2> QED
    BY <1>4, <2>1, <2>2 DEF MoveParticipants, Participant
<1>8. participants' \in Seq(Participant) /\ Len(participants') = Len(participants)
  <2>1. participants' \in [1..Len(participants) -> Participant]
    BY <1>4, <1>7, RowsAreNat DEF MoveParticipants
  <2> QED
    BY <2>1, RowsAreNat, FunctionIsSeq
<1>9. KeplekGapFree'
  BY <1>4, <1>7 DEF KeplekGapFree, MoveParticipants
<1>10. r.list \in SUBSET Nat
  BY <1>1, RowsAreNat
<1>11. Len(participants') >= Len(participants)
  BY <1>8, RowsAreNat
<1>12. InsertedBy(s)
  BY <1>4, <1>6, <1>8, <1>10, <1>11 DEF InsertedBy
<1> QED
  BY <1>9, <1>12, InsertStep

-----------------------------------------------------------------------------
LEMMA InitIInv == Init => IInv
<1> SUFFICES ASSUME Init PROVE IInv
  OBVIOUS
<1>1. TypeOK
  BY DEF Init, TypeOK, Request
<1>2. Lengths /\ KeplekGapFree /\ EmittedOnce
  BY DEF Init, Lengths, KeplekGapFree, EmittedOnce
<1>3. RowsExist /\ CountIsCurrent /\ SettledByOne
  BY DEF Init, RowsExist, CountIsCurrent, SettledByOne, Has, Idle
<1>4. AckIsDurable
  BY DEF Init, AckIsDurable
<1> QED
  BY <1>1, <1>2, <1>3, <1>4 DEF IInv

LEMMA StutterIInv == ASSUME IInv, UNCHANGED vars PROVE IInv'
<1> USE DEF IInv, vars
<1>1. TypeOK' /\ Lengths' /\ KeplekGapFree' /\ EmittedOnce' /\ AckIsDurable'
  BY DEF TypeOK, Lengths, KeplekGapFree, EmittedOnce, AckIsDurable
<1>2. RowsExist' /\ CountIsCurrent' /\ SettledByOne'
  BY DEF RowsExist, CountIsCurrent, SettledByOne, Has
<1> QED
  BY <1>1, <1>2

LEMMA NextIInv == ASSUME IInv, [Next]_vars PROVE IInv'
<1>1. ASSUME NEW s \in Slots, Create(s) PROVE IInv'
  BY <1>1, CreateSteps, CreateCommitStep DEF Create
<1>2. ASSUME NEW s \in Slots, Regenerate(s) PROVE IInv'
  BY <1>2, RegenerateSteps, RegenerateCommitStep DEF Regenerate
<1>3. ASSUME NEW s \in Slots, Paid(s) PROVE IInv'
  BY <1>3, AnswerSteps, PaidLockStep, PaidCommitStep, PaidEmitStep DEF Paid
<1>4. ASSUME NEW i \in Invoices, PaidUnknown(i) \/ CustomerPays(i) PROVE IInv'
  BY <1>4, AnswerSteps
<1>5. ASSUME NEW s \in Slots, RequestFails(s) \/ WebhookFails(s) PROVE IInv'
  BY <1>5, FaultSteps
<1>6. CASE Crash
  <2>1. PICK s \in Slots : req[s] # Idle
    BY <1>6 DEF Crash
  <2> QED
    BY <1>6, <2>1, FaultSteps
<1>7. CASE UNCHANGED vars
  BY <1>7, StutterIInv
<1> QED
  BY <1>1, <1>2, <1>3, <1>4, <1>5, <1>6, <1>7 DEF Next

LEMMA Invariance == Spec => []IInv
<1>1. IInv /\ [Next]_vars => IInv'
  BY NextIInv
<1> QED
  BY InitIInv, <1>1, PTL DEF Spec

-----------------------------------------------------------------------------
(* Tables, handlers and history keep their types. *)
THEOREM TypeCorrect == Spec => []TypeOK
<1>1. IInv => TypeOK
  BY DEF IInv
<1> QED
  BY <1>1, Invariance, PTL

(* The keplekIds' sequence numbers have no gap and no repeat, however many
   create and regenerate requests run at once and wherever they are cut off. *)
THEOREM KeplekNumbersGapFree == Spec => []KeplekGapFree
<1>1. IInv => KeplekGapFree
  BY DEF IInv
<1> QED
  BY <1>1, Invariance, PTL

LEMMA AnnouncedOnce == IInv => EmitOnceAfterCommit
BY RowsAreNat DEF IInv, EmittedOnce, EmitOnceAfterCommit, Payment, PaymentStatus

(* A payment is announced to its room at most once, however often its webhook
   is repeated or how many arrive at once, and only once it is PAID.       *)
THEOREM EmittedOnceAfterCommit == Spec => []EmitOnceAfterCommit
<1> QED
  BY AnnouncedOnce, Invariance, PTL

(* A webhook that was answered with success has left a PAID payment behind,
   which neither a crash nor a failed statement takes back.                *)
THEOREM AcknowledgedIsDurable == Spec => []AckIsDurable
<1>1. IInv => AckIsDurable
  BY DEF IInv
<1> QED
  BY <1>1, Invariance, PTL
=============================================================================
