-------------------------- MODULE SettlementProofs --------------------------
(***************************************************************************)
(* PaymentFlow keeps batches whole, and so implements Settlement.          *)
(*                                                                         *)
(* The inductive invariant SInv, on top of PaymentFlowProofs' IInv, says   *)
(* that a batch once billed stays one batch: its participants share one    *)
(* payment, which was billed for the same participants.  A list that a     *)
(* regeneration has read is therefore nobody or a whole batch, however old *)
(* the reading is, and what it saw of their statuses it saw of all.        *)
(*                                                                         *)
(* PaymentDesk's edits write statuses back that are out of date: there all *)
(* of this holds but for the participants they wrote over, `exempt'.       *)
(***************************************************************************)
EXTENDS PaymentFlowProofs, PaymentDesk

Own(p) == participants[p].payment

IsPaid(id) == id \in DOMAIN payments /\ payments[id].status = "PAID"

(* Whose batch it is: a payment has nobody, or all it was billed for. *)
BatchesAreWhole ==
  /\ \A p \in DOMAIN participants : Own(p) \in DOMAIN payments /\ p \in billed[Own(p)]
  /\ \A id \in DOMAIN payments :
       /\ billed[id] \subseteq DOMAIN participants
       /\ payments[id].participant_amounts = Cardinality(billed[id])
       /\ \A p \in billed[id] : billed[Own(p)] = billed[id]
       /\ \A p, q \in billed[id] : Own(p) = Own(q)

LiveInvoicesDiffer ==
  \A i, j \in DOMAIN payments :
    payments[i].live /\ payments[j].live /\ payments[i].invoice = payments[j].invoice
      => i = j

(* Some PAID payment was billed for all of ps. *)
PaidForAll(ps) == \E id \in DOMAIN payments : IsPaid(id) /\ ps \subseteq billed[id]

ActiveWasPaid ==
  \A p \in DOMAIN participants : participants[p].status = "ACTIVE" => PaidForAll({p})

PaidHasMoney == \A id \in DOMAIN payments : IsPaid(id) => payments[id].invoice \in money

AmountIsPrice ==
  InvoicesDiffer =>
    \A id \in DOMAIN payments :
      billed[id] # {} =>
        payments[id].amount =
          GetPrice(Cardinality(billed[id]), RegisterPrice, EventSetting)

(* BatchHasOneStatus and PaidMeansActive, but for the statuses of exempt. *)
OneStatus(exempt) ==
  \A p, q \in DOMAIN participants \ exempt :
    Own(p) = Own(q) => participants[p].status = participants[q].status

PaidOnesActive(exempt) ==
  \A p \in DOMAIN participants :
    /\ payments[Own(p)].live
    /\ p \notin exempt /\ payments[Own(p)].status = "PAID" =>
         participants[p].status = "ACTIVE"

TablesInv(exempt) ==
  /\ BatchesAreWhole
  /\ LiveInvoicesDiffer
  /\ OneStatus(exempt)
  /\ PaidOnesActive(exempt)
  /\ ActiveWasPaid
  /\ PaidHasMoney
  /\ AmountIsPrice

AllOrNone(some, all, exempt) == some \ exempt \in {{}, all \ exempt}

(* What a handler holds is a batch, and what it saw of one it saw of all. *)
HoldsBatch(s, exempt) ==
  /\ Has(s, {"priced", "counted"}) => req[s].n \in 0..MaxBatch
  /\ Has(s, {"listed", "begun", "renewed"}) =>
       /\ req[s].list = {} \/ \E id \in DOMAIN payments : req[s].list = billed[id]
       /\ AllOrNone(req[s].active, req[s].list, exempt)
       /\ req[s].active # {} => PaidForAll(req[s].list)
  /\ Has(s, {"begun", "renewed"}) =>
       AllOrNone(req[s].snapshot, req[s].list, exempt)
  /\ Has(s, {"locked"}) => /\ payments[req[s].id].live
                           /\ payments[req[s].id].invoice \in money

(* While no invoice number was used twice, the payment whose amount a
   regeneration copies is the one it listed the participants of.           *)
RenewsItsBatch(s) ==
  InvoicesDiffer =>
    /\ Has(s, {"listed"}) /\ req[s].list # {} =>
         \E id \in DOMAIN payments : /\ payments[id].invoice = req[s].old
                                     /\ billed[id] = req[s].list
    /\ Has(s, {"begun", "renewed"}) /\ req[s].list # {} =>
         billed[req[s].id] = req[s].list

HandlersInv(exempt) == \A s \in Slots : HoldsBatch(s, exempt) /\ RenewsItsBatch(s)

SInv(exempt) == IInv /\ TablesInv(exempt) /\ HandlersInv(exempt)

-----------------------------------------------------------------------------
(* What every step leaves of the tables' history. *)
Grows ==
  /\ DOMAIN payments \subseteq DOMAIN payments'
  /\ \A id \in DOMAIN payments :
       /\ billed'[id] = billed[id]
       /\ payments'[id].invoice = payments[id].invoice
       /\ payments[id].status = "PAID" => payments'[id].status = "PAID"
  /\ money \subseteq money'

LEMMA PaidStays ==
  ASSUME Grows, NEW ps, PaidForAll(ps)
  PROVE  PaidForAll(ps)'
BY DEF Grows, PaidForAll, IsPaid

LEMMA HandlerKeeps ==
  ASSUME NEW exempt, IInv, Grows, NEW t \in Slots, req'[t] = req[t],
         HoldsBatch(t, exempt), RenewsItsBatch(t),
         Has(t, {"locked"}) => payments'[req[t].id].live
  PROVE  HoldsBatch(t, exempt)' /\ RenewsItsBatch(t)'
<1>1. /\ Has(t, {"begun", "renewed", "locked"}) => req[t].id \in DOMAIN payments
  BY DEF IInv, RowsExist, Has
<1>2. InvoicesDiffer' => InvoicesDiffer
  BY DEF Grows, InvoicesDiffer
<1>3. PaidForAll(req[t].list) => PaidForAll(req[t].list)'
  BY DEF Grows, PaidForAll, IsPaid
<1>4. HoldsBatch(t, exempt)'
  BY <1>1, <1>3 DEF HoldsBatch, Has, Grows, PaidForAll, IsPaid
<1>5. RenewsItsBatch(t)'
  BY <1>1, <1>2 DEF RenewsItsBatch, Has, Grows
<1> QED
  BY <1>4, <1>5

(* A new record of a slot, the tables being as they are. *)
GoodHolder(exempt, r) ==
  /\ r.pc \in {"priced", "counted"} => r.n \in 0..MaxBatch
  /\ r.pc \in {"listed", "begun", "renewed"} =>
       /\ r.list = {} \/ \E id \in DOMAIN payments : r.list = billed[id]
       /\ AllOrNone(r.active, r.list, exempt)
       /\ r.active # {} => PaidForAll(r.list)
  /\ r.pc \in {"begun", "renewed"} => AllOrNone(r.snapshot, r.list, exempt)
  /\ r.pc = "locked" => payments[r.id].live /\ payments[r.id].invoice \in money
  /\ InvoicesDiffer =>
       /\ r.pc = "listed" /\ r.list # {} =>
            \E id \in DOMAIN payments : /\ payments[id].invoice = r.old
                                        /\ billed[id] = r.list
       /\ r.pc \in {"begun", "renewed"} /\ r.list # {} => billed[r.id] = r.list

LEMMA IdleHoldsNothing == ASSUME NEW exempt PROVE GoodHolder(exempt, Idle)
BY DEF GoodHolder, Idle

LEMMA TablesSame ==
  ASSUME NEW exempt, TablesInv(exempt), UNCHANGED <<participants, payments, billed>>,
         money \subseteq money'
  PROVE  TablesInv(exempt)'
<1>1. BatchesAreWhole'
  BY DEF TablesInv, BatchesAreWhole, Own
<1>2. LiveInvoicesDiffer' /\ OneStatus(exempt)' /\ PaidOnesActive(exempt)'
  BY DEF TablesInv, LiveInvoicesDiffer, OneStatus, PaidOnesActive, Own
<1>3. ActiveWasPaid' /\ PaidHasMoney'
  BY DEF TablesInv, ActiveWasPaid, PaidHasMoney, PaidForAll, IsPaid
<1>4. AmountIsPrice'
  BY DEF TablesInv, AmountIsPrice, InvoicesDiffer
<1> QED
  BY <1>1, <1>2, <1>3, <1>4 DEF TablesInv

LEMMA HolderStep ==
  ASSUME NEW exempt, SInv(exempt), IInv', NEW s \in Slots, NEW r,
         GoodHolder(exempt, r), SetReq(s, r), Rest, UNCHANGED money
  PROVE  SInv(exempt)'
<1>0. UNCHANGED <<participants, payments, billed>>
  BY DEF Rest
<1>1. req'[s] = r /\ \A t \in Slots \ {s} : req'[t] = req[t]
  BY DEF SInv, IInv, TypeOK, SetReq
<1>2. Grows
  BY <1>0 DEF Grows
<1>3. ASSUME NEW t \in Slots \ {s} PROVE HoldsBatch(t, exempt)' /\ RenewsItsBatch(t)'
  <2>1. HoldsBatch(t, exempt) /\ RenewsItsBatch(t)
    BY DEF SInv, HandlersInv
  <2>2. Has(t, {"locked"}) => payments'[req[t].id].live
    BY <1>0, <2>1 DEF HoldsBatch
  <2> QED
    BY <1>1, <1>2, <2>1, <2>2, HandlerKeeps DEF SInv
<1>4. HoldsBatch(s, exempt)'
  BY <1>0, <1>1 DEF HoldsBatch, GoodHolder, Has, PaidForAll, IsPaid
<1>5. RenewsItsBatch(s)'
  BY <1>0, <1>1 DEF RenewsItsBatch, GoodHolder, Has, InvoicesDiffer
<1>6. TablesInv(exempt)'
  BY <1>0, TablesSame DEF SInv
<1> QED
  BY <1>3, <1>4, <1>5, <1>6 DEF SInv, HandlersInv

(* A step that only ends handlers, or answers, or takes money. *)
LEMMA QuietStep ==
  ASSUME NEW exempt, SInv(exempt), IInv', UNCHANGED <<participants, payments, billed>>,
         money \subseteq money',
         \A s \in Slots : req'[s] = req[s] \/ req'[s].pc \in {"idle", "committed"}
  PROVE  SInv(exempt)'
<1>1. Grows
  BY DEF Grows
<1>2. ASSUME NEW t \in Slots PROVE HoldsBatch(t, exempt)' /\ RenewsItsBatch(t)'
  <2>1. HoldsBatch(t, exempt) /\ RenewsItsBatch(t)
    BY DEF SInv, HandlersInv
  <2>2. CASE req'[t] = req[t]
    BY <1>1, <2>1, <2>2, HandlerKeeps DEF SInv, HoldsBatch
  <2>3. CASE req'[t].pc \in {"idle", "committed"}
    BY <2>3 DEF HoldsBatch, RenewsItsBatch, Has
  <2> QED
    BY <2>2, <2>3
<1> QED
  BY <1>2, TablesSame DEF SInv, HandlersInv

(* Nobody, or all the payment was billed for. *)
LEMMA AttachedIsBilled ==
  ASSUME BatchesAreWhole, NEW id \in DOMAIN payments
  PROVE  Attached(id) = {} \/ Attached(id) = billed[id]
<1>1. Attached(id) \subseteq billed[id]
  BY DEF BatchesAreWhole, Attached, Own
<1>2. ASSUME NEW p \in Attached(id) PROVE billed[id] \subseteq Attached(id)
  BY <1>1, <1>2 DEF BatchesAreWhole, Attached, Own
<1> QED
  BY <1>1, <1>2

-----------------------------------------------------------------------------
(* The steps that change no table. *)

LEMMA CreateHolds ==
  ASSUME NEW exempt, SInv(exempt), IInv', NEW s \in Slots, CreateStart(s) \/ CreateCount(s)
  PROVE  SInv(exempt)'
<1>1. CASE CreateStart(s)
  <2>1. PICK n \in 0..MaxBatch, prefix \in Prefixes, i \in GenerateInvoiceNumber :
          SetReq(s, [pc |-> "priced", invoice |-> i, prefix |-> prefix, n |-> n])
    BY <1>1 DEF CreateStart
  <2>2. GoodHolder(exempt, [pc |-> "priced", invoice |-> i, prefix |-> prefix, n |-> n])
    BY DEF GoodHolder
  <2> QED
    BY <1>1, <2>1, <2>2, HolderStep DEF CreateStart
<1>2. CASE CreateCount(s)
  <2> DEFINE r == [pc |-> "counted", invoice |-> req[s].invoice,
                   prefix |-> req[s].prefix, n |-> req[s].n,
                   count |-> Len(participants)]
  <2>1. req[s].n \in 0..MaxBatch
    BY <1>2 DEF CreateCount, SInv, HandlersInv, HoldsBatch, Has
  <2>2. GoodHolder(exempt, r)
    BY <2>1 DEF GoodHolder
  <2>3. SetReq(s, r) /\ Rest /\ UNCHANGED money
    BY <1>2 DEF CreateCount
  <2> QED
    BY <2>2, <2>3, HolderStep
<1> QED
  BY <1>1, <1>2

(* A regeneration lists nobody or a whole batch, whose participants have one
   status; ACTIVE ones were paid for.                                      *)
LEMMA RegenerateReadHolds ==
  ASSUME NEW exempt, SInv(exempt), IInv', NEW s \in Slots, RegenerateRead(s)
  PROVE  SInv(exempt)'
<1>1. PICK i \in HandedOut :
        LET list == UNION {Attached(id) : id \in FindPayment(i)}
        IN  SetReq(s, [pc |-> "listed", old |-> i, list |-> list,
                       active |-> Active(list)])
  BY DEF RegenerateRead
<1> DEFINE list == UNION {Attached(id) : id \in FindPayment(i)}
           r == [pc |-> "listed", old |-> i, list |-> list, active |-> Active(list)]
<1>2. \A j, k \in FindPayment(i) : j = k
  BY DEF SInv, TablesInv, LiveInvoicesDiffer, FindPayment
<1>3. ASSUME list # {}
      PROVE  \E id \in DOMAIN payments : /\ list = billed[id] /\ list = Attached(id)
                                         /\ payments[id].invoice = i
  <2>1. PICK id \in FindPayment(i) : Attached(id) # {}
    BY <1>3
  <2>2. list = Attached(id)
    BY <1>2
  <2>3. id \in DOMAIN payments /\ payments[id].invoice = i
    BY DEF FindPayment
  <2> QED
    BY <2>1, <2>2, <2>3, AttachedIsBilled DEF SInv, TablesInv
<1>4. /\ AllOrNone(Active(list), list, exempt)
      /\ Active(list) # {} => PaidForAll(list)
  <2> SUFFICES ASSUME NEW p \in Active(list)
               PROVE  /\ p \notin exempt => Active(list) \ exempt = list \ exempt
                      /\ PaidForAll(list)
    BY DEF Active, AllOrNone
  <2>1. p \in list /\ participants[p].status = "ACTIVE"
    BY DEF Active
  <2>2. PICK id \in DOMAIN payments : list = billed[id] /\ list = Attached(id)
    BY <1>3, <2>1
  <2> HIDE DEF list
  <2>3. \A q \in list : q \in DOMAIN participants /\ participants[q].payment = id
    BY <2>2 DEF Attached
  <2>4. p \notin exempt => Active(list) \ exempt = list \ exempt
    BY <2>1, <2>3 DEF Active, SInv, TablesInv, OneStatus, Own
  <2>5. PICK k \in DOMAIN payments : IsPaid(k) /\ p \in billed[k]
    BY <2>1, <2>3 DEF SInv, TablesInv, ActiveWasPaid, PaidForAll
  <2>6. billed[k] = list
    BY <2>1, <2>2, <2>5 DEF SInv, TablesInv, BatchesAreWhole
  <2> QED
    BY <2>4, <2>5, <2>6 DEF PaidForAll
<1>5. GoodHolder(exempt, r)
  <2> HIDE DEF list
  <2> QED
    BY <1>3, <1>4 DEF GoodHolder
<1>6. SetReq(s, r) /\ Rest /\ UNCHANGED money
  BY <1>1 DEF RegenerateRead
<1> HIDE DEF r
<1> QED
  BY <1>5, <1>6, HolderStep

LEMMA RegenerateBeginHolds ==
  ASSUME NEW exempt, SInv(exempt), IInv', NEW s \in Slots, RegenerateBegin(s)
  PROVE  SInv(exempt)'
<1>1. CASE SetReq(s, Idle)
  BY <1>1, IdleHoldsNothing, HolderStep DEF RegenerateBegin
<1>2. ASSUME NEW id \in FindPayment(req[s].old),
             SetReq(s, [pc |-> "begun", id |-> id, list |-> req[s].list,
                        active |-> req[s].active,
                        snapshot |-> Active(req[s].list)])
      PROVE  SInv(exempt)'
  <2> DEFINE list == req[s].list
             r == [pc |-> "begun", id |-> id, list |-> list,
                   active |-> req[s].active, snapshot |-> Active(list)]
  <2>1. /\ HoldsBatch(s, exempt) /\ RenewsItsBatch(s) /\ Has(s, {"listed", "begun", "renewed"})
        /\ Has(s, {"listed"})
    BY DEF SInv, HandlersInv, RegenerateBegin, Has
  <2>2. AllOrNone(Active(list), list, exempt)
    <3>1. \A p, q \in list : Own(p) = Own(q)
      BY <2>1 DEF HoldsBatch, SInv, TablesInv, BatchesAreWhole
    <3>2. list \subseteq DOMAIN participants
      BY <2>1 DEF SInv, IInv, RowsExist, Has
    <3> HIDE DEF list
    <3> QED
      BY <3>1, <3>2 DEF Active, AllOrNone, SInv, TablesInv, OneStatus, Own
  <2>3. InvoicesDiffer /\ list # {} => billed[id] = list
    BY <2>1 DEF RenewsItsBatch, InvoicesDiffer, FindPayment
  <2>4. GoodHolder(exempt, r)
    BY <2>1, <2>2, <2>3 DEF GoodHolder, HoldsBatch
  <2>5. SetReq(s, r) /\ Rest /\ UNCHANGED money
    BY <1>2 DEF RegenerateBegin
  <2> HIDE DEF r
  <2> QED
    BY <2>4, <2>5, HolderStep
<1> QED
  BY <1>1, <1>2 DEF RegenerateBegin

LEMMA RegenerateInvoiceHolds ==
  ASSUME NEW exempt, SInv(exempt), IInv', NEW s \in Slots, RegenerateInvoice(s)
  PROVE  SInv(exempt)'
<1>1. PICK i \in GenerateInvoiceNumber :
        SetReq(s, [pc |-> "renewed", id |-> req[s].id, list |-> req[s].list,
                   active |-> req[s].active, snapshot |-> req[s].snapshot,
                   invoice |-> i])
  BY DEF RegenerateInvoice
<1> DEFINE r == [pc |-> "renewed", id |-> req[s].id, list |-> req[s].list,
                 active |-> req[s].active, snapshot |-> req[s].snapshot,
                 invoice |-> i]
<1>2. /\ HoldsBatch(s, exempt) /\ RenewsItsBatch(s) /\ Has(s, {"listed", "begun", "renewed"})
      /\ Has(s, {"begun", "renewed"})
  BY DEF SInv, HandlersInv, RegenerateInvoice, Has
<1>3. GoodHolder(exempt, r)
  BY <1>2 DEF GoodHolder, HoldsBatch, RenewsItsBatch
<1>4. SetReq(s, r) /\ Rest /\ UNCHANGED money
  BY <1>1 DEF RegenerateInvoice
<1> HIDE DEF r
<1> QED
  BY <1>3, <1>4, HolderStep

LEMMA PaidLockHolds ==
  ASSUME NEW exempt, SInv(exempt), IInv', NEW s \in Slots, NEW i \in Invoices, PaidLock(s, i)
  PROVE  SInv(exempt)'
<1>1. PICK id \in DOMAIN payments :
        PaidRead(s, i, id) /\ SetReq(s, [pc |-> "locked", id |-> id])
  BY DEF PaidLock
<1>2. GoodHolder(exempt, [pc |-> "locked", id |-> id])
  BY <1>1 DEF GoodHolder, PaidRead, FindPayment
<1> QED
  BY <1>1, <1>2, HolderStep DEF PaidLock

LEMMA QuietHolds ==
  ASSUME NEW exempt, SInv(exempt), IInv', NEW s, NEW i,
         \/ CreateRollback(s) \/ RegenerateRollback(s)
         \/ PaidUnknown(i) \/ PaidAgain(s, i) \/ PaidEmit(s) \/ CustomerPays(i)
         \/ RequestFails(s) \/ WebhookFails(s) \/ Crash
  PROVE  SInv(exempt)'
<1>1. UNCHANGED <<participants, payments, billed>>
  BY DEF CreateRollback, RegenerateRollback, PaidUnknown, PaidAgain, PaidEmit,
         CustomerPays, RequestFails, WebhookFails, Crash, Rest
<1>2. money \subseteq money'
  BY DEF CreateRollback, RegenerateRollback, PaidUnknown, PaidAgain, PaidEmit,
         CustomerPays, RequestFails, WebhookFails, Crash
<1>3. ASSUME NEW t \in Slots
      PROVE  req'[t] = req[t] \/ req'[t].pc \in {"idle", "committed"}
  <2>1. req \in [Slots -> Request]
    BY DEF SInv, IInv, TypeOK
  <2>2. CASE CreateRollback(s) \/ RegenerateRollback(s) \/ PaidEmit(s)
             \/ RequestFails(s) \/ WebhookFails(s)
    <3>1. req' = [req EXCEPT ![s] = Idle]
      BY <2>2 DEF CreateRollback, RegenerateRollback, PaidEmit, RequestFails,
                  WebhookFails, SetReq
    <3> QED
      BY <2>1, <3>1 DEF Idle
  <2>3. CASE PaidUnknown(i) \/ PaidAgain(s, i) \/ CustomerPays(i)
    BY <2>3 DEF PaidUnknown, PaidAgain, CustomerPays
  <2>4. CASE Crash
    BY <2>4 DEF Crash, Idle
  <2> QED
    BY <2>2, <2>3, <2>4
<1> QED
  BY <1>1, <1>2, <1>3, QuietStep

-----------------------------------------------------------------------------
(* The steps that change the tables. *)

(* What the commit of a webhook does to each row. *)
LEMMA PaidCommitEffect ==
  ASSUME NEW exempt, SInv(exempt), NEW s \in Slots, PaidCommit(s)
  PROVE  /\ req[s].id \in DOMAIN payments
         /\ payments[req[s].id].status = "PENDING" /\ payments[req[s].id].live
         /\ payments[req[s].id].invoice \in money
         /\ DOMAIN payments' = DOMAIN payments
         /\ payments'[req[s].id] = [payments[req[s].id] EXCEPT !.status = "PAID"]
         /\ \A k \in DOMAIN payments \ {req[s].id} : payments'[k] = payments[k]
         /\ DOMAIN participants' = DOMAIN participants
         /\ \A p \in DOMAIN participants :
              /\ Own(p)' = Own(p)
              /\ participants'[p].status =
                   IF Own(p) = req[s].id THEN "ACTIVE" ELSE participants[p].status
         /\ UNCHANGED <<billed, money>>
<1> DEFINE id == req[s].id
<1>1. Has(s, {"locked"}) /\ Has(s, {"begun", "renewed", "locked", "committed"})
  BY DEF PaidCommit, Has
<1>2. /\ id \in DOMAIN payments /\ payments[id].status = "PENDING"
      /\ payments[id].live /\ payments[id].invoice \in money
  BY <1>1 DEF SInv, IInv, RowsExist, SettledByOne, HandlersInv, HoldsBatch
<1>3. /\ payments' = [payments EXCEPT ![id].status = "PAID"]
      /\ participants' = Activated(id) /\ UNCHANGED <<billed, money>>
  BY DEF PaidCommit
<1>4. /\ DOMAIN payments' = DOMAIN payments
      /\ payments'[id] = [payments[id] EXCEPT !.status = "PAID"]
      /\ \A k \in DOMAIN payments \ {id} : payments'[k] = payments[k]
  BY <1>2, <1>3 DEF SInv, IInv, TypeOK
<1>5. \A p \in DOMAIN participants : participants[p] \in Participant
  BY RowsAreNat DEF SInv, IInv
<1>6. /\ DOMAIN participants' = DOMAIN participants
      /\ \A p \in DOMAIN participants :
           /\ Own(p)' = Own(p)
           /\ participants'[p].status =
                IF Own(p) = id THEN "ACTIVE" ELSE participants[p].status
  BY <1>3, <1>5 DEF Activated, Attached, Own, Participant
<1> QED
  BY <1>2, <1>3, <1>4, <1>6

LEMMA PaidCommitHolds ==
  ASSUME NEW exempt, SInv(exempt), IInv', NEW s \in Slots, PaidCommit(s)
  PROVE  SInv(exempt)'
<1> DEFINE id == req[s].id
<1>0. \A k \in DOMAIN payments : payments[k] \in Payment
  BY RowsAreNat DEF SInv, IInv
<1>1. /\ id \in DOMAIN payments
      /\ payments[id].status = "PENDING" /\ payments[id].live
      /\ payments[id].invoice \in money
      /\ DOMAIN payments' = DOMAIN payments
      /\ payments'[id] = [payments[id] EXCEPT !.status = "PAID"]
      /\ \A k \in DOMAIN payments \ {id} : payments'[k] = payments[k]
      /\ DOMAIN participants' = DOMAIN participants
      /\ \A p \in DOMAIN participants :
           /\ Own(p)' = Own(p)
           /\ participants'[p].status =
                IF Own(p) = id THEN "ACTIVE" ELSE participants[p].status
      /\ UNCHANGED <<billed, money>>
  BY PaidCommitEffect
<1>2. payments'[id].status = "PAID"
  BY <1>0, <1>1 DEF Payment
<1>3. \A k \in DOMAIN payments :
        /\ payments'[k].live = payments[k].live
        /\ payments'[k].invoice = payments[k].invoice
        /\ payments'[k].amount = payments[k].amount
        /\ payments'[k].participant_amounts = payments[k].participant_amounts
        /\ payments'[k].status = IF k = id THEN "PAID" ELSE payments[k].status
  BY <1>0, <1>1 DEF Payment
<1> HIDE DEF id
<1>4. TablesInv(exempt)
  BY DEF SInv
<1>5. Grows
  BY <1>1, <1>3 DEF Grows
<1>6. BatchesAreWhole'
  BY <1>1, <1>3, <1>4 DEF TablesInv, BatchesAreWhole
<1>7. LiveInvoicesDiffer' /\ AmountIsPrice'
  BY <1>1, <1>3, <1>4 DEF TablesInv, LiveInvoicesDiffer, AmountIsPrice, InvoicesDiffer
<1>8. OneStatus(exempt)'
  BY <1>1, <1>4 DEF TablesInv, OneStatus, Own
<1>9. PaidOnesActive(exempt)'
  <2> SUFFICES ASSUME NEW p \in DOMAIN participants
               PROVE  /\ payments'[Own(p)].live
                      /\ p \notin exempt /\ payments'[Own(p)].status = "PAID" =>
                           participants'[p].status = "ACTIVE"
    BY <1>1 DEF PaidOnesActive, Own
  <2>1. Own(p) \in DOMAIN payments
    BY <1>4 DEF TablesInv, BatchesAreWhole
  <2> QED
    BY <1>1, <1>3, <1>4, <2>1 DEF TablesInv, PaidOnesActive, Own
<1>10. ActiveWasPaid'
  <2> SUFFICES ASSUME NEW p \in DOMAIN participants, participants'[p].status = "ACTIVE"
               PROVE  PaidForAll({p})'
    BY <1>1 DEF ActiveWasPaid
  <2>1. CASE Own(p) = id
    <3>1. p \in billed[id] /\ id \in DOMAIN payments
      BY <1>1, <1>4, <2>1 DEF TablesInv, BatchesAreWhole
    <3> QED
      BY <1>1, <1>2, <3>1 DEF PaidForAll, IsPaid
  <2>2. CASE Own(p) # id
    <3>1. PaidForAll({p})
      BY <1>1, <1>4, <2>2 DEF TablesInv, ActiveWasPaid
    <3> QED
      BY <1>5, <3>1, PaidStays
  <2> QED
    BY <2>1, <2>2
<1>11. PaidHasMoney'
  BY <1>1, <1>3, <1>4 DEF TablesInv, PaidHasMoney, IsPaid
<1>12. HandlersInv(exempt)'
  <2> SUFFICES ASSUME NEW t \in Slots PROVE HoldsBatch(t, exempt)' /\ RenewsItsBatch(t)'
    BY DEF HandlersInv
  <2>1. req'[s].pc = "committed" /\ \A u \in Slots \ {s} : req'[u] = req[u]
    BY DEF PaidCommit, SetReq, SInv, IInv, TypeOK
  <2>2. CASE t = s
    BY <2>1, <2>2 DEF HoldsBatch, RenewsItsBatch, Has
  <2>3. CASE t # s
    <3>1. HoldsBatch(t, exempt) /\ RenewsItsBatch(t) /\ req'[t] = req[t]
      BY <2>1, <2>3 DEF SInv, HandlersInv
    <3>2. Has(t, {"locked"}) => req[t].id \in DOMAIN payments
      BY DEF SInv, IInv, RowsExist, Has
    <3>3. Has(t, {"locked"}) => payments'[req[t].id].live
      BY <1>3, <3>1, <3>2 DEF HoldsBatch
    <3> QED
      BY <1>5, <3>1, <3>3, HandlerKeeps DEF SInv
  <2> QED
    BY <2>2, <2>3
<1> QED
  BY <1>6, <1>7, <1>8, <1>9, <1>10, <1>11, <1>12 DEF SInv, TablesInv

(* What both commits do: a new payment takes over the batch new, which is of
   new participants or a whole one, and the payments in dead, which keep
   nobody, are deleted.                                                    *)
New == Len(payments) + 1

InsertsBatch(s, new, dead, exempt) ==
  /\ DOMAIN payments' = DOMAIN payments \cup {New}
  /\ New \notin DOMAIN payments
  /\ \A id \in DOMAIN payments :
       /\ payments'[id].invoice = payments[id].invoice
       /\ payments'[id].status = payments[id].status
       /\ payments'[id].amount = payments[id].amount
       /\ payments'[id].participant_amounts = payments[id].participant_amounts
       /\ payments'[id].live <=> payments[id].live /\ id \notin dead
       /\ billed'[id] = billed[id]
       /\ billed[id] \cap new = {} \/ billed[id] = new
  /\ payments'[New].live /\ payments'[New].status = "PENDING"
  /\ FindPayment(payments'[New].invoice) = {}
  /\ payments'[New].participant_amounts = Cardinality(new)
  /\ InvoicesDiffer' /\ new # {} =>
       payments'[New].amount = GetPrice(Cardinality(new), RegisterPrice, EventSetting)
  /\ billed'[New] = new
  /\ DOMAIN participants' = DOMAIN participants \cup new
  /\ \A p \in new : Own(p)' = New
  /\ \A p, q \in new \ exempt : participants'[p].status = participants'[q].status
  /\ \A p \in new : participants'[p].status = "ACTIVE" => PaidForAll({p})
  /\ \A p \in DOMAIN participants \ new : participants'[p] = participants[p]
  /\ \A id \in dead : Attached(id) \subseteq new
  /\ req'[s] = Idle
  /\ \A t \in Slots \ {s} :
       /\ req'[t] = req[t]
       /\ Has(t, {"locked"}) => req[t].id \notin dead
  /\ UNCHANGED money

LEMMA InsertHolds ==
  ASSUME NEW exempt, SInv(exempt), IInv', NEW s \in Slots, NEW new, NEW dead,
         InsertsBatch(s, new, dead, exempt)
  PROVE  SInv(exempt)'
<1>1. TablesInv(exempt)
  BY DEF SInv
<1>2. Grows
  BY DEF InsertsBatch, Grows
<1>3. \A p \in DOMAIN participants \ new : Own(p)' = Own(p) /\ Own(p) \in DOMAIN payments
  BY <1>1 DEF InsertsBatch, Own, TablesInv, BatchesAreWhole
<1>4. BatchesAreWhole'
  <2>1. ASSUME NEW p \in DOMAIN participants'
        PROVE  Own(p)' \in DOMAIN payments' /\ p \in billed'[Own(p)']
    <3>1. CASE p \in new
      BY <3>1 DEF InsertsBatch
    <3>2. CASE p \in DOMAIN participants \ new
      BY <1>1, <1>3, <3>2 DEF InsertsBatch, TablesInv, BatchesAreWhole
    <3> QED
      BY <3>1, <3>2 DEF InsertsBatch
  <2>2. ASSUME NEW id \in DOMAIN payments'
        PROVE  /\ billed'[id] \subseteq DOMAIN participants'
               /\ payments'[id].participant_amounts = Cardinality(billed'[id])
               /\ \A p \in billed'[id] : billed'[Own(p)'] = billed'[id]
               /\ \A p, q \in billed'[id] : Own(p)' = Own(q)'
    <3>1. CASE id = New
      BY <3>1 DEF InsertsBatch
    <3>2. CASE id \in DOMAIN payments
      <4>1. /\ billed'[id] = billed[id] /\ billed[id] \subseteq DOMAIN participants
            /\ payments'[id].participant_amounts = Cardinality(billed[id])
        BY <1>1, <3>2 DEF InsertsBatch, TablesInv, BatchesAreWhole
      <4>2. DOMAIN participants \subseteq DOMAIN participants'
        BY DEF InsertsBatch
      <4>3. CASE billed[id] = new
        BY <4>1, <4>2, <4>3 DEF InsertsBatch
      <4>4. CASE billed[id] \cap new = {}
        <5>1. \A p \in billed[id] : Own(p)' = Own(p) /\ Own(p) \in DOMAIN payments
          BY <1>3, <4>1, <4>4
        <5>2. \A p \in billed[id] : billed'[Own(p)] = billed[id]
          BY <1>1, <3>2, <5>1 DEF InsertsBatch, TablesInv, BatchesAreWhole
        <5>3. \A p, q \in billed[id] : Own(p) = Own(q)
          BY <1>1, <3>2 DEF TablesInv, BatchesAreWhole
        <5> QED
          BY <4>1, <4>2, <5>1, <5>2, <5>3
      <4> QED
        BY <3>2, <4>3, <4>4 DEF InsertsBatch
    <3> QED
      BY <3>1, <3>2 DEF InsertsBatch
  <2> QED
    BY <2>1, <2>2 DEF BatchesAreWhole
<1>5. LiveInvoicesDiffer'
  BY <1>1 DEF InsertsBatch, TablesInv, LiveInvoicesDiffer, FindPayment
<1>6. OneStatus(exempt)'
  <2> SUFFICES ASSUME NEW p \in DOMAIN participants' \ exempt,
                      NEW q \in DOMAIN participants' \ exempt,
                      Own(p)' = Own(q)'
               PROVE  participants'[p].status = participants'[q].status
    BY DEF OneStatus, Own
  <2>1. CASE p \in new /\ q \in new
    BY <2>1 DEF InsertsBatch
  <2>2. CASE p \notin new /\ q \notin new
    <3>1. Own(p) = Own(q) /\ p \in DOMAIN participants /\ q \in DOMAIN participants
      BY <1>3, <2>2 DEF InsertsBatch
    <3>2. participants[p].status = participants[q].status
      BY <1>1, <3>1 DEF TablesInv, OneStatus, Own
    <3> QED
      BY <2>2, <3>1, <3>2 DEF InsertsBatch
  <2>3. CASE (p \in new) # (q \in new)
    BY <1>3, <2>3 DEF InsertsBatch
  <2> QED
    BY <2>1, <2>2, <2>3
<1>7. PaidOnesActive(exempt)'
  <2> SUFFICES ASSUME NEW p \in DOMAIN participants'
               PROVE  /\ payments'[Own(p)'].live
                      /\ p \notin exempt /\ payments'[Own(p)'].status = "PAID" =>
                           participants'[p].status = "ACTIVE"
    BY DEF PaidOnesActive, Own
  <2>1. CASE p \in new
    BY <2>1 DEF InsertsBatch
  <2>2. CASE p \in DOMAIN participants \ new
    <3>1. Own(p) \notin dead
      BY <2>2 DEF InsertsBatch, Attached, Own
    <3>2. /\ payments[Own(p)].live
          /\ p \notin exempt /\ payments[Own(p)].status = "PAID" =>
               participants[p].status = "ACTIVE"
      BY <1>1, <2>2 DEF TablesInv, PaidOnesActive, Own
    <3> QED
      BY <1>3, <2>2, <3>1, <3>2 DEF InsertsBatch
  <2> QED
    BY <2>1, <2>2 DEF InsertsBatch
<1>8. ActiveWasPaid'
  <2> SUFFICES ASSUME NEW p \in DOMAIN participants', participants'[p].status = "ACTIVE"
               PROVE  PaidForAll({p})'
    BY DEF ActiveWasPaid
  <2>1. PaidForAll({p})
    BY <1>1 DEF InsertsBatch, TablesInv, ActiveWasPaid
  <2> QED
    BY <1>2, <2>1, PaidStays
<1>9. PaidHasMoney'
  BY <1>1 DEF InsertsBatch, TablesInv, PaidHasMoney, IsPaid
<1>10. AmountIsPrice'
  <2>1. InvoicesDiffer' => InvoicesDiffer
    BY DEF InsertsBatch, InvoicesDiffer
  <2> QED
    BY <1>1, <2>1 DEF InsertsBatch, TablesInv, AmountIsPrice
<1>11. HandlersInv(exempt)'
  <2> SUFFICES ASSUME NEW t \in Slots PROVE HoldsBatch(t, exempt)' /\ RenewsItsBatch(t)'
    BY DEF HandlersInv
  <2>1. CASE t = s
    BY <2>1 DEF InsertsBatch, HoldsBatch, RenewsItsBatch, Has, Idle
  <2>2. CASE t # s
    <3>1. HoldsBatch(t, exempt) /\ RenewsItsBatch(t) /\ req'[t] = req[t]
      BY <2>2 DEF InsertsBatch, SInv, HandlersInv
    <3>2. Has(t, {"locked"}) => req[t].id \in DOMAIN payments
      BY DEF SInv, IInv, RowsExist, Has
    <3>3. Has(t, {"locked"}) => payments'[req[t].id].live
      BY <2>2, <3>1, <3>2 DEF InsertsBatch, HoldsBatch
    <3> QED
      BY <1>2, <3>1, <3>3, HandlerKeeps DEF SInv
  <2> QED
    BY <2>1, <2>2
<1> QED
  BY <1>4, <1>5, <1>6, <1>7, <1>8, <1>9, <1>10, <1>11 DEF SInv, TablesInv

LEMMA IntervalCardinality ==
  ASSUME NEW m \in Nat, NEW n \in Nat
  PROVE  Cardinality(m + 1 .. m + n) = n
BY FS_Interval

LEMMA CreateInserts ==
  ASSUME NEW exempt, SInv(exempt), NEW s \in Slots, CreateCommit(s)
  PROVE  /\ InsertsBatch(s, Len(participants) + 1 .. Len(participants) + req[s].n, {},
                          exempt)
         /\ \A p \in Len(participants) + 1 .. Len(participants) + req[s].n :
              participants'[p].status = "PENDING"
         /\ req[s].n \in 0..MaxBatch /\ req[s].n \in Nat
<1> DEFINE r == req[s]
           len == Len(participants)
           all == len + r.n
           new == len + 1 .. all
           amount == GetPrice(r.n, RegisterPrice, EventSetting)
           pay == [invoice |-> r.invoice, status |-> "PENDING", live |-> TRUE,
                   participant_amounts |-> r.n, amount |-> amount]
<1>0. TypeOK /\ TablesInv(exempt) /\ Lengths
  BY DEF SInv, IInv
<1>1. /\ Has(s, {"counted"}) /\ Has(s, {"priced", "counted"}) /\ r.n \in Nat
  BY <1>0, RequestFields DEF CreateCommit, Has
<1>2. r.n \in 0..MaxBatch
  BY <1>1 DEF SInv, HandlersInv, HoldsBatch
<1>3. /\ DOMAIN participants = 1..len /\ len \in Nat
      /\ DOMAIN payments = 1..Len(payments) /\ Len(payments) \in Nat
  BY <1>0, RowsAreNat
<1>4. Cardinality(new) = r.n
  BY <1>1, <1>3, IntervalCardinality
<1>5. /\ payments' = Append(payments, pay)
      /\ participants' = [p \in 1..all |-> IF p <= len THEN participants[p]
                                           ELSE NewParticipant(r, p)]
      /\ billed' = Append(billed, new)
      /\ SetReq(s, Idle) /\ UNCHANGED money /\ FindPayment(r.invoice) = {}
  BY DEF CreateCommit, InsertPayment, CreateFails
<1> HIDE DEF pay
<1>6. /\ DOMAIN payments' = 1..New /\ payments'[New] = pay
      /\ \A id \in DOMAIN payments : payments'[id] = payments[id]
  <2>1. payments \in Seq(Payment)
    BY <1>0 DEF TypeOK
  <2> QED
    BY <1>3, <1>5, <2>1 DEF New
<1>7. /\ billed'[New] = new
      /\ \A id \in DOMAIN payments : billed'[id] = billed[id]
  <2>1. billed \in Seq(SUBSET Nat) /\ Len(billed) = Len(payments)
    BY <1>0 DEF TypeOK, Lengths
  <2> QED
    BY <1>3, <1>5, <2>1 DEF New
<1>8. /\ DOMAIN participants' = DOMAIN participants \cup new
      /\ \A p \in DOMAIN participants : p \notin new /\ participants'[p] = participants[p]
  BY <1>1, <1>3, <1>5
<1>9. \A p \in new : participants'[p].status = "PENDING" /\ Own(p)' = New
  <2>1. \A p \in new : participants'[p] = NewParticipant(r, p)
    BY <1>1, <1>3, <1>5
  <2> HIDE DEF new, r
  <2>2. \A p : /\ NewParticipant(r, p).status = "PENDING"
               /\ NewParticipant(r, p).payment = New
    BY DEF NewParticipant, New
  <2> QED
    BY <2>1, <2>2 DEF Own
<1>10. \A id \in DOMAIN payments : billed[id] \cap new = {}
  BY <1>0, <1>8 DEF TablesInv, BatchesAreWhole
<1>11. /\ pay.invoice = r.invoice /\ pay.live /\ pay.status = "PENDING"
       /\ pay.participant_amounts = Cardinality(new)
       /\ pay.amount = GetPrice(Cardinality(new), RegisterPrice, EventSetting)
  BY <1>4 DEF pay
<1>12. req'[s] = Idle /\ \A t \in Slots \ {s} : req'[t] = req[t]
  BY <1>0, <1>5 DEF TypeOK, SetReq
<1>13. DOMAIN payments' = DOMAIN payments \cup {New} /\ New \notin DOMAIN payments
  BY <1>3, <1>6 DEF New
<1> HIDE DEF new, amount
<1>14. InsertsBatch(s, new, {}, exempt)
  BY <1>5, <1>6, <1>7, <1>8, <1>9, <1>10, <1>11, <1>12, <1>13 DEF InsertsBatch
<1> USE DEF new
<1> QED
  BY <1>1, <1>2, <1>9, <1>14

(* What save writes back of a listed batch, it writes of all of it. *)
LEMMA SavedTogether ==
  ASSUME NEW exempt, SInv(exempt), NEW s \in Slots, Has(s, {"renewed"})
  PROVE  LET rest == req[s].list \ exempt
         IN  \/ \A p \in rest : SavedStatus(req[s], p) = participants[p].status
             \/ \A p \in rest : SavedStatus(req[s], p) = "PENDING"
             \/ /\ \A p \in rest : SavedStatus(req[s], p) = "ACTIVE"
                /\ PaidForAll(req[s].list)
<1> DEFINE rest == req[s].list \ exempt
           active == req[s].active \ exempt
           snapshot == req[s].snapshot \ exempt
<1>1. /\ active \in {{}, rest} /\ snapshot \in {{}, rest}
      /\ active # {} => PaidForAll(req[s].list)
  BY DEF SInv, HandlersInv, HoldsBatch, Has, AllOrNone
<1>2. \A p \in rest : /\ p \in req[s].active <=> p \in active
                      /\ p \in req[s].snapshot <=> p \in snapshot
  OBVIOUS
<1> HIDE DEF rest, active, snapshot
<1>3. CASE active = snapshot
  <2>1. \A p \in rest : SavedStatus(req[s], p) = participants[p].status
    BY <1>2, <1>3 DEF SavedStatus
  <2> QED
    BY <2>1 DEF rest
<1>4. CASE active # snapshot /\ active = {}
  <2>1. \A p \in rest : SavedStatus(req[s], p) = "PENDING"
    BY <1>1, <1>2, <1>4 DEF SavedStatus
  <2> QED
    BY <2>1 DEF rest
<1>5. CASE active # snapshot /\ active # {}
  <2>1. \A p \in rest : SavedStatus(req[s], p) = "ACTIVE"
    BY <1>1, <1>2, <1>5 DEF SavedStatus
  <2> QED
    BY <1>1, <1>5, <2>1 DEF rest
<1> QED
  BY <1>3, <1>4, <1>5

(* ... and ACTIVE, also of an exempt one, only if it was paid for. *)
LEMMA SavedWasPaid ==
  ASSUME NEW exempt, SInv(exempt), NEW s \in Slots, Has(s, {"renewed"}),
         NEW p \in req[s].list, SavedStatus(req[s], p) = "ACTIVE"
  PROVE  PaidForAll({p})
<1>1. p \in DOMAIN participants
  BY DEF SInv, IInv, RowsExist, Has
<1>2. CASE p \in req[s].active
  <2>1. PaidForAll(req[s].list)
    BY <1>2 DEF SInv, HandlersInv, HoldsBatch, Has
  <2> QED
    BY <2>1 DEF PaidForAll
<1>3. CASE p \notin req[s].active
  <2>1. participants[p].status = "ACTIVE"
    BY <1>3 DEF SavedStatus
  <2> QED
    BY <1>1, <2>1 DEF SInv, TablesInv, ActiveWasPaid
<1> QED
  BY <1>2, <1>3

LEMMA RegenerateInserts ==
  ASSUME NEW exempt, SInv(exempt), NEW s \in Slots, RegenerateCommit(s)
  PROVE  /\ InsertsBatch(s, req[s].list, {req[s].id}, exempt)
         /\ req[s].id \in DOMAIN payments /\ req[s].list \subseteq DOMAIN participants
         /\ \A p \in req[s].list : participants'[p].status = SavedStatus(req[s], p)
<1> DEFINE r == req[s]
           new == r.list
           amount == payments[r.id].amount
           pay == [invoice |-> r.invoice, status |-> "PENDING", live |-> TRUE,
                   participant_amounts |-> Cardinality(new), amount |-> amount]
           inserted == Append(payments, pay)
<1>0. TypeOK /\ TablesInv(exempt) /\ Lengths
  BY DEF SInv, IInv
<1>1. /\ Has(s, {"renewed"}) /\ Has(s, {"begun", "renewed"})
      /\ r.id \in DOMAIN payments /\ new \subseteq DOMAIN participants
  BY DEF RegenerateCommit, SInv, IInv, RowsExist, Has
<1>2. HoldsBatch(s, exempt) /\ RenewsItsBatch(s)
  BY DEF SInv, HandlersInv
<1>3. /\ DOMAIN participants = 1..Len(participants)
      /\ DOMAIN payments = 1..Len(payments) /\ Len(payments) \in Nat
      /\ \A p \in DOMAIN participants : participants[p] \in Participant
      /\ \A id \in DOMAIN payments : payments[id] \in Payment
  BY <1>0, RowsAreNat
<1>4. /\ payments' = [inserted EXCEPT ![r.id].live = FALSE]
      /\ participants' = MoveParticipants(r)
      /\ billed' = Append(billed, new)
      /\ SetReq(s, Idle) /\ UNCHANGED money
      /\ FindPayment(r.invoice) = {} /\ Attached(r.id) \subseteq new
      /\ Unlocked(s, new, {r.id})
  BY DEF RegenerateCommit, InsertPayment, RegenerateFails
<1>5. /\ pay.invoice = r.invoice /\ pay.live /\ pay.status = "PENDING"
      /\ pay.participant_amounts = Cardinality(new) /\ pay.amount = amount
  OBVIOUS
<1> HIDE DEF pay
<1>6. /\ DOMAIN inserted = 1..New /\ inserted[New] = pay
      /\ \A id \in DOMAIN payments : inserted[id] = payments[id]
  <2>1. payments \in Seq(Payment)
    BY <1>0 DEF TypeOK
  <2> QED
    BY <1>3, <2>1 DEF New
<1> HIDE DEF inserted
<1>7. /\ DOMAIN payments' = DOMAIN payments \cup {New} /\ New \notin DOMAIN payments
      /\ payments'[New] = pay
  BY <1>1, <1>3, <1>4, <1>6 DEF New
<1>8. \A id \in DOMAIN payments :
        /\ payments'[id].invoice = payments[id].invoice
        /\ payments'[id].status = payments[id].status
        /\ payments'[id].amount = payments[id].amount
        /\ payments'[id].participant_amounts = payments[id].participant_amounts
        /\ payments'[id].live <=> payments[id].live /\ id # r.id
  <2> SUFFICES ASSUME NEW id \in DOMAIN payments
               PROVE  /\ payments'[id].invoice = payments[id].invoice
                      /\ payments'[id].status = payments[id].status
                      /\ payments'[id].amount = payments[id].amount
                      /\ payments'[id].participant_amounts = payments[id].participant_amounts
                      /\ payments'[id].live <=> payments[id].live /\ id # r.id
    OBVIOUS
  <2>1. payments'[id] = IF id = r.id THEN [payments[id] EXCEPT !.live = FALSE]
                                     ELSE payments[id]
    <3>1. id \in DOMAIN inserted /\ inserted[id] = payments[id]
      BY <1>3, <1>6 DEF New
    <3>2. payments'[id] = IF id = r.id THEN [inserted[id] EXCEPT !.live = FALSE]
                                       ELSE inserted[id]
      BY <1>4, <3>1
    <3> QED
      BY <3>1, <3>2
  <2> QED
    BY <1>3, <2>1 DEF Payment
<1>9. /\ billed'[New] = new
      /\ \A id \in DOMAIN payments : billed'[id] = billed[id]
  <2>1. billed \in Seq(SUBSET Nat) /\ Len(billed) = Len(payments)
    BY <1>0 DEF TypeOK, Lengths
  <2>2. new \in SUBSET Nat
    BY <1>1, <1>3
  <2> QED
    BY <1>3, <1>4, <2>1, <2>2 DEF New
<1>10. /\ DOMAIN participants' = DOMAIN participants
       /\ \A p \in DOMAIN participants \ new : participants'[p] = participants[p]
       /\ \A p \in new : Own(p)' = New /\ participants'[p].status = SavedStatus(r, p)
  <2>1. \A p \in new : participants'[p] = [participants[p] EXCEPT
                           !.payment = New, !.status = SavedStatus(r, p)]
    BY <1>1, <1>4 DEF MoveParticipants, New
  <2> QED
    BY <1>1, <1>3, <1>4, <2>1 DEF MoveParticipants, Own, Participant
<1>11. \A id \in DOMAIN payments : billed[id] \cap new = {} \/ billed[id] = new
  <2> SUFFICES ASSUME NEW id \in DOMAIN payments, NEW p \in billed[id] \cap new
               PROVE  billed[id] = new
    OBVIOUS
  <2>1. PICK k \in DOMAIN payments : new = billed[k]
    BY <1>1, <1>2 DEF HoldsBatch, Has
  <2> HIDE DEF new
  <2> QED
    BY <1>0, <2>1 DEF TablesInv, BatchesAreWhole
<1>12. \A p, q \in new \ exempt : participants[p].status = participants[q].status
  <2>1. \A p, q \in new : Own(p) = Own(q)
    BY <1>0, <1>1, <1>2 DEF HoldsBatch, Has, TablesInv, BatchesAreWhole
  <2> HIDE DEF new
  <2> QED
    BY <1>0, <1>1, <2>1 DEF TablesInv, OneStatus
<1>13. /\ \A p, q \in new \ exempt : SavedStatus(r, p) = SavedStatus(r, q)
       /\ \A p \in new : SavedStatus(r, p) = "ACTIVE" => PaidForAll({p})
  BY <1>1, <1>12, SavedTogether, SavedWasPaid
<1>14. InvoicesDiffer' /\ new # {} =>
         amount = GetPrice(Cardinality(new), RegisterPrice, EventSetting)
  <2>1. InvoicesDiffer' => InvoicesDiffer
    BY <1>7, <1>8 DEF InvoicesDiffer
  <2>2. InvoicesDiffer /\ new # {} => billed[r.id] = new
    BY <1>1, <1>2 DEF RenewsItsBatch
  <2> QED
    BY <1>0, <1>1, <2>1, <2>2 DEF TablesInv, AmountIsPrice
<1>15. /\ req'[s] = Idle
       /\ \A t \in Slots \ {s} :
            /\ req'[t] = req[t]
            /\ Has(t, {"locked"}) => req[t].id # r.id
  BY <1>0, <1>4 DEF TypeOK, SetReq, Unlocked, LockedPayments, Has
<1> HIDE DEF new, amount
<1>16. InsertsBatch(s, new, {r.id}, exempt)
  <2>1. \A id \in DOMAIN payments :
          /\ payments'[id].live <=> payments[id].live /\ id \notin {r.id}
          /\ billed'[id] = billed[id]
          /\ billed[id] \cap new = {} \/ billed[id] = new
    BY <1>8, <1>9, <1>11
  <2>2. /\ payments'[New].live /\ payments'[New].status = "PENDING"
        /\ FindPayment(payments'[New].invoice) = {}
        /\ payments'[New].participant_amounts = Cardinality(new)
        /\ InvoicesDiffer' /\ new # {} =>
             payments'[New].amount =
               GetPrice(Cardinality(new), RegisterPrice, EventSetting)
    BY <1>4, <1>5, <1>7, <1>14
  <2>3. /\ DOMAIN participants' = DOMAIN participants \cup new
        /\ \A p, q \in new \ exempt : participants'[p].status = participants'[q].status
        /\ \A p \in new : participants'[p].status = "ACTIVE" => PaidForAll({p})
    BY <1>1, <1>10, <1>13
  <2>4. /\ \A id \in {r.id} : Attached(id) \subseteq new
        /\ \A t \in Slots \ {s} : /\ req'[t] = req[t]
                                  /\ Has(t, {"locked"}) => req[t].id \notin {r.id}
    BY <1>4, <1>15
  <2> HIDE DEF r
  <2> QED
    BY <1>4, <1>7, <1>8, <1>9, <1>10, <1>15, <2>1, <2>2, <2>3, <2>4 DEF InsertsBatch
<1> USE DEF new
<1> QED
  BY <1>1, <1>10, <1>16

LEMMA CommitHolds ==
  ASSUME NEW exempt, SInv(exempt), IInv', NEW s \in Slots, CreateCommit(s) \/ RegenerateCommit(s)
  PROVE  SInv(exempt)'
<1>1. CASE CreateCommit(s)
  BY <1>1, CreateInserts, InsertHolds
<1>2. CASE RegenerateCommit(s)
  BY <1>2, RegenerateInserts, InsertHolds
<1> QED
  BY <1>1, <1>2

-----------------------------------------------------------------------------
LEMMA InitSInv == ASSUME NEW exempt, Init PROVE SInv(exempt)
<1>1. DOMAIN participants = {} /\ DOMAIN payments = {}
  BY DEF Init
<1>2. TablesInv(exempt)
  BY <1>1 DEF TablesInv, BatchesAreWhole, LiveInvoicesDiffer, OneStatus,
              PaidOnesActive, ActiveWasPaid, PaidHasMoney, IsPaid, AmountIsPrice
<1>3. HandlersInv(exempt)
  BY DEF Init, HandlersInv, HoldsBatch, RenewsItsBatch, Has, Idle
<1> QED
  BY <1>2, <1>3, InitIInv DEF SInv

LEMMA NextSInv == ASSUME NEW exempt, SInv(exempt), [Next]_vars PROVE SInv(exempt)'
<1>0. IInv'
  BY NextIInv DEF SInv
<1>1. ASSUME NEW s \in Slots, Create(s) PROVE SInv(exempt)'
  <2>1. CASE CreateRollback(s)
    BY <1>0, <2>1, QuietHolds
  <2> QED
    BY <1>0, <1>1, <2>1, CreateHolds, CommitHolds DEF Create
<1>2. ASSUME NEW s \in Slots, Regenerate(s) PROVE SInv(exempt)'
  <2>1. CASE RegenerateRollback(s)
    BY <1>0, <2>1, QuietHolds
  <2> QED
    BY <1>0, <1>2, <2>1, RegenerateReadHolds, RegenerateBeginHolds,
       RegenerateInvoiceHolds, CommitHolds DEF Regenerate
<1>3. ASSUME NEW s \in Slots, Paid(s) PROVE SInv(exempt)'
  <2>1. CASE PaidEmit(s)
    BY <1>0, <2>1, QuietHolds
  <2> QED
    BY <1>0, <1>3, <2>1, QuietHolds, PaidLockHolds, PaidCommitHolds DEF Paid
<1>4. ASSUME NEW i \in Invoices, PaidUnknown(i) \/ CustomerPays(i) PROVE SInv(exempt)'
  BY <1>0, <1>4, QuietHolds
<1>5. ASSUME NEW s \in Slots, RequestFails(s) \/ WebhookFails(s) PROVE SInv(exempt)'
  BY <1>0, <1>5, QuietHolds
<1>6. CASE Crash
  BY <1>0, <1>6, QuietHolds
<1>7. CASE UNCHANGED vars
  BY <1>0, <1>7, QuietStep DEF vars
<1> QED
  BY <1>1, <1>2, <1>3, <1>4, <1>5, <1>6, <1>7 DEF Next

LEMMA SInvariance == Spec => []SInv({})
<1>1. Init => SInv({})
  BY InitSInv
<1>2. SInv({}) /\ [Next]_vars => SInv({})'
  BY NextSInv
<1> QED
  BY <1>1, <1>2, PTL DEF Spec

-----------------------------------------------------------------------------
(* All participants of a payment are ACTIVE or none is, also after a stale
   regeneration wrote back what it had read.                               *)
THEOREM BatchesHaveOneStatus == Spec => []BatchHasOneStatus
<1>1. SInv({}) => BatchHasOneStatus
  BY DEF SInv, TablesInv, OneStatus, BatchHasOneStatus, Own
<1> QED
  BY <1>1, SInvariance, PTL

(* Nobody is left on a deleted payment, nor PENDING on a PAID one. *)
THEOREM PaidOnesAreActive == Spec => []PaidMeansActive
<1>1. SInv({}) => PaidMeansActive
  BY DEF SInv, TablesInv, PaidOnesActive, PaidMeansActive, Own
<1> QED
  BY <1>1, SInvariance, PTL

(* Nobody is ACTIVE for whom no customer paid an invoice. *)
THEOREM ActiveOnesArePaidFor == Spec => []ActiveIsPaidFor
<1>1. SInv({}) => ActiveIsPaidFor
  BY DEF SInv, TablesInv, ActiveWasPaid, PaidHasMoney, PaidForAll, IsPaid,
         ActiveIsPaidFor
<1> QED
  BY <1>1, SInvariance, PTL

LEMMA AmountsOfBatches ==
  ASSUME NEW exempt, SInv(exempt)
  PROVE  AmountMatchesBatch
<1> SUFFICES ASSUME NEW id \in DOMAIN payments, Attached(id) # {}
             PROVE  /\ payments[id].participant_amounts = Cardinality(Attached(id))
                    /\ InvoicesDiffer =>
                         payments[id].amount =
                           GetPrice(Cardinality(Attached(id)), RegisterPrice,
                                    EventSetting)
  BY DEF AmountMatchesBatch
<1>1. Attached(id) = billed[id]
  BY AttachedIsBilled DEF SInv, TablesInv
<1> QED
  BY <1>1 DEF SInv, TablesInv, BatchesAreWhole, AmountIsPrice

(* A payment is for exactly the participants it was billed for or for nobody,
   and at their price unless an invoice number came back.                  *)
THEOREM AmountsMatchBatches == Spec => []AmountMatchesBatch
<1>1. SInv({}) => AmountMatchesBatch
  BY AmountsOfBatches
<1> QED
  BY <1>1, SInvariance, PTL

-----------------------------------------------------------------------------
(* The refinement: what each step is to an observer of the tables. *)

Bill == [p \in DOMAIN participants |-> Own(p)]

Settled == {id \in DOMAIN payments : payments[id].status = "PAID"}

Withdrawn == {id \in DOMAIN payments : ~payments[id].live}

ActiveOnes == Active(DOMAIN participants)

(* A registration bills new participants. *)
LEMMA CreateRegisters ==
  ASSUME SInv({}), NEW s \in Slots, CreateCommit(s)
  PROVE  Promise!Next
<1>0. PICK n : n = req[s].n
  OBVIOUS
<1> DEFINE new == Len(participants) + 1 .. Len(participants) + n
<1>1. /\ InsertsBatch(s, new, {}, {}) /\ n \in 0..MaxBatch /\ n \in Nat
      /\ \A p \in new : participants'[p].status = "PENDING"
  BY <1>0, CreateInserts
<1>2. /\ DOMAIN participants = 1..Len(participants) /\ Len(participants) \in Nat
      /\ Len(billed) = Len(payments) /\ Len(payments) \in Nat
  BY RowsAreNat DEF SInv, IInv, Lengths
<1>3. billed' = Append(billed, new) /\ new \cap DOMAIN participants = {}
  BY <1>0, <1>1, <1>2 DEF CreateCommit
<1>4. DOMAIN participants' = 1..Len(participants) + n
  BY <1>0, <1>1, <1>2 DEF CreateCommit
<1>5. Len(Bill) = Len(participants)
  BY <1>2 DEF Bill
<1>6. Bill' = [p \in 1..Len(participants) + n |->
                 IF p <= Len(participants) THEN Bill[p] ELSE Len(billed) + 1]
  <2> SUFFICES ASSUME NEW p \in 1..Len(participants) + n
               PROVE  Own(p)' = IF p <= Len(participants) THEN Bill[p]
                                                          ELSE Len(billed) + 1
    BY <1>4 DEF Bill
  <2>1. CASE p <= Len(participants)
    <3>1. p \in DOMAIN participants \ new
      BY <1>1, <1>2, <2>1
    <3> QED
      BY <1>1, <2>1, <3>1 DEF InsertsBatch, Bill, Own
  <2>2. CASE ~(p <= Len(participants))
    <3>1. p \in new
      BY <1>1, <1>2, <2>2
    <3> QED
      BY <1>1, <1>2, <2>2, <3>1 DEF InsertsBatch, New
  <2> QED
    BY <2>1, <2>2
<1> HIDE DEF new
<1>7. ActiveOnes' = ActiveOnes
  <2>1. DOMAIN participants' = DOMAIN participants \cup new
    BY <1>1 DEF InsertsBatch
  <2>2. \A p \in DOMAIN participants : participants'[p] = participants[p]
    BY <1>1, <1>3 DEF InsertsBatch
  <2> QED
    BY <1>1, <2>1, <2>2 DEF ActiveOnes, Active
<1>8. Settled' = Settled /\ Withdrawn' = Withdrawn
  BY <1>1 DEF InsertsBatch, Settled, Withdrawn
<1>9. Promise!Register(n)
  BY <1>3, <1>5, <1>6, <1>7, <1>8
     DEF Promise!Register, Bill, Own, ActiveOnes, Settled, Withdrawn, new
<1> QED
  BY <1>1, <1>9 DEF Promise!Next

(* A regeneration bills a whole batch again, as it was read. *)
LEMMA RegenerateBillsAgain ==
  ASSUME SInv({}), NEW s \in Slots, RegenerateCommit(s)
  PROVE  Promise!Next
<1>0. PICK r, batch : r = req[s] /\ batch = r.list
  OBVIOUS
<1>1. /\ InsertsBatch(s, batch, {r.id}, {})
      /\ r.id \in DOMAIN payments /\ batch \subseteq DOMAIN participants
      /\ \A p \in batch : participants'[p].status = SavedStatus(r, p)
  BY <1>0, RegenerateInserts
<1>2. /\ Len(billed) = Len(payments) /\ DOMAIN billed = DOMAIN payments
      /\ billed' = Append(billed, batch)
  BY <1>0 DEF RegenerateCommit, SInv, IInv, Lengths, TypeOK
<1>3. /\ Has(s, {"renewed"}) /\ Has(s, {"listed", "begun", "renewed"})
      /\ batch = {} \/ \E id \in DOMAIN payments : batch = billed[id]
  BY <1>0 DEF RegenerateCommit, Has, SInv, HandlersInv, HoldsBatch
<1>4. batch \in Promise!Batches
  <2>1. CASE batch = {}
    BY <2>1 DEF Promise!Batches
  <2>2. CASE batch # {}
    <3>1. PICK id \in DOMAIN payments, p \in batch : batch = billed[id]
      BY <1>3, <2>2
    <3>2. Own(p) \in DOMAIN payments /\ p \in Attached(Own(p))
          /\ billed[Own(p)] = batch
      BY <1>1, <3>1 DEF SInv, TablesInv, BatchesAreWhole, Attached, Own
    <3>3. Attached(Own(p)) = batch
      BY <3>2, AttachedIsBilled DEF SInv, TablesInv
    <3>4. Promise!OnBill(Own(p)) = batch
      BY <3>3 DEF Promise!OnBill, Attached
    <3> QED
      BY <1>2, <3>2, <3>4 DEF Promise!Batches
  <2> QED
    BY <2>1, <2>2
<1>5. Promise!OnBill(r.id) \subseteq batch
  BY <1>1 DEF InsertsBatch, Promise!OnBill, Attached
<1>6. Bill' = [p \in DOMAIN Bill |-> IF p \in batch THEN Len(billed) + 1 ELSE Bill[p]]
  <2>1. DOMAIN participants' = DOMAIN participants /\ DOMAIN Bill = DOMAIN participants
    BY <1>1 DEF InsertsBatch, Bill
  <2>2. \A p \in DOMAIN participants :
          Own(p)' = IF p \in batch THEN Len(billed) + 1 ELSE Own(p)
    BY <1>1, <1>2 DEF InsertsBatch, New, Own
  <2> QED
    BY <2>1, <2>2 DEF Bill
<1>7. \/ ActiveOnes' = ActiveOnes
      \/ ActiveOnes' = ActiveOnes \ batch
      \/ Promise!Entitled(batch) /\ ActiveOnes' = ActiveOnes \cup batch
  <2>1. /\ DOMAIN participants' = DOMAIN participants
        /\ \A p \in DOMAIN participants \ batch : participants'[p] = participants[p]
    BY <1>1 DEF InsertsBatch
  <2>2. CASE \A p \in batch : participants'[p].status = participants[p].status
    BY <2>1, <2>2 DEF ActiveOnes, Active
  <2>3. CASE \A p \in batch : participants'[p].status = "PENDING"
    BY <2>1, <2>3 DEF ActiveOnes, Active
  <2>4. CASE /\ \A p \in batch : participants'[p].status = "ACTIVE"
             /\ PaidForAll(batch)
    <3>1. ActiveOnes' = ActiveOnes \cup batch
      BY <1>1, <2>1, <2>4 DEF ActiveOnes, Active
    <3>2. Promise!Entitled(batch)
      BY <2>4 DEF Promise!Entitled, PaidForAll, IsPaid
    <3> QED
      BY <3>1, <3>2
  <2> QED
    BY <1>1, <1>3, <2>2, <2>3, <2>4, SavedTogether, <1>0
<1>8. Settled' = Settled /\ Withdrawn' = Withdrawn \cup {r.id}
  BY <1>1 DEF InsertsBatch, Settled, Withdrawn
<1>9. Promise!BillAgain(batch, r.id)
  BY <1>2, <1>5, <1>6, <1>7, <1>8
     DEF Promise!BillAgain, Bill, Own, ActiveOnes, Settled, Withdrawn
<1> QED
  BY <1>1, <1>2, <1>4, <1>9 DEF Promise!Next

(* A webhook's commit settles its payment. *)
LEMMA PaidSettles ==
  ASSUME SInv({}), NEW s \in Slots, PaidCommit(s)
  PROVE  Promise!Next
<1>1. PICK id \in DOMAIN payments :
        /\ payments[id].status = "PENDING" /\ payments[id].live
        /\ DOMAIN payments' = DOMAIN payments
        /\ payments'[id] = [payments[id] EXCEPT !.status = "PAID"]
        /\ \A k \in DOMAIN payments \ {id} : payments'[k] = payments[k]
        /\ DOMAIN participants' = DOMAIN participants
        /\ \A p \in DOMAIN participants :
             /\ Own(p)' = Own(p)
             /\ participants'[p].status =
                  IF Own(p) = id THEN "ACTIVE" ELSE participants[p].status
        /\ UNCHANGED billed
  BY PaidCommitEffect
<1>2. payments[id] \in Payment /\ DOMAIN billed = DOMAIN payments
  BY RowsAreNat DEF SInv, IInv, Lengths, TypeOK
<1>3. payments'[id].status = "PAID" /\ payments'[id].live
  BY <1>1, <1>2 DEF Payment
<1>4. Bill' = Bill /\ ActiveOnes' = ActiveOnes \cup Attached(id)
  BY <1>1 DEF Bill, ActiveOnes, Active, Attached, Own
<1>5. Settled' = Settled \cup {id} /\ Withdrawn' = Withdrawn
  <2>1. \A k \in DOMAIN payments :
          /\ payments'[k].status = "PAID" <=> payments[k].status = "PAID" \/ k = id
          /\ payments'[k].live <=> payments[k].live
    BY <1>1, <1>3
  <2> QED
    BY <1>1, <2>1 DEF Settled, Withdrawn
<1>6. id \notin Settled \cup Withdrawn
  BY <1>1 DEF Settled, Withdrawn
<1>7. Promise!OnBill(id) = Attached(id)
  BY DEF Promise!OnBill, Attached
<1>8. Promise!Settle(id)
  BY <1>1, <1>4, <1>5, <1>6, <1>7
     DEF Promise!Settle, Bill, Own, ActiveOnes, Settled, Withdrawn
<1> QED
  BY <1>2, <1>8 DEF Promise!Next

LEMMA OthersStutter ==
  ASSUME UNCHANGED <<participants, payments, billed>>
  PROVE  UNCHANGED Promise!vars
BY DEF Promise!vars, Active

LEMMA NextRefines ==
  ASSUME SInv({}), [Next]_vars
  PROVE  [Promise!Next]_(Promise!vars)
<1>1. ASSUME NEW s \in Slots, Create(s) PROVE [Promise!Next]_(Promise!vars)
  BY <1>1, CreateRegisters, OthersStutter
     DEF Create, CreateStart, CreateCount, CreateRollback, Rest
<1>2. ASSUME NEW s \in Slots, Regenerate(s) PROVE [Promise!Next]_(Promise!vars)
  BY <1>2, RegenerateBillsAgain, OthersStutter
     DEF Regenerate, RegenerateRead, RegenerateBegin, RegenerateInvoice,
         RegenerateRollback, Rest
<1>3. ASSUME NEW s \in Slots, Paid(s) PROVE [Promise!Next]_(Promise!vars)
  BY <1>3, PaidSettles, OthersStutter DEF Paid, PaidAgain, PaidLock, PaidEmit, Rest
<1>4. ASSUME NEW i \in Invoices, PaidUnknown(i) \/ CustomerPays(i)
      PROVE  [Promise!Next]_(Promise!vars)
  BY <1>4, OthersStutter DEF PaidUnknown, CustomerPays, Rest
<1>5. ASSUME NEW s \in Slots, RequestFails(s) \/ WebhookFails(s)
      PROVE  [Promise!Next]_(Promise!vars)
  BY <1>5, OthersStutter DEF RequestFails, WebhookFails, Rest
<1>6. CASE Crash \/ UNCHANGED vars
  BY <1>6, OthersStutter DEF Crash, Rest, vars
<1> QED
  BY <1>1, <1>2, <1>3, <1>4, <1>5, <1>6 DEF Next

(* The three handlers, whatever their interleavings, failures and repetitions,
   do to the tables only what Settlement lets one step do to one batch.    *)
THEOREM PaymentFlowSettles == Spec => ImplementsSettlement
<1>1. Init => Promise!Init
  BY DEF Init, Promise!Init, Active
<1>2. SInv({}) /\ [Next]_vars => [Promise!Next]_(Promise!vars)
  BY NextRefines
<1> QED
  BY <1>1, <1>2, SInvariance, PTL DEF Spec, ImplementsSettlement, Promise!Spec

(* What Settlement's steps add up to holds of the tables: nobody is on a
   withdrawn bill, and whoever is active has a settled bill of the own batch. *)
THEOREM PromiseKept == Spec => [](Promise!NobodyLeftBehind /\ Promise!ActiveAreEntitled)
<1>1. SInv({}) => Promise!NobodyLeftBehind
  BY DEF SInv, TablesInv, PaidOnesActive, Own, Promise!NobodyLeftBehind
<1>2. SInv({}) => Promise!ActiveAreEntitled
  BY DEF SInv, TablesInv, ActiveWasPaid, PaidForAll, IsPaid, Active,
         Promise!ActiveAreEntitled
<1> QED
  BY <1>1, <1>2, SInvariance, PTL
-----------------------------------------------------------------------------
(* No step rewrites what was decided: who was registered under which number,
   which payments were deleted, which were announced.                      *)
HistoryStands ==
  /\ DOMAIN participants \subseteq DOMAIN participants'
  /\ \A p \in DOMAIN participants :
       /\ participants'[p].prefix = participants[p].prefix
       /\ participants'[p].seq = participants[p].seq
  /\ \A id \in DOMAIN payments :
       /\ payments'[id].live => payments[id].live
       /\ emitted[id] = 1 => emitted'[id] = 1

LEMMA QuietGrows ==
  ASSUME UNCHANGED <<participants, payments, billed, emitted>>, money \subseteq money'
  PROVE  Grows /\ HistoryStands
BY DEF Grows, HistoryStands

LEMMA PaidCommitGrows ==
  ASSUME NEW exempt, SInv(exempt), NEW s \in Slots, PaidCommit(s)
  PROVE  Grows /\ HistoryStands
<1> DEFINE id == req[s].id
<1>1. /\ id \in DOMAIN payments
      /\ payments'[id] = [payments[id] EXCEPT !.status = "PAID"]
      /\ \A k \in DOMAIN payments \ {id} : payments'[k] = payments[k]
      /\ DOMAIN payments' = DOMAIN payments /\ UNCHANGED <<billed, money>>
      /\ DOMAIN participants' = DOMAIN participants
  BY PaidCommitEffect
<1>2. /\ \A k \in DOMAIN payments : payments[k] \in Payment
      /\ \A p \in DOMAIN participants : participants[p] \in Participant
  BY RowsAreNat DEF SInv, IInv
<1>3. \A k \in DOMAIN payments :
        /\ payments'[k].live = payments[k].live
        /\ payments'[k].invoice = payments[k].invoice
        /\ payments[k].status = "PAID" => payments'[k].status = "PAID"
  BY <1>1, <1>2 DEF Payment
<1>4. \A p \in DOMAIN participants :
        /\ participants'[p].prefix = participants[p].prefix
        /\ participants'[p].seq = participants[p].seq
  BY <1>2 DEF PaidCommit, Activated, Participant
<1> QED
  BY <1>1, <1>3, <1>4 DEF PaidCommit, Grows, HistoryStands

LEMMA PaidEmitGrows ==
  ASSUME IInv, NEW s \in Slots, PaidEmit(s)
  PROVE  Grows /\ HistoryStands
<1>1. /\ emitted \in Seq(Nat) /\ DOMAIN emitted = DOMAIN payments
      /\ req[s].id \in DOMAIN payments /\ emitted[req[s].id] = 0
  BY DEF IInv, TypeOK, Lengths, RowsExist, SettledByOne, PaidEmit, Has
<1>2. \A id \in DOMAIN payments : emitted[id] = 1 => emitted'[id] = 1
  BY <1>1 DEF PaidEmit
<1> QED
  BY <1>2 DEF PaidEmit, Grows, HistoryStands

LEMMA InsertGrows ==
  ASSUME NEW exempt, SInv(exempt), NEW s \in Slots,
         CreateCommit(s) \/ RegenerateCommit(s)
  PROVE  Grows /\ HistoryStands
<1>1. PICK new, dead : InsertsBatch(s, new, dead, exempt)
  BY CreateInserts, RegenerateInserts
<1>2. Grows
  BY <1>1 DEF InsertsBatch, Grows
<1>3. \A id \in DOMAIN payments : payments'[id].live => payments[id].live
  BY <1>1 DEF InsertsBatch
<1>4. \A id \in DOMAIN payments : emitted'[id] = emitted[id]
  <2>1. /\ emitted \in Seq(Nat) /\ DOMAIN payments = 1..Len(emitted)
        /\ emitted' = Append(emitted, 0)
    BY RowsAreNat DEF SInv, IInv, TypeOK, Lengths, CreateCommit, RegenerateCommit
  <2> QED
    BY <2>1, AppendFacts
<1>5. ASSUME NEW p \in DOMAIN participants
      PROVE  /\ p \in DOMAIN participants'
             /\ participants'[p].prefix = participants[p].prefix
             /\ participants'[p].seq = participants[p].seq
  <2>1. /\ participants[p] \in Participant /\ p \in 1..Len(participants)
        /\ Len(participants) \in Nat
    BY RowsAreNat DEF SInv, IInv
  <2>2. CASE CreateCommit(s)
    <3>1. req[s].n \in Nat
      BY <2>2, CreateInserts
    <3> QED
      BY <2>1, <2>2, <3>1 DEF CreateCommit
  <2>3. CASE RegenerateCommit(s)
    BY <2>1, <2>3 DEF RegenerateCommit, MoveParticipants, Participant
  <2> QED
    BY <2>2, <2>3
<1> QED
  BY <1>2, <1>3, <1>4, <1>5 DEF HistoryStands

LEMMA NextGrows ==
  ASSUME NEW exempt, SInv(exempt), [Next]_vars
  PROVE  Grows /\ HistoryStands
<1>1. ASSUME NEW s \in Slots, Create(s) PROVE Grows /\ HistoryStands
  BY <1>1, InsertGrows, QuietGrows
     DEF Create, CreateStart, CreateCount, CreateRollback, Rest
<1>2. ASSUME NEW s \in Slots, Regenerate(s) PROVE Grows /\ HistoryStands
  BY <1>2, InsertGrows, QuietGrows
     DEF Regenerate, RegenerateRead, RegenerateBegin, RegenerateInvoice,
         RegenerateRollback, Rest
<1>3. ASSUME NEW s \in Slots, Paid(s) PROVE Grows /\ HistoryStands
  <2>1. CASE PaidCommit(s)
    BY <2>1, PaidCommitGrows
  <2>2. CASE PaidEmit(s)
    BY <2>2, PaidEmitGrows DEF SInv
  <2>3. CASE \E i \in Invoices : PaidAgain(s, i) \/ PaidLock(s, i)
    BY <2>3, QuietGrows DEF PaidAgain, PaidLock, Rest
  <2> QED
    BY <1>3, <2>1, <2>2, <2>3 DEF Paid
<1>4. ASSUME NEW i \in Invoices, PaidUnknown(i) \/ CustomerPays(i)
      PROVE  Grows /\ HistoryStands
  BY <1>4, QuietGrows DEF PaidUnknown, CustomerPays, Rest
<1>5. ASSUME NEW s \in Slots, RequestFails(s) \/ WebhookFails(s)
      PROVE  Grows /\ HistoryStands
  BY <1>5, QuietGrows DEF RequestFails, WebhookFails, Rest
<1>6. CASE Crash \/ UNCHANGED vars
  BY <1>6, QuietGrows DEF Crash, Rest, vars
<1> QED
  BY <1>1, <1>2, <1>3, <1>4, <1>5, <1>6 DEF Next

(* No request, webhook, failure or restart takes back a PAID status, a bill's
   participants, a deletion, an announcement or a number once given.       *)
THEOREM TablesOnlyGrow == Spec => [][Grows /\ HistoryStands]_vars
<1>1. SInv({}) /\ [Next]_vars => [Grows /\ HistoryStands]_vars
  BY NextGrows
<1> QED
  BY <1>1, SInvariance, PTL DEF Spec

-----------------------------------------------------------------------------
(* PaymentDesk: the same invariant but for the participants whose status an
   edit has written over, and what the backoffice and the socket hold.     *)

(* The edit's participant exists, and was paid for if it was read ACTIVE. *)
EditHolds ==
  edit # NoEdit => /\ edit.p \in DOMAIN participants
                   /\ edit.status = "ACTIVE" => PaidForAll({edit.p})

(* A client that still waits for news of a committed payment is in its room. *)
WaitersAreInRoom == due \ heard \subseteq rooms

DeskInv ==
  /\ SInv(overwritten)
  /\ DeskTypeOK
  /\ EditHolds
  /\ WaitersAreInRoom
  /\ RoomIsTold

LEMMA ExemptMore ==
  ASSUME NEW some, NEW all, NEW e, NEW f, e \subseteq f, AllOrNone(some, all, e)
  PROVE  AllOrNone(some, all, f)
BY DEF AllOrNone

(* PaymentFlow's steps, whatever the edits have written over before. *)
LEMMA FlowKeeps ==
  ASSUME SInv(overwritten), [Next]_vars, UNCHANGED overwritten
  PROVE  SInv(overwritten)' /\ Grows /\ HistoryStands
<1>1. PICK exempt : exempt = overwritten
  OBVIOUS
<1>2. SInv(exempt)
  BY <1>1
<1>3. SInv(exempt)' /\ Grows /\ HistoryStands
  BY <1>2, NextSInv, NextGrows
<1>4. exempt = overwritten'
  BY <1>1
<1> QED
  BY <1>3, <1>4 DEF SInv, TablesInv, OneStatus, PaidOnesActive, HandlersInv, HoldsBatch

(* What the backoffice's UPDATE does to each row. *)
LEMMA EditWriteEffect ==
  ASSUME TypeOK, DeskTypeOK, EditHolds, EditWrite
  PROVE  /\ edit.p \in DOMAIN participants
         /\ edit.status = "ACTIVE" => PaidForAll({edit.p})
         /\ participants' \in Seq(Participant)
         /\ Len(participants') = Len(participants)
         /\ DOMAIN participants' = DOMAIN participants
         /\ \A q \in DOMAIN participants :
              /\ participants'[q].prefix = participants[q].prefix
              /\ participants'[q].seq = participants[q].seq
              /\ Own(q)' = Own(q)
              /\ participants'[q].status =
                   IF q = edit.p /\ edit.writes THEN edit.status
                                                ELSE participants[q].status
         /\ overwritten' = overwritten \cup (IF edit.writes THEN {edit.p} ELSE {})
         /\ UNCHANGED <<payments, req, money, answered, faults, billed, emitted>>
<1> DEFINE p == edit.p
<1>1. /\ edit # NoEdit /\ edit.status \in ParticipantStatus
      /\ edit.writes \in BOOLEAN
  BY DEF EditWrite, DeskTypeOK, Edit, NoEdit
<1>2. /\ p \in DOMAIN participants
      /\ edit.status = "ACTIVE" => PaidForAll({p})
  BY <1>1 DEF EditHolds
<1>3. /\ participants' = [participants EXCEPT ![p].status = WrittenStatus(p)]
      /\ overwritten' = overwritten \cup (IF edit.writes THEN {p} ELSE {})
      /\ UNCHANGED <<payments, req, money, answered, faults, billed, emitted>>
  BY DEF EditWrite
<1>4. \A q \in DOMAIN participants : participants[q] \in Participant
  BY RowsAreNat
<1>5. /\ WrittenStatus(p) \in ParticipantStatus
      /\ WrittenStatus(p) = IF edit.writes THEN edit.status ELSE participants[p].status
  BY <1>1, <1>2, <1>4 DEF WrittenStatus, Participant
<1> HIDE DEF p
<1>6. /\ DOMAIN participants' = DOMAIN participants
      /\ \A q \in DOMAIN participants :
           participants'[q] = IF q = p THEN [participants[q] EXCEPT !.status = WrittenStatus(p)]
                                       ELSE participants[q]
  BY <1>2, <1>3
<1>7. ASSUME NEW q \in DOMAIN participants
      PROVE  /\ participants'[q] \in Participant
             /\ participants'[q].prefix = participants[q].prefix
             /\ participants'[q].seq = participants[q].seq
             /\ Own(q)' = Own(q)
             /\ participants'[q].status =
                  IF q = p /\ edit.writes THEN edit.status ELSE participants[q].status
  BY <1>4, <1>5, <1>6 DEF Participant, Own
<1>8. participants' \in Seq(Participant) /\ Len(participants') = Len(participants)
  <2>1. participants' \in [1..Len(participants) -> Participant]
    BY <1>3, <1>6, <1>7, RowsAreNat
  <2> QED
    BY <2>1, RowsAreNat, FunctionIsSeq
<1> QED
  BY <1>2, <1>3, <1>6, <1>7, <1>8 DEF p

(* An edit disturbs nothing but the status of its participant, which is exempt
   from then on; ACTIVE it is only if it was when the edit read it.        *)
LEMMA EditWriteKeeps ==
  ASSUME SInv(overwritten), DeskTypeOK, EditHolds, EditWrite
  PROVE  SInv(overwritten)' /\ Grows /\ HistoryStands
<1>0. IInv /\ TablesInv(overwritten) /\ HandlersInv(overwritten) /\ TypeOK
  BY DEF SInv, IInv
<1>1. /\ participants' \in Seq(Participant)
      /\ Len(participants') = Len(participants)
      /\ DOMAIN participants' = DOMAIN participants
      /\ \A q \in DOMAIN participants :
           /\ participants'[q].prefix = participants[q].prefix
           /\ participants'[q].seq = participants[q].seq
           /\ Own(q)' = Own(q)
      /\ UNCHANGED <<payments, req, money, answered, faults, billed, emitted>>
      /\ overwritten \subseteq overwritten'
      /\ overwritten' \ overwritten \subseteq {edit.p}
  BY <1>0, EditWriteEffect
<1>2. \A q \in DOMAIN participants :
        \/ participants'[q].status = participants[q].status
        \/ /\ q \in overwritten'
           /\ participants'[q].status = "ACTIVE" => PaidForAll({q})
  BY <1>0, EditWriteEffect
<1>3. Grows /\ HistoryStands
  BY <1>1 DEF Grows, HistoryStands
<1>4. IInv'
  <2>1. TypeOK' /\ Lengths' /\ EmittedOnce' /\ AckIsDurable'
    BY <1>0, <1>1 DEF IInv, TypeOK, Lengths, EmittedOnce, AckIsDurable
  <2>2. RowsExist' /\ CountIsCurrent' /\ SettledByOne'
    BY <1>0, <1>1 DEF IInv, RowsExist, CountIsCurrent, SettledByOne, Has
  <2>3. KeplekGapFree'
    BY <1>0, <1>1 DEF IInv, KeplekGapFree
  <2> QED
    BY <2>1, <2>2, <2>3 DEF IInv
<1>5. TablesInv(overwritten)'
  <2>1. BatchesAreWhole'
    BY <1>0, <1>1 DEF TablesInv, BatchesAreWhole
  <2>2. LiveInvoicesDiffer' /\ PaidHasMoney' /\ AmountIsPrice'
    BY <1>0, <1>1 DEF TablesInv, LiveInvoicesDiffer, PaidHasMoney, IsPaid,
                      AmountIsPrice, InvoicesDiffer
  <2>3. OneStatus(overwritten)'
    <3> SUFFICES ASSUME NEW p \in DOMAIN participants' \ overwritten',
                        NEW q \in DOMAIN participants' \ overwritten', Own(p)' = Own(q)'
                 PROVE  participants'[p].status = participants'[q].status
      BY DEF OneStatus
    <3>1. /\ p \in DOMAIN participants \ overwritten
          /\ q \in DOMAIN participants \ overwritten
          /\ Own(p) = Own(q)
      BY <1>1
    <3> QED
      BY <1>0, <1>2, <3>1 DEF TablesInv, OneStatus
  <2>4. PaidOnesActive(overwritten)'
    <3> SUFFICES ASSUME NEW p \in DOMAIN participants'
                 PROVE  /\ payments[Own(p)'].live
                        /\ p \notin overwritten' /\ payments[Own(p)'].status = "PAID" =>
                             participants'[p].status = "ACTIVE"
      BY <1>1 DEF PaidOnesActive
    <3>1. p \in DOMAIN participants /\ Own(p)' = Own(p)
      BY <1>1
    <3> QED
      BY <1>0, <1>1, <1>2, <3>1 DEF TablesInv, PaidOnesActive
  <2>5. ActiveWasPaid'
    BY <1>0, <1>1, <1>2 DEF TablesInv, ActiveWasPaid, PaidForAll, IsPaid
  <2> QED
    BY <2>1, <2>2, <2>3, <2>4, <2>5 DEF TablesInv
<1>6. HandlersInv(overwritten)'
  <2> SUFFICES ASSUME NEW t \in Slots
               PROVE  HoldsBatch(t, overwritten)' /\ RenewsItsBatch(t)'
    BY DEF HandlersInv
  <2>1. HoldsBatch(t, overwritten) /\ RenewsItsBatch(t)
    BY <1>0 DEF HandlersInv
  <2>2. \A some, all : AllOrNone(some, all, overwritten) => AllOrNone(some, all, overwritten')
    BY <1>1, ExemptMore
  <2>3. HoldsBatch(t, overwritten)'
    BY <1>1, <2>1, <2>2 DEF HoldsBatch, Has, PaidForAll, IsPaid
  <2>4. RenewsItsBatch(t)'
    BY <1>1, <2>1 DEF RenewsItsBatch, Has, InvoicesDiffer
  <2> QED
    BY <2>3, <2>4
<1> QED
  BY <1>3, <1>4, <1>5, <1>6 DEF SInv

-----------------------------------------------------------------------------
(* What the backoffice holds. *)

LEMMA EditHoldsStep ==
  ASSUME SInv(overwritten), DeskTypeOK, EditHolds, Grows, HistoryStands,
         edit' = edit \/ edit' = NoEdit \/ EditCompare
               \/ \E p \in DOMAIN participants : EditLoad(p)
  PROVE  EditHolds'
<1>1. DOMAIN participants \subseteq DOMAIN participants'
  BY DEF HistoryStands
<1>2. ASSUME NEW ps, PaidForAll(ps) PROVE PaidForAll(ps)'
  BY <1>2, PaidStays
<1>3. CASE edit' = edit
  BY <1>1, <1>2, <1>3 DEF EditHolds, NoEdit
<1>4. CASE edit' = NoEdit
  BY <1>4 DEF EditHolds, NoEdit
<1>5. CASE EditCompare
  <2>1. edit # NoEdit /\ edit'.p = edit.p /\ edit'.status = edit.status
    BY <1>5 DEF EditCompare, NoEdit
  <2> QED
    BY <1>1, <1>2, <2>1 DEF EditHolds
<1>6. ASSUME NEW p \in DOMAIN participants, EditLoad(p) PROVE EditHolds'
  <2>1. edit'.p = p /\ edit'.status = participants[p].status
    BY <1>6 DEF EditLoad
  <2>2. edit'.status = "ACTIVE" => PaidForAll({p})
    BY <2>1 DEF SInv, TablesInv, ActiveWasPaid
  <2> QED
    BY <1>1, <1>2, <2>1, <2>2 DEF EditHolds
<1> QED
  BY <1>3, <1>4, <1>5, <1>6

(* The steps PaymentDesk takes from PaymentFlow are steps of PaymentFlow. *)
LEMMA FlowIsNext == ASSUME Flow PROVE Next
BY DEF Flow, Next, Create, Regenerate, Paid

LEMMA FlowKeepsCommitted ==
  ASSUME TypeOK, Flow, NEW t \in Slots, Has(t, {"committed"})
  PROVE  req'[t] = req[t]
<1>1. req \in [Slots -> Request]
  BY DEF TypeOK
<1>2. ASSUME NEW s \in Slots, NEW r, req' = [req EXCEPT ![s] = r],
             req[s].pc # "committed"
      PROVE  req'[t] = req[t]
  BY <1>1, <1>2 DEF Has
<1>3. ASSUME NEW s \in Slots, Create(s) PROVE req'[t] = req[t]
  <2>1. \E r : req' = [req EXCEPT ![s] = r]
    BY <1>3 DEF Create, CreateStart, CreateCount, CreateCommit, CreateRollback, SetReq
  <2>2. req[s].pc # "committed"
    BY <1>3 DEF Create, CreateStart, CreateCount, CreateCommit, CreateRollback, Idle
  <2> QED
    BY <1>2, <2>1, <2>2
<1>4. ASSUME NEW s \in Slots, Regenerate(s) PROVE req'[t] = req[t]
  <2>1. \E r : req' = [req EXCEPT ![s] = r]
    <3>1. CASE RegenerateRead(s)
      BY <3>1 DEF RegenerateRead, SetReq
    <3>2. CASE RegenerateBegin(s)
      BY <3>2 DEF RegenerateBegin, SetReq
    <3>3. CASE RegenerateInvoice(s)
      BY <3>3 DEF RegenerateInvoice, SetReq
    <3>4. CASE RegenerateCommit(s) \/ RegenerateRollback(s)
      BY <3>4 DEF RegenerateCommit, RegenerateRollback, SetReq
    <3> QED
      BY <1>4, <3>1, <3>2, <3>3, <3>4 DEF Regenerate
  <2>2. req[s].pc # "committed"
    BY <1>4 DEF Regenerate, RegenerateRead, RegenerateBegin, RegenerateInvoice,
                RegenerateCommit, RegenerateRollback, Idle
  <2> QED
    BY <1>2, <2>1, <2>2
<1>5. ASSUME NEW s \in Slots, RequestFails(s) PROVE req'[t] = req[t]
  BY <1>2, <1>5 DEF RequestFails, SetReq
<1>6. ASSUME NEW s \in Slots, NEW i \in Invoices, PaidAgain(s, i) \/ PaidLock(s, i)
      PROVE  req'[t] = req[t]
  <2>1. CASE PaidAgain(s, i)
    BY <2>1 DEF PaidAgain
  <2>2. CASE PaidLock(s, i)
    <3>1. \E r : req' = [req EXCEPT ![s] = r]
      BY <2>2 DEF PaidLock, SetReq
    <3>2. req[s].pc # "committed"
      BY <2>2 DEF PaidLock, PaidRead, Idle
    <3> QED
      BY <1>2, <3>1, <3>2
  <2> QED
    BY <1>6, <2>1, <2>2
<1>7. ASSUME NEW i \in Invoices, PaidUnknown(i) \/ CustomerPays(i)
      PROVE  req'[t] = req[t]
  BY <1>7 DEF PaidUnknown, CustomerPays
<1> QED
  BY <1>3, <1>4, <1>5, <1>6, <1>7 DEF Flow

-----------------------------------------------------------------------------
(* What the socket's client is told. *)

(* The two steps of a webhook, seen from the rooms. *)
LEMMA DeskPaidCommitTells ==
  ASSUME DeskInv, Grows, HistoryStands, NEW s \in Slots, DeskPaidCommit(s)
  PROVE  WaitersAreInRoom' /\ RoomIsTold'
<1> DEFINE id == req[s].id
<1>1. /\ req[s].pc = "locked" /\ id \in DOMAIN payments
      /\ \A t \in Slots : Has(t, {"committed"}) => req[t].id \in DOMAIN payments
  BY DEF DeskInv, SInv, IInv, RowsExist, DeskPaidCommit, PaidCommit, Has
<1>2. /\ req'[s] = [pc |-> "committed", id |-> id]
      /\ \A t \in Slots \ {s} : req'[t] = req[t]
      /\ due' = due \cup (rooms \cap {payments[id].invoice})
      /\ UNCHANGED <<rooms, heard, emitted>>
  BY DEF DeskPaidCommit, PaidCommit, SetReq, DeskInv, SInv, IInv, TypeOK
<1>3. \A k \in DOMAIN payments : payments'[k].invoice = payments[k].invoice
  BY DEF Grows
<1> HIDE DEF id
<1>4. WaitersAreInRoom'
  BY <1>2 DEF DeskInv, WaitersAreInRoom
<1>5. RoomIsTold'
  <2> SUFFICES ASSUME NEW i \in due' \ heard'
               PROVE  \E t \in Slots : /\ req'[t].pc = "committed"
                                       /\ payments'[req'[t].id].invoice = i
    BY DEF RoomIsTold
  <2>1. CASE i = payments[id].invoice
    BY <1>1, <1>2, <1>3, <2>1
  <2>2. CASE i # payments[id].invoice
    <3>1. i \in due \ heard
      BY <1>2, <2>2
    <3>2. PICK t \in Slots : req[t].pc = "committed" /\ payments[req[t].id].invoice = i
      BY <3>1 DEF DeskInv, RoomIsTold
    <3>3. t # s /\ req[t].id \in DOMAIN payments
      BY <1>1, <3>2 DEF Has
    <3> QED
      BY <1>2, <1>3, <3>2, <3>3
  <2> QED
    BY <2>1, <2>2
<1> QED
  BY <1>4, <1>5

LEMMA DeskPaidEmitTells ==
  ASSUME DeskInv, Grows, HistoryStands, NEW s \in Slots, DeskPaidEmit(s)
  PROVE  WaitersAreInRoom' /\ RoomIsTold'
<1> DEFINE id == req[s].id
           told == payments[id].invoice
<1>1. /\ id \in DOMAIN payments /\ payments[id].status = "PAID" /\ emitted[id] = 0
  BY DEF DeskInv, SInv, IInv, RowsExist, SettledByOne, DeskPaidEmit, PaidEmit, Has
<1>2. /\ \A t \in Slots \ {s} : req'[t] = req[t]
      /\ heard' = heard \cup (rooms \cap {told})
      /\ UNCHANGED <<payments, rooms, due>>
      /\ emitted' = [emitted EXCEPT ![id] = @ + 1]
  BY DEF DeskPaidEmit, PaidEmit, EmitPaymentPaid, SetReq, DeskInv, SInv, IInv, TypeOK
<1>3. emitted'[id] = 1
  <2>1. emitted \in Seq(Nat) /\ id \in DOMAIN emitted
    BY <1>1 DEF DeskInv, SInv, IInv, TypeOK, Lengths
  <2> QED
    BY <1>1, <1>2, <2>1
<1> HIDE DEF id
<1>4. WaitersAreInRoom'
  BY <1>2 DEF DeskInv, WaitersAreInRoom
<1>5. RoomIsTold'
  <2> SUFFICES ASSUME NEW i \in due' \ heard'
               PROVE  \E t \in Slots : /\ req'[t].pc = "committed"
                                       /\ payments'[req'[t].id].invoice = i
    BY DEF RoomIsTold
  <2>1. i \in due \ heard /\ i \in rooms /\ i # told
    BY <1>2 DEF DeskInv, WaitersAreInRoom
  <2>2. PICK t \in Slots : req[t].pc = "committed" /\ payments[req[t].id].invoice = i
    BY <2>1 DEF DeskInv, RoomIsTold
  <2>3. t # s
    BY <2>1, <2>2 DEF id
  <2> QED
    BY <1>2, <2>2, <2>3
<1> QED
  BY <1>4, <1>5

(* A webhook that fails after its COMMIT no longer owes its own invoice. *)
LEMMA DeskWebhookFailsTells ==
  ASSUME DeskInv, Grows, HistoryStands, NEW s \in Slots, DeskWebhookFails(s)
  PROVE  WaitersAreInRoom' /\ RoomIsTold'
<1>1. /\ \A t \in Slots \ {s} : req'[t] = req[t]
      /\ due' \subseteq due
      /\ UNCHANGED <<payments, rooms, heard>>
  BY DEF DeskWebhookFails, WebhookFails, Rest, SetReq, DeskInv, SInv, IInv, TypeOK
<1>2. WaitersAreInRoom'
  BY <1>1 DEF DeskInv, WaitersAreInRoom
<1>3. RoomIsTold'
  <2> SUFFICES ASSUME NEW i \in due' \ heard'
               PROVE  \E t \in Slots : /\ req'[t].pc = "committed"
                                       /\ payments'[req'[t].id].invoice = i
    BY DEF RoomIsTold
  <2>1. i \in due \ heard
    BY <1>1
  <2>2. PICK t \in Slots : req[t].pc = "committed" /\ payments[req[t].id].invoice = i
    BY <2>1 DEF DeskInv, RoomIsTold
  <2>3. t # s
    BY <1>1, <2>1, <2>2 DEF DeskWebhookFails
  <2> QED
    BY <1>1, <2>2, <2>3
<1> QED
  BY <1>2, <1>3

(* All other steps: nobody hears anything, and no webhook ends between its
   commit and its announcement unless the process dies.                    *)
LEMMA OthersTell ==
  ASSUME DeskInv, Grows, HistoryStands, UNCHANGED heard,
         \/ /\ UNCHANGED due /\ rooms \subseteq rooms'
            /\ \A t \in Slots : Has(t, {"committed"}) => req'[t] = req[t]
         \/ due' = due \cap heard
  PROVE  WaitersAreInRoom' /\ RoomIsTold'
<1>1. CASE due' = due \cap heard
  BY <1>1 DEF WaitersAreInRoom, RoomIsTold
<1>2. CASE /\ UNCHANGED due /\ rooms \subseteq rooms'
           /\ \A t \in Slots : Has(t, {"committed"}) => req'[t] = req[t]
  <2>1. WaitersAreInRoom'
    BY <1>2 DEF DeskInv, WaitersAreInRoom
  <2>2. RoomIsTold'
    <3> SUFFICES ASSUME NEW i \in due \ heard
                 PROVE  \E t \in Slots : /\ req'[t].pc = "committed"
                                         /\ payments'[req'[t].id].invoice = i
      BY <1>2 DEF RoomIsTold
    <3>1. PICK t \in Slots : req[t].pc = "committed" /\ payments[req[t].id].invoice = i
      BY DEF DeskInv, RoomIsTold
    <3>2. Has(t, {"committed"}) /\ req'[t] = req[t]
      BY <1>2, <3>1 DEF Has
    <3>3. req[t].id \in DOMAIN payments
      BY <3>2 DEF DeskInv, SInv, IInv, RowsExist, Has
    <3> QED
      BY <3>1, <3>2, <3>3 DEF Grows
  <2> QED
    BY <2>1, <2>2
<1> QED
  BY <1>1, <1>2

-----------------------------------------------------------------------------
LEMMA InitDeskInv == DeskInit => DeskInv
<1> SUFFICES ASSUME DeskInit PROVE DeskInv
  OBVIOUS
<1>1. SInv(overwritten)
  <2>1. PICK exempt : exempt = overwritten
    OBVIOUS
  <2> QED
    BY <2>1, InitSInv DEF DeskInit
<1>2. DeskTypeOK
  BY EditsAssumption DEF DeskInit, DeskTypeOK, Edit
<1> QED
  BY <1>1, <1>2 DEF DeskInit, DeskInv, EditHolds, WaitersAreInRoom, RoomIsTold

(* Steps of the backoffice and the socket that leave PaymentFlow alone. *)
LEMMA DeskOnlyStep ==
  ASSUME DeskInv,
         \/ \E p \in DOMAIN participants : EditLoad(p)
         \/ EditCompare
         \/ \E i \in Invoices : JoinPaymentRoom(i)
         \/ Disconnect
         \/ UNCHANGED allVars
  PROVE  DeskInv'
<1>0. DeskTypeOK /\ EditHolds
  BY DEF DeskInv
<1>1. UNCHANGED vars /\ UNCHANGED overwritten /\ UNCHANGED heard
  BY DEF EditLoad, EditCompare, JoinPaymentRoom, Disconnect, allVars, deskVars
<1>2. SInv(overwritten)' /\ Grows /\ HistoryStands
  BY <1>1, FlowKeeps DEF DeskInv
<1>3. EditHolds'
  <2>1. edit' = edit \/ EditCompare \/ \E p \in DOMAIN participants : EditLoad(p)
    BY DEF JoinPaymentRoom, Disconnect, allVars, deskVars
  <2> QED
    BY <1>0, <1>2, <2>1, EditHoldsStep DEF DeskInv
<1>4. WaitersAreInRoom' /\ RoomIsTold'
  <2>1. \/ UNCHANGED due /\ rooms \subseteq rooms'
        \/ due' = due \cap heard
    BY DEF EditLoad, EditCompare, JoinPaymentRoom, Disconnect, allVars, deskVars
  <2> QED
    BY <1>1, <1>2, <2>1, OthersTell DEF vars
<1>5. DeskTypeOK'
  <2>1. UNCHANGED participants
    BY <1>1 DEF vars
  <2>2. ASSUME NEW p \in DOMAIN participants, EditLoad(p) PROVE DeskTypeOK'
    <3>1. /\ edits \in Nat /\ MaxEdits \in Nat /\ edits < MaxEdits /\ edits' = edits + 1
      BY <1>0, <2>2, EditsAssumption DEF DeskTypeOK, EditLoad
    <3>2. p \in Nat /\ participants[p].status \in ParticipantStatus
      BY RowsAreNat DEF DeskInv, SInv, IInv, Participant
    <3>3. edit' \in Edit
      BY <2>2, <3>2 DEF EditLoad, Edit
    <3> QED
      BY <1>0, <2>1, <2>2, <3>1, <3>3 DEF DeskTypeOK, EditLoad
  <2>3. CASE EditCompare
    <3>1. edit.p \in Nat /\ edit.status \in ParticipantStatus
      BY <1>0, <2>3 DEF DeskTypeOK, EditCompare, Edit, NoEdit
    <3>2. edit' \in Edit
      BY <2>3, <3>1 DEF EditCompare, Edit
    <3> QED
      BY <1>0, <2>1, <2>3, <3>2 DEF DeskTypeOK, EditCompare
  <2>4. CASE \E i \in Invoices : JoinPaymentRoom(i)
    BY <1>0, <2>1, <2>4 DEF DeskTypeOK, JoinPaymentRoom
  <2>5. CASE Disconnect \/ UNCHANGED allVars
    BY <1>0, <2>1, <2>5 DEF DeskTypeOK, Disconnect, allVars, deskVars
  <2> QED
    BY <2>2, <2>3, <2>4, <2>5
<1> QED
  BY <1>2, <1>3, <1>4, <1>5 DEF DeskInv

LEMMA EditWriteStep ==
  ASSUME DeskInv, EditWrite
  PROVE  DeskInv'
<1>0. TypeOK /\ DeskTypeOK /\ EditHolds /\ SInv(overwritten)
  BY DEF DeskInv, SInv, IInv
<1>1. SInv(overwritten)' /\ Grows /\ HistoryStands
  BY <1>0, EditWriteKeeps
<1>2. edit' = NoEdit /\ UNCHANGED <<edits, rooms, heard, due, req>>
  BY DEF EditWrite
<1>3. EditHolds'
  BY <1>0, <1>1, <1>2, EditHoldsStep
<1>4. WaitersAreInRoom' /\ RoomIsTold'
  BY <1>1, <1>2, OthersTell
<1>5. DeskTypeOK'
  <2>1. /\ edit.p \in DOMAIN participants /\ DOMAIN participants' = DOMAIN participants
        /\ overwritten' = overwritten \cup (IF edit.writes THEN {edit.p} ELSE {})
    BY <1>0, EditWriteEffect
  <2> QED
    BY <1>0, <1>2, <2>1 DEF DeskTypeOK, Edit
<1> QED
  BY <1>1, <1>3, <1>4, <1>5 DEF DeskInv

(* Steps of PaymentFlow, with what they do to the rooms. *)
LEMMA DeskFlowStep ==
  ASSUME DeskInv,
         \/ Flow /\ UNCHANGED deskVars
         \/ \E s \in Slots : DeskPaidCommit(s) \/ DeskPaidEmit(s) \/ DeskWebhookFails(s)
         \/ DeskCrash
  PROVE  DeskInv'
<1>0. DeskTypeOK /\ EditHolds
  BY DEF DeskInv
<1>1. Next /\ UNCHANGED overwritten /\ UNCHANGED edits
  BY FlowIsNext DEF DeskPaidCommit, DeskPaidEmit, DeskWebhookFails, DeskCrash, deskVars,
                    Next, Paid
<1>2. SInv(overwritten)' /\ Grows /\ HistoryStands
  BY <1>1, FlowKeeps DEF DeskInv
<1>3. edit' = edit \/ edit' = NoEdit
  BY DEF DeskPaidCommit, DeskPaidEmit, DeskWebhookFails, DeskCrash, deskVars
<1>4. EditHolds'
  BY <1>0, <1>2, <1>3, EditHoldsStep DEF DeskInv
<1>5. WaitersAreInRoom' /\ RoomIsTold'
  <2>1. ASSUME NEW s \in Slots,
               DeskPaidCommit(s) \/ DeskPaidEmit(s) \/ DeskWebhookFails(s)
        PROVE  WaitersAreInRoom' /\ RoomIsTold'
    BY <1>2, <2>1, DeskPaidCommitTells, DeskPaidEmitTells, DeskWebhookFailsTells
  <2>2. CASE DeskCrash
    BY <1>2, <2>2, OthersTell DEF DeskCrash
  <2>3. CASE Flow /\ UNCHANGED deskVars
    <3>1. \A t \in Slots : Has(t, {"committed"}) => req'[t] = req[t]
      BY <2>3, FlowKeepsCommitted DEF DeskInv, SInv, IInv
    <3> QED
      BY <1>2, <2>3, <3>1, OthersTell DEF deskVars
  <2> QED
    BY <2>1, <2>2, <2>3
<1>6. DeskTypeOK'
  <2>1. DOMAIN participants \subseteq DOMAIN participants'
    BY <1>2 DEF HistoryStands
  <2>2. edit' \in Edit
    BY <1>0, <1>3 DEF DeskTypeOK, Edit
  <2>3. rooms' \subseteq Invoices /\ heard' \subseteq Invoices /\ due' \subseteq Invoices
    BY <1>0 DEF DeskTypeOK, DeskPaidCommit, DeskPaidEmit, EmitPaymentPaid, DeskWebhookFails,
                DeskCrash, deskVars
  <2> QED
    BY <1>0, <1>1, <2>1, <2>2, <2>3 DEF DeskTypeOK
<1> QED
  BY <1>2, <1>4, <1>5, <1>6 DEF DeskInv

LEMMA NextDeskInv == ASSUME DeskInv, [DeskNext]_allVars PROVE DeskInv'
<1>1. CASE Desk \/ UNCHANGED allVars
  BY <1>1, DeskOnlyStep, EditWriteStep DEF Desk
<1>2. CASE ~Desk /\ DeskNext
  BY <1>2, DeskFlowStep DEF DeskNext
<1> QED
  BY <1>1, <1>2

LEMMA DeskInvariance == DeskSpec => []DeskInv
<1>1. DeskInv /\ [DeskNext]_allVars => DeskInv'
  BY NextDeskInv
<1> QED
  BY InitDeskInv, <1>1, PTL DEF DeskSpec

(* The backoffice, the socket and PaymentFlow keep their types together. *)
THEOREM DeskTypes == DeskSpec => []DeskTypeOK
<1>1. DeskInv => DeskTypeOK
  BY DEF DeskInv
<1> QED
  BY <1>1, DeskInvariance, PTL

(* A backoffice edit that a webhook or a regeneration overtakes makes nobody's
   status wrong but that of the participant it edits.                      *)
THEOREM EditsSpareOthers == DeskSpec => []OnlyEditedDiffer
<1>1. DeskInv => OnlyEditedDiffer
  BY DEF DeskInv, SInv, TablesInv, OneStatus, PaidOnesActive, Own, OnlyEditedDiffer
<1> QED
  BY <1>1, DeskInvariance, PTL

(* No edit, however late it is saved, makes somebody ACTIVE who was not paid
   for.                                                                    *)
THEOREM EditsGiveNothingAway == DeskSpec => []EditedArePaidFor
<1>1. DeskInv => EditedArePaidFor
  BY DEF DeskInv, SInv, TablesInv, ActiveWasPaid, PaidHasMoney, PaidForAll, IsPaid,
         ActiveIsPaidFor, EditedArePaidFor
<1> QED
  BY <1>1, DeskInvariance, PTL

(* A client that stays in the room misses no payment committed meanwhile. *)
THEOREM RoomsAreTold == DeskSpec => []RoomIsTold
<1>1. DeskInv => RoomIsTold
  BY DEF DeskInv
<1> QED
  BY <1>1, DeskInvariance, PTL

(* Who hears of a payment is in its room then, and hears it at its first
   announcement, once it is PAID.                                          *)
THEOREM HeardFromTheRoom == DeskSpec => HeardInTheRoom
<1> DEFINE Fresh == \A i \in heard' \ heard :
                      /\ i \in rooms
                      /\ \E id \in DOMAIN payments :
                           /\ payments[id].invoice = i
                           /\ payments[id].status = "PAID"
                           /\ emitted[id] = 0 /\ emitted'[id] = 1
<1>1. ASSUME DeskInv, NEW s \in Slots, DeskPaidEmit(s) PROVE Fresh
  <2> DEFINE id == req[s].id
  <2>1. id \in DOMAIN payments /\ payments[id].status = "PAID" /\ emitted[id] = 0
    BY <1>1 DEF DeskInv, SInv, IInv, RowsExist, SettledByOne, DeskPaidEmit, PaidEmit, Has
  <2>2. emitted \in Seq(Nat) /\ id \in DOMAIN emitted
    BY <1>1, <2>1 DEF DeskInv, SInv, IInv, TypeOK, Lengths
  <2>3. emitted'[id] = 1
    BY <1>1, <2>1, <2>2 DEF DeskPaidEmit, PaidEmit
  <2>4. heard' = heard \cup (rooms \cap {payments[id].invoice})
    BY <1>1 DEF DeskPaidEmit, EmitPaymentPaid
  <2> HIDE DEF id
  <2> QED
    BY <2>1, <2>3, <2>4
<1>2. ASSUME DeskNext, \A s \in Slots : ~DeskPaidEmit(s) PROVE heard' = heard
  BY <1>2 DEF DeskNext, Desk, EditLoad, EditCompare, EditWrite, JoinPaymentRoom, Disconnect,
              DeskPaidCommit, DeskWebhookFails, DeskCrash, deskVars
<1>3. DeskInv /\ [DeskNext]_allVars => [Fresh]_allVars
  BY <1>1, <1>2
<1> QED
  BY <1>3, DeskInvariance, PTL DEF DeskSpec, HeardInTheRoom
-----------------------------------------------------------------------------
(* What PaymentFlow promises when the backoffice edits its rows. *)

(* Whatever is edited and however late it is saved, PaymentFlow's tables keep
   their types, its numbers have no gap, amounts match batches, a payment is
   announced once and after its commit, and what was acknowledged is PAID. *)
THEOREM EditsSpareTheFlow ==
  DeskSpec => [](/\ TypeOK /\ KeplekGapFree /\ AmountMatchesBatch
                 /\ EmitOnceAfterCommit /\ AckIsDurable)
<1>1. DeskInv => /\ TypeOK /\ KeplekGapFree /\ AmountMatchesBatch
                 /\ EmitOnceAfterCommit /\ AckIsDurable
  BY AmountsOfBatches, AnnouncedOnce DEF DeskInv, SInv, IInv
<1> QED
  BY <1>1, DeskInvariance, PTL

(* No edit, webhook, request or restart takes back a PAID status, a bill, a
   deletion, an announcement or a number once given.                       *)
THEOREM DeskTablesOnlyGrow == DeskSpec => [][Grows /\ HistoryStands]_allVars
<1>1. DeskInv /\ [DeskNext]_allVars => [Grows /\ HistoryStands]_allVars
  <2> SUFFICES ASSUME DeskInv, DeskNext PROVE Grows /\ HistoryStands
    OBVIOUS
  <2>1. CASE EditWrite
    BY <2>1, EditWriteKeeps DEF DeskInv
  <2>2. CASE Desk /\ ~EditWrite
    BY <2>2, QuietGrows
       DEF Desk, EditLoad, EditCompare, JoinPaymentRoom, Disconnect, vars
  <2>3. CASE ~Desk
    <3>1. Next /\ UNCHANGED overwritten
      BY <2>3, FlowIsNext
         DEF DeskNext, DeskPaidCommit, DeskPaidEmit, DeskWebhookFails, DeskCrash, deskVars,
             Next, Paid
    <3> QED
      BY <3>1, FlowKeeps DEF DeskInv
  <2> QED
    BY <2>1, <2>2, <2>3
<1> QED
  BY <1>1, DeskInvariance, PTL DEF DeskSpec

(* The socket and a webhook's announcement add nothing to PaymentFlow: of all
   the steps beside it only the backoffice's UPDATE is not one of its own. *)
THEOREM OnlyEditsLeaveFlow == DeskSpec => Init /\ [][Next \/ EditWrite]_vars
<1>1. DeskInit => Init
  BY DEF DeskInit
<1>2. [DeskNext]_allVars => [Next \/ EditWrite]_vars
  BY FlowIsNext
     DEF DeskNext, Desk, EditLoad, EditCompare, JoinPaymentRoom, Disconnect,
         DeskPaidCommit, DeskPaidEmit, DeskWebhookFails, DeskCrash, Next, Paid, allVars
<1> QED
  BY <1>1, <1>2, PTL DEF DeskSpec
=============================================================================
