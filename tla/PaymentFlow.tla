---------------------------- MODULE PaymentFlow ----------------------------
(***************************************************************************)
(* Registering participants, paying for them and renewing a payment.       *)
(*                                                                         *)
(* Three HTTP handlers run against one MySQL database:                     *)
(*   create             ParticipantService.create, a batch of participants *)
(*                      and the payment they share;                        *)
(*   regeneratePayment  ParticipantService.regeneratePayment, a new        *)
(*                      payment that takes over an old one's participants; *)
(*   paid               WebhookService.paid, Xendit's report that the QR   *)
(*                      code of an invoice was paid.                       *)
(* A handler runs in a slot.  Its awaits are where handlers interleave;    *)
(* one action stands for the code between two awaits at which another      *)
(* handler could see or change something it uses.                          *)
(*                                                                         *)
(* The database is InnoDB at REPEATABLE READ.  A transaction's writes show *)
(* at its commit, so they are made in the action that commits; the row     *)
(* locks it takes first are held in the slot, and an action that must wait *)
(* for a lock is disabled.  A statement that fails (a deadlock victim, a   *)
(* lost connection) is RequestFails or WebhookFails.                       *)
(***************************************************************************)
EXTENDS Pricing, Sequences, FiniteSets

CONSTANTS
  Slots,        \* handlers that run at the same time
  Invoices,     \* the invoice numbers generateInvoiceNumber can return
  Prefixes,     \* region_code and degree id, the first part of a keplekId
  MaxBatch,     \* participants one create request may bring
  MaxSeq,       \* the last sequence number a keplekId has room for (9999)
  RegisterPrice, EventSetting, Gateway,  \* the degree, event and gateway rows
  MaxPayments,  \* bound: payment rows ever inserted
  MaxFaults     \* bound: failed statements and process restarts

ASSUME BatchAssumption  == MaxBatch \in Nat
ASSUME SeqAssumption    == MaxSeq \in Nat
ASSUME PriceAssumption  == /\ RegisterPrice \in Nat
                           /\ EventSetting \in [amount : Nat, free : Nat]
                           /\ Gateway \in [min_amount : Nat, max_amount : Nat]
ASSUME BoundsAssumption == MaxPayments \in Nat /\ MaxFaults \in Nat

VARIABLES
  participants, \* the participants table, in the order of insertion
  payments,     \* the payments table by id; a deleted row stays with live = FALSE
  req,          \* what each slot's handler holds between two awaits
  money,        \* the invoices whose QR code a customer has paid at Xendit
  answered,     \* Xendit's last answer for an invoice: "none", "ok" or "error"
  faults        \* failed statements and restarts so far

(* History, read by the properties only. *)
VARIABLES
  billed,       \* for every payment id, the participants it was created for
  emitted       \* for every payment id, how often "payment paid" was emitted

vars == <<participants, payments, req, money, answered, faults, billed, emitted>>

-----------------------------------------------------------------------------
(* Types *)

ParticipantStatus == {"PENDING", "ACTIVE"}
PaymentStatus == {"PENDING", "PAID"}

Participant == [prefix : Prefixes, seq : Nat, status : ParticipantStatus,
                payment : Nat]
Payment == [invoice : Invoices, status : PaymentStatus, live : BOOLEAN,
            participant_amounts : Nat, amount : Nat]

Idle == [pc |-> "idle"]

(* create: "priced" has its invoice and QR code and no transaction yet;
   "counted" has counted the participants FOR UPDATE.
   regeneratePayment: "listed" has read the participants of the old invoice,
   outside the transaction, active being those it saw ACTIVE; "begun" has
   read the old payment, which opens the transaction's snapshot, and snapshot
   are the listed participants that are ACTIVE in it; "renewed" has the new
   invoice and its QR code.
   paid: "locked" holds the payment and its participants FOR UPDATE;
   "committed" waits for the answer to its COMMIT, which took effect.      *)
Request ==
       {Idle}
  \cup [pc : {"priced"}, invoice : Invoices, prefix : Prefixes, n : Nat]
  \cup [pc : {"counted"}, invoice : Invoices, prefix : Prefixes, n : Nat,
        count : Nat]
  \cup [pc : {"listed"}, old : Invoices, list : SUBSET Nat, active : SUBSET Nat]
  \cup [pc : {"begun"}, id : Nat, list : SUBSET Nat, active : SUBSET Nat,
        snapshot : SUBSET Nat]
  \cup [pc : {"renewed"}, id : Nat, list : SUBSET Nat, active : SUBSET Nat,
        snapshot : SUBSET Nat, invoice : Invoices]
  \cup [pc : {"locked", "committed"}, id : Nat]

-----------------------------------------------------------------------------
(* The tables *)

(* The payment rows with an invoice; the unique index leaves one at most. *)
FindPayment(invoice) ==
  {id \in DOMAIN payments : payments[id].live /\ payments[id].invoice = invoice}

(* The invoices clients have been given; the QR codes of deleted payments are
   not withdrawn.                                                          *)
HandedOut == {payments[id].invoice : id \in DOMAIN payments}

Attached(id) == {p \in DOMAIN participants : participants[p].payment = id}

Active(ps) == {p \in ps : participants[p].status = "ACTIVE"}

(* generateInvoiceNumber draws numbers until no row has the one it drew.
   Nothing reserves the number: it is unique only when it is inserted, and
   the number of a deleted row may come back.                              *)
GenerateInvoiceNumber == {i \in Invoices : FindPayment(i) = {}}

KeplekTaken(prefix, seq) ==
  \E p \in DOMAIN participants : /\ participants[p].prefix = prefix
                                 /\ participants[p].seq = seq

\* Mutants: the COUNT, or the findOne, without its pessimistic_write lock.
CountingUnlocked(s) == FALSE
LockedPaymentsNone(s) == {}

(* Row locks.  COUNT ... FOR UPDATE locks every participant and the gap after
   the last; on an empty table it locks the gap alone, which two transactions
   can do at once.  findOne FOR UPDATE locks the payment and the participants
   joined to it.                                                           *)
Counting(s) == req[s].pc = "counted"

LockedPayments(s) == IF req[s].pc = "locked" THEN {req[s].id} ELSE {}

LockedParticipants(s) ==
  {p \in DOMAIN participants : \/ Counting(s)
                               \/ participants[p].payment \in LockedPayments(s)}

Unlocked(s, ps, ids) ==
  \A t \in Slots \ {s} : /\ LockedParticipants(t) \cap ps = {}
                         /\ LockedPayments(t) \cap ids = {}

GapLocked(s) == \E t \in Slots \ {s} : Counting(t)

(* Bound: a request starts only while every request that runs could still
   insert its payment.                                                     *)
Room ==
  LET inserting == {s \in Slots : req[s].pc \notin {"idle", "locked", "committed"}}
  IN  Len(payments) + Cardinality(inserting) < MaxPayments

SetReq(s, r) == req' = [req EXCEPT ![s] = r]

Rest == UNCHANGED <<participants, payments, billed, emitted>>

InsertPayment(invoice, n, amount) ==
  Append(payments, [invoice |-> invoice, status |-> "PENDING", live |-> TRUE,
                    participant_amounts |-> n, amount |-> amount])

-----------------------------------------------------------------------------
(* create *)

(* Up to the transaction: the price is checked against the gateway's limits,
   the invoice number drawn and the QR code created.                       *)
CreateStart(s) ==
  /\ req[s] = Idle
  /\ Room
  /\ \E n \in 0..MaxBatch, prefix \in Prefixes, invoice \in GenerateInvoiceNumber :
       /\ WithinLimits(GetPrice(n, RegisterPrice, EventSetting), Gateway)
       /\ SetReq(s, [pc |-> "priced", invoice |-> invoice, prefix |-> prefix,
                     n |-> n])
  /\ Rest
  /\ UNCHANGED <<money, answered, faults>>

(* COUNT ... FOR UPDATE waits for the locks on any participant. *)
CreateCount(s) ==
  /\ req[s].pc = "priced"
  /\ Unlocked(s, DOMAIN participants, {})
  /\ SetReq(s, [pc |-> "counted", invoice |-> req[s].invoice,
                prefix |-> req[s].prefix, n |-> req[s].n,
                count |-> Len(participants)])
  /\ Rest
  /\ UNCHANGED <<money, answered, faults>>

(* What makes the loop, or the insert of the payment, throw. *)
SeqExceeded(r) == r.n > 0 /\ r.count + r.n > MaxSeq

CreateFails(r) ==
  \/ SeqExceeded(r)
  \/ FindPayment(r.invoice) # {}
  \/ \E i \in 1..r.n : KeplekTaken(r.prefix, r.count + i)

NewParticipant(r, p) ==
  [prefix |-> r.prefix, seq |-> r.count + (p - Len(participants)),
   status |-> "PENDING", payment |-> Len(payments) + 1]

(* The inserts wait for the gap another count has locked. *)
CreateCommit(s) ==
  /\ req[s].pc = "counted"
  /\ ~GapLocked(s)
  /\ ~CreateFails(req[s])
  /\ LET r == req[s]
         all == Len(participants) + r.n
     IN  /\ participants' = [p \in 1..all |-> IF p <= Len(participants)
                                              THEN participants[p]
                                              ELSE NewParticipant(r, p)]
         /\ payments' = InsertPayment(r.invoice, r.n,
                                      GetPrice(r.n, RegisterPrice, EventSetting))
         /\ billed' = Append(billed, Len(participants) + 1 .. all)
  /\ emitted' = Append(emitted, 0)
  /\ SetReq(s, Idle)
  /\ UNCHANGED <<money, answered, faults>>

\* Mutant: a throw in the loop skips the rollback and the locks stay.
CreateRollbackOnDeadlockOnly(s) ==
  /\ req[s].pc = "counted"
  /\ GapLocked(s)
  /\ SetReq(s, Idle)
  /\ Rest
  /\ UNCHANGED <<money, answered, faults>>

(* The catch: everything is rolled back.  Two transactions that counted the
   empty table each wait for the other's gap, and InnoDB rolls one back.   *)
CreateRollback(s) ==
  /\ req[s].pc = "counted"
  /\ CreateFails(req[s]) \/ GapLocked(s)
  /\ SetReq(s, Idle)
  /\ Rest
  /\ UNCHANGED <<money, answered, faults>>

-----------------------------------------------------------------------------
(* regeneratePayment *)

(* The client names any invoice it was given, also one deleted since. *)
RegenerateRead(s) ==
  /\ req[s] = Idle
  /\ Room
  /\ \E invoice \in HandedOut :
       LET list == UNION {Attached(id) : id \in FindPayment(invoice)}
       IN  SetReq(s, [pc |-> "listed", old |-> invoice, list |-> list,
                      active |-> Active(list)])
  /\ Rest
  /\ UNCHANGED <<money, answered, faults>>

(* The old payment is read in the transaction, whatever its status; without
   it the request ends in a BadRequestException.                           *)
RegenerateBegin(s) ==
  /\ req[s].pc = "listed"
  /\ \/ /\ FindPayment(req[s].old) = {}
        /\ SetReq(s, Idle)
     \/ \E id \in FindPayment(req[s].old) :
          SetReq(s, [pc |-> "begun", id |-> id, list |-> req[s].list,
                     active |-> req[s].active, snapshot |-> Active(req[s].list)])
  /\ Rest
  /\ UNCHANGED <<money, answered, faults>>

RegenerateInvoice(s) ==
  /\ req[s].pc = "begun"
  /\ \E invoice \in GenerateInvoiceNumber :
       SetReq(s, [pc |-> "renewed", id |-> req[s].id, list |-> req[s].list,
                  active |-> req[s].active, snapshot |-> req[s].snapshot,
                  invoice |-> invoice])
  /\ Rest
  /\ UNCHANGED <<money, answered, faults>>

(* The unique invoice, and the foreign key of a participant that would still
   refer to the deleted payment.                                           *)
RegenerateFails(r) ==
  \/ FindPayment(r.invoice) # {}
  \/ Attached(r.id) \ r.list # {}

(* save(participant) writes the columns that differ between the entity, as it
   was listed, and the row in the transaction's snapshot: payment always,
   status when it changed in between.                                      *)
SavedStatus(r, p) ==
  IF (p \in r.active) = (p \in r.snapshot)
  THEN participants[p].status
  ELSE IF p \in r.active THEN "ACTIVE" ELSE "PENDING"

\* Mutant: the loop leaves out the first listed participant.
MoveParticipantsFromSecond(r) ==
  [p \in DOMAIN participants |->
     IF \E q \in r.list : q < p /\ p \in r.list
     THEN [participants[p] EXCEPT !.payment = Len(payments) + 1]
     ELSE participants[p]]

MoveParticipants(r) ==
  [p \in DOMAIN participants |->
     IF p \in r.list
     THEN [participants[p] EXCEPT !.payment = Len(payments) + 1,
                                  !.status = SavedStatus(r, p)]
     ELSE participants[p]]

(* The new payment copies the old one's amount and counts the listed
   participants.  Deleting a payment that is gone deletes nothing.         *)
RegenerateCommit(s) ==
  /\ req[s].pc = "renewed"
  /\ Unlocked(s, req[s].list, {req[s].id})
  /\ ~RegenerateFails(req[s])
  /\ LET r == req[s]
     IN  /\ participants' = MoveParticipants(r)
         /\ payments' = [InsertPayment(r.invoice, Cardinality(r.list),
                                       payments[r.id].amount)
                           EXCEPT ![r.id].live = FALSE]
         /\ billed' = Append(billed, r.list)
  /\ emitted' = Append(emitted, 0)
  /\ SetReq(s, Idle)
  /\ UNCHANGED <<money, answered, faults>>

RegenerateRollback(s) ==
  /\ req[s].pc = "renewed"
  /\ RegenerateFails(req[s])
  /\ SetReq(s, Idle)
  /\ Rest
  /\ UNCHANGED <<money, answered, faults>>

-----------------------------------------------------------------------------
(* paid *)

Answer(invoice, a) == answered' = [answered EXCEPT ![invoice] = a]

(* "invalid payment": no row has the invoice. *)
PaidUnknown(invoice) ==
  /\ invoice \in money
  /\ FindPayment(invoice) = {}
  /\ \E s \in Slots : req[s] = Idle
  /\ Answer(invoice, "error")
  /\ Rest
  /\ UNCHANGED <<req, money, faults>>

\* Mutant: the row is looked up without a condition on the invoice.
PaidReadAny(s, invoice, id) ==
  /\ req[s] = Idle
  /\ invoice \in money
  /\ id \in DOMAIN payments /\ payments[id].live
  /\ Unlocked(s, Attached(id), {id})

(* findOne FOR UPDATE, of the payment and the participants joined to it. *)
PaidRead(s, invoice, id) ==
  /\ req[s] = Idle
  /\ invoice \in money
  /\ id \in FindPayment(invoice)
  /\ Unlocked(s, Attached(id), {id})

\* Mutants: PAID already is an error; the webhook is answered before the
\* commit, as by a handler that does not await paid().
PaidAgainError(s, invoice) ==
  /\ \E id \in DOMAIN payments : /\ PaidRead(s, invoice, id)
                                 /\ payments[id].status = "PAID"
  /\ Answer(invoice, "error")
  /\ Rest
  /\ UNCHANGED <<req, money, faults>>

PaidLockAnswered(s, invoice) ==
  /\ \E id \in DOMAIN payments :
       /\ PaidRead(s, invoice, id)
       /\ payments[id].status = "PENDING"
       /\ SetReq(s, [pc |-> "locked", id |-> id])
  /\ Answer(invoice, "ok")
  /\ Rest
  /\ UNCHANGED <<money, faults>>

(* PAID already: nothing to do, and no error.  The statuses that are neither
   PENDING nor PAID, which the code rejects next, are never stored.        *)
PaidAgain(s, invoice) ==
  /\ \E id \in DOMAIN payments : /\ PaidRead(s, invoice, id)
                                 /\ payments[id].status = "PAID"
  /\ Answer(invoice, "ok")
  /\ Rest
  /\ UNCHANGED <<req, money, faults>>

PaidLock(s, invoice) ==
  /\ \E id \in DOMAIN payments :
       /\ PaidRead(s, invoice, id)
       /\ payments[id].status = "PENDING"
       /\ SetReq(s, [pc |-> "locked", id |-> id])
  /\ Rest
  /\ UNCHANGED <<money, answered, faults>>

\* Mutants: the participants are not saved; only the first of them is; they
\* get the payment's status.
ActivatedNone(id) == participants
ActivatedFirst(id) ==
  [p \in DOMAIN participants |->
     IF p \in Attached(id) /\ \A q \in Attached(id) : p <= q
     THEN [participants[p] EXCEPT !.status = "ACTIVE"]
     ELSE participants[p]]
ActivatedAsPaid(id) ==
  [p \in DOMAIN participants |->
     IF p \in Attached(id)
     THEN [participants[p] EXCEPT !.status = "PAID"]
     ELSE participants[p]]

(* The participants once those of the payment are ACTIVE. *)
Activated(id) ==
  [p \in DOMAIN participants |->
     IF p \in Attached(id)
     THEN [participants[p] EXCEPT !.status = "ACTIVE"]
     ELSE participants[p]]

(* save(payment), save(payment.participants), commit. *)
PaidCommit(s) ==
  /\ req[s].pc = "locked"
  /\ LET id == req[s].id
     IN  /\ payments' = [payments EXCEPT ![id].status = "PAID"]
         /\ participants' = Activated(id)
         /\ SetReq(s, [pc |-> "committed", id |-> id])
  /\ UNCHANGED <<money, answered, faults, billed, emitted>>

(* Back from the commit: emit to the invoice's room, then answer. *)
PaidEmit(s) ==
  /\ req[s].pc = "committed"
  /\ emitted' = [emitted EXCEPT ![req[s].id] = @ + 1]
  /\ Answer(payments[req[s].id].invoice, "ok")
  /\ SetReq(s, Idle)
  /\ UNCHANGED <<participants, payments, money, faults, billed>>

-----------------------------------------------------------------------------
(* The customer, faults *)

(* A customer scans a QR code, also that of a payment deleted since. *)
CustomerPays(invoice) ==
  /\ invoice \in HandedOut
  /\ money' = money \cup {invoice}
  /\ Rest
  /\ UNCHANGED <<req, answered, faults>>

Fault == /\ faults < MaxFaults
         /\ faults' = faults + 1

(* A request's statement, or its call to Xendit, fails: what it had begun is
   rolled back.  A COMMIT that took effect, but whose answer was lost, leaves
   the tables and the handler as CreateCommit and RegenerateCommit do.     *)
RequestFails(s) ==
  /\ Fault
  /\ req[s].pc \notin {"idle", "locked", "committed"}
  /\ SetReq(s, Idle)
  /\ Rest
  /\ UNCHANGED <<money, answered>>

(* A statement of the webhook fails: rollback, and Xendit gets a 500.  When it
   is the COMMIT whose answer was lost, the webhook is "committed" and there is
   nothing to roll back, but the catch skips the emit all the same.        *)
WebhookFails(s) ==
  /\ Fault
  /\ req[s].pc \in {"locked", "committed"}
  /\ Answer(payments[req[s].id].invoice, "error")
  /\ SetReq(s, Idle)
  /\ Rest
  /\ UNCHANGED money

(* The process dies and is started again: the database rolls back what was
   open, and what the handlers held is gone.                               *)
Crash ==
  /\ Fault
  /\ \E s \in Slots : req[s] # Idle
  /\ req' = [s \in Slots |-> Idle]
  /\ Rest
  /\ UNCHANGED <<money, answered>>

-----------------------------------------------------------------------------
Init ==
  /\ participants = <<>>
  /\ payments = <<>>
  /\ req = [s \in Slots |-> Idle]
  /\ money = {}
  /\ answered = [i \in Invoices |-> "none"]
  /\ faults = 0
  /\ billed = <<>>
  /\ emitted = <<>>

Create(s) == CreateStart(s) \/ CreateCount(s) \/ CreateCommit(s) \/ CreateRollback(s)

Regenerate(s) ==
  \/ RegenerateRead(s) \/ RegenerateBegin(s) \/ RegenerateInvoice(s)
  \/ RegenerateCommit(s) \/ RegenerateRollback(s)

Paid(s) ==
  \/ \E i \in Invoices : PaidAgain(s, i) \/ PaidLock(s, i)
  \/ PaidCommit(s)
  \/ PaidEmit(s)

Next ==
  \/ \E s \in Slots : Create(s) \/ Regenerate(s) \/ Paid(s)
  \/ \E i \in Invoices : PaidUnknown(i) \/ CustomerPays(i)
  \/ \E s \in Slots : RequestFails(s) \/ WebhookFails(s)
  \/ Crash

Spec == Init /\ [][Next]_vars

(* A handler that runs goes on; one that waits for row locks gets them in
   the end, since InnoDB queues the waiters of a lock; and Xendit sends a
   webhook again until it is answered with a 2xx.                          *)
Progress(s) ==
  \/ CreateCommit(s) \/ CreateRollback(s)
  \/ RegenerateBegin(s) \/ RegenerateInvoice(s) \/ RegenerateRollback(s)
  \/ PaidCommit(s) \/ PaidEmit(s)

Deliver(i) ==
  /\ answered[i] # "ok"
  /\ \/ PaidUnknown(i)
     \/ \E s \in Slots : PaidAgain(s, i) \/ PaidLock(s, i)

Fairness ==
  /\ \A s \in Slots : /\ WF_vars(Progress(s))
                      /\ SF_vars(CreateCount(s))
                      /\ SF_vars(RegenerateCommit(s))
  /\ \A i \in Invoices : SF_vars(Deliver(i))

FairSpec == Spec /\ Fairness

-----------------------------------------------------------------------------
(* Properties *)

(* Types of the tables, the handlers' state and the history. *)
TypeOK ==
  /\ participants \in Seq(Participant)
  /\ payments \in Seq(Payment)
  /\ req \in [Slots -> Request]
  /\ money \subseteq Invoices
  /\ answered \in [Invoices -> {"none", "ok", "error"}]
  /\ faults \in Nat
  /\ billed \in Seq(SUBSET Nat)
  /\ emitted \in Seq(Nat)

(* Sequence numbers of keplekIds count the participants without a gap and
   without a repeat, whatever requests run at once, fail or are cut off: the
   number counted under the lock is still the number when the rows are
   inserted.  The database no longer has a unique index to fall back on.   *)
KeplekGapFree == \A p \in DOMAIN participants : participants[p].seq = p

(* A payment that has participants has exactly as many as it was billed for:
   a batch is never split over two payments or merged.  It costs their price,
   unless an invoice number came back: a regeneration that listed one batch
   under it may then copy the amount of the batch that has it now.         *)
InvoicesDiffer ==
  \A i, j \in DOMAIN payments : payments[i].invoice = payments[j].invoice => i = j

AmountMatchesBatch ==
  \A id \in DOMAIN payments :
    Attached(id) # {} =>
      /\ payments[id].participant_amounts = Cardinality(Attached(id))
      /\ InvoicesDiffer =>
           payments[id].amount =
             GetPrice(Cardinality(Attached(id)), RegisterPrice, EventSetting)

(* The participants of a payment are activated, or set back by a stale
   regeneration, all together.                                             *)
BatchHasOneStatus ==
  \A p, q \in DOMAIN participants :
    participants[p].payment = participants[q].payment =>
      participants[p].status = participants[q].status

(* No participant belongs to a payment that was deleted, and a PAID payment
   leaves none of its participants PENDING.                                *)
PaidMeansActive ==
  \A p \in DOMAIN participants :
    LET pay == payments[participants[p].payment]
    IN  pay.live /\ (pay.status = "PAID" => participants[p].status = "ACTIVE")

(* A participant is ACTIVE only if a customer paid some invoice issued for
   it, perhaps one that a regeneration has replaced since.                 *)
ActiveIsPaidFor ==
  \A p \in DOMAIN participants :
    participants[p].status = "ACTIVE" =>
      \E id \in DOMAIN payments : /\ p \in billed[id]
                                  /\ payments[id].invoice \in money

(* However often Xendit repeats a webhook, the room of a payment hears of it
   once, and only of a payment whose PAID status is committed.             *)
EmitOnceAfterCommit ==
  \A id \in DOMAIN payments :
    /\ emitted[id] <= 1
    /\ emitted[id] = 1 => payments[id].status = "PAID"

(* Xendit stops sending a webhook after an "ok": by then a payment with the
   invoice has been committed as PAID, and no crash takes that back.       *)
AckIsDurable ==
  \A i \in Invoices :
    answered[i] = "ok" =>
      \E id \in DOMAIN payments : /\ payments[id].invoice = i
                                  /\ payments[id].status = "PAID"

(* An invoice that was paid for does not stay unsettled because the webhook
   lost a race, its locks or its process: it is acknowledged, or a
   regeneration has deleted its payment first.                             *)
PaidInvoiceSettles ==
  \A i \in Invoices : i \in money ~> answered[i] = "ok" \/ FindPayment(i) = {}

(* Every request and webhook ends, also when it waits for another's locks. *)
RequestsEnd == \A s \in Slots : req[s].pc # "idle" ~> req[s].pc = "idle"

(* "Xendit can send a webhook more than once; if the status is PAID already
   it is no error" (webhook.service.ts): what was answered with success is
   not answered with an error when it comes again.                         *)
RepeatIsNoError ==
  [][\A i \in Invoices : answered[i] = "ok" => answered'[i] = "ok"]_vars

(* "Participants not found" (participant.service.ts): a payment is not
   regenerated without participants to take over.                          *)
RegeneratedForSomeone == \A id \in DOMAIN payments : billed[id] # {}
-----------------------------------------------------------------------------
(* The promise behind the handlers *)

(* Whoever looks at the tables only sees what Settlement allows: batches are
   billed, billed again and settled as a whole, each in one step, however the
   handlers' awaits interleave and wherever they fail.                     *)
Promise == INSTANCE Settlement WITH
  issued <- billed,
  bill <- [p \in DOMAIN participants |-> participants[p].payment],
  active <- Active(DOMAIN participants),
  settled <- {id \in DOMAIN payments : payments[id].status = "PAID"},
  withdrawn <- {id \in DOMAIN payments : ~payments[id].live}

ImplementsSettlement == Promise!Spec
=============================================================================
