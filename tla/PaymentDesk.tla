---------------------------- MODULE PaymentDesk ----------------------------
(***************************************************************************)
(* PaymentFlow with two more parties at the same rows:                     *)
(*   the backoffice, whose ParticipantService.update loads a participant,  *)
(*     sets a few of its fields and saves the whole entity;                *)
(*   the client's socket, which joins the room of an invoice and is told   *)
(*     there that it was paid (PaymentGateway).                            *)
(* save compares the entity with the row as it is then, and writes the     *)
(* columns that differ: also the status, which the edit never touched.     *)
(***************************************************************************)
EXTENDS PaymentFlow

CONSTANT MaxEdits  \* bound: edits ever begun

ASSUME EditsAssumption == MaxEdits \in Nat

VARIABLES
  edit,         \* what the backoffice's handler holds between two awaits
  edits,        \* edits begun so far
  rooms,        \* the invoices whose room the client's socket is in
  heard         \* the invoices the client was told are paid

(* History, read by the properties only. *)
VARIABLES
  overwritten,  \* participants whose status an edit has written back
  due           \* invoices committed as paid while the client was in the room

deskVars == <<edit, edits, rooms, heard, overwritten, due>>
allVars == <<vars, deskVars>>

NoEdit == [pc |-> "none"]

(* "loaded" has the entity, "compared" also the row it was compared with. *)
Edit ==
       {NoEdit}
  \cup [pc : {"loaded"}, p : Nat, status : ParticipantStatus]
  \cup [pc : {"compared"}, p : Nat, status : ParticipantStatus, writes : BOOLEAN]

-----------------------------------------------------------------------------
(* The backoffice *)

EditLoad(p) ==
  /\ edit = NoEdit
  /\ edits < MaxEdits
  /\ p \in DOMAIN participants
  /\ edit' = [pc |-> "loaded", p |-> p, status |-> participants[p].status]
  /\ edits' = edits + 1
  /\ UNCHANGED <<vars, rooms, heard, overwritten, due>>

(* save reads the row again, without a lock. *)
EditCompare ==
  /\ edit.pc = "loaded"
  /\ edit' = [pc |-> "compared", p |-> edit.p, status |-> edit.status,
              writes |-> participants[edit.p].status # edit.status]
  /\ UNCHANGED <<vars, edits, rooms, heard, overwritten, due>>

\* Mutants: the edit sets the participant ACTIVE; save writes every column.
WrittenStatusActive(p) == "ACTIVE"
WrittenStatusAlways(p) == edit.status

(* The status column is written only if it differed. *)
WrittenStatus(p) ==
  IF edit.writes THEN edit.status ELSE participants[p].status

(* UPDATE waits for the row's lock. *)
EditWrite ==
  /\ edit.pc = "compared"
  /\ \A s \in Slots : edit.p \notin LockedParticipants(s)
  /\ LET p == edit.p
     IN  /\ participants' = [participants EXCEPT ![p].status = WrittenStatus(p)]
         /\ overwritten' = IF edit.writes THEN overwritten \cup {p} ELSE overwritten
  /\ edit' = NoEdit
  /\ UNCHANGED <<payments, req, money, answered, faults, billed, emitted,
                 edits, rooms, heard, due>>

-----------------------------------------------------------------------------
(* The socket *)

\* Mutant: the room is that of the payment's id.
JoinPaymentRoomById(i) ==
  /\ i \notin rooms
  /\ rooms' = rooms \cup FindPayment(i)
  /\ UNCHANGED <<vars, edit, edits, heard, overwritten, due>>

(* Any invoice, also one that no payment has yet. *)
JoinPaymentRoom(i) ==
  /\ i \notin rooms
  /\ rooms' = rooms \cup {i}
  /\ UNCHANGED <<vars, edit, edits, heard, overwritten, due>>

(* The client's connection is lost, and with it its rooms. *)
Disconnect ==
  /\ rooms # {}
  /\ rooms' = {}
  /\ due' = due \cap heard
  /\ UNCHANGED <<vars, edit, edits, heard, overwritten>>

-----------------------------------------------------------------------------
(* PaymentFlow's steps, with what they do here *)

DeskPaidCommit(s) ==
  /\ PaidCommit(s)
  /\ due' = due \cup (rooms \cap {payments[req[s].id].invoice})
  /\ UNCHANGED <<edit, edits, rooms, heard, overwritten>>

\* Mutants: the event goes to a room of another name; it goes to every client.
EmitPaymentPaidAside(i) == heard
EmitPaymentPaidToAll(i) == heard \cup {i}

(* server.to(room).emit reaches those who are in the room now. *)
EmitPaymentPaid(i) == heard \cup (rooms \cap {i})

DeskPaidEmit(s) ==
  /\ PaidEmit(s)
  /\ heard' = EmitPaymentPaid(payments[req[s].id].invoice)
  /\ UNCHANGED <<edit, edits, rooms, overwritten, due>>

(* A COMMIT without an answer: nobody is told. *)
DeskWebhookFails(s) ==
  /\ WebhookFails(s)
  /\ due' = IF req[s].pc = "committed"
            THEN due \ ({payments[req[s].id].invoice} \ heard)
            ELSE due
  /\ UNCHANGED <<edit, edits, rooms, heard, overwritten>>

(* Sockets and the backoffice's handler go with the process. *)
DeskCrash ==
  /\ Crash
  /\ edit' = NoEdit
  /\ rooms' = {}
  /\ due' = due \cap heard
  /\ UNCHANGED <<edits, heard, overwritten>>

DeskInit ==
  /\ Init
  /\ edit = NoEdit
  /\ edits = 0
  /\ rooms = {}
  /\ heard = {}
  /\ overwritten = {}
  /\ due = {}

Desk ==
  \/ \E p \in DOMAIN participants : EditLoad(p)
  \/ EditCompare
  \/ EditWrite
  \/ \E i \in Invoices : JoinPaymentRoom(i)
  \/ Disconnect

Flow ==
  \/ \E s \in Slots : Create(s) \/ Regenerate(s) \/ RequestFails(s)
  \/ \E s \in Slots, i \in Invoices : PaidAgain(s, i) \/ PaidLock(s, i)
  \/ \E i \in Invoices : PaidUnknown(i) \/ CustomerPays(i)

DeskNext ==
  \/ Desk
  \/ Flow /\ UNCHANGED deskVars
  \/ \E s \in Slots : DeskPaidCommit(s) \/ DeskPaidEmit(s) \/ DeskWebhookFails(s)
  \/ DeskCrash

DeskSpec == DeskInit /\ [][DeskNext]_allVars

-----------------------------------------------------------------------------
(* Properties *)

(* Types of what the backoffice and the socket add. *)
DeskTypeOK ==
  /\ edit \in Edit
  /\ edits \in 0..MaxEdits
  /\ rooms \subseteq Invoices
  /\ heard \subseteq Invoices
  /\ overwritten \subseteq DOMAIN participants
  /\ due \subseteq Invoices

(* An edit that a webhook has overtaken can set back its own participant, and
   a regeneration that read it in between may do so once more, but nobody
   else: all others of a batch have one status, ACTIVE once the payment is
   PAID.                                                                   *)
OnlyEditedDiffer ==
  \A p, q \in DOMAIN participants \ overwritten :
    LET pay == payments[participants[p].payment]
    IN  /\ pay.status = "PAID" => participants[p].status = "ACTIVE"
        /\ participants[p].payment = participants[q].payment =>
             participants[p].status = participants[q].status

(* An edit does not give away a place: whoever is ACTIVE, also through a
   status an edit wrote back, was paid for.                                *)
EditedArePaidFor == ActiveIsPaidFor

(* "Emit only after the commit" (webhook.service.ts): a client in the room
   when the payment was committed hears of it by the time the webhook is
   answered, unless the process died, the COMMIT's answer was lost or the
   client left in between.                                                 *)
RoomIsTold ==
  \A i \in due \ heard :
    \E s \in Slots : req[s].pc = "committed" /\ payments[req[s].id].invoice = i

(* Who hears of an invoice is in its room at that moment: a room that is joined
   later hears nothing.  And it hears when a payment of the invoice that is
   committed as PAID is announced for the first time.                      *)
HeardInTheRoom ==
  [][\A i \in heard' \ heard :
       /\ i \in rooms
       /\ \E id \in DOMAIN payments :
            /\ payments[id].invoice = i
            /\ payments[id].status = "PAID"
            /\ emitted[id] = 0 /\ emitted'[id] = 1]_allVars
=============================================================================
