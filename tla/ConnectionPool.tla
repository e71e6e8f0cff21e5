--------------------------- MODULE ConnectionPool ---------------------------
(***************************************************************************)
(* The database connections requests take from TypeORM's pool and give     *)
(* back.                                                                   *)
(*                                                                         *)
(* A repository call takes a connection and gives it back; a QueryRunner   *)
(* holds its own from connect() to release(), and a repository call that   *)
(* is made meanwhile takes another.  A request without a connection waits, *)
(* first come first served and without a timeout (mysql2's defaults).      *)
(***************************************************************************)
EXTENDS Naturals, Sequences, FiniteSets

CONSTANTS
  Slots,       \* requests that run at the same time
  Conns,       \* the connections of the pool: 10, mysql2's connectionLimit,
               \* since TypeOrmConfigService sets none
  MaxRenewals, \* workload: regeneratePayment requests at the same time
  MaxLost,     \* workload: requests that throw between connect() and try
  Free, Lost   \* holders that are no slot

ASSUME PoolAssumption == /\ IsFiniteSet(Slots) /\ IsFiniteSet(Conns)
                         /\ Free \notin Slots /\ Lost \notin Slots /\ Free # Lost
ASSUME WorkloadAssumption == /\ MaxRenewals \in Nat /\ MaxLost \in Nat
                             /\ MaxRenewals + MaxLost < Cardinality(Conns)

VARIABLES
  task,    \* the request of a slot, "none" when it is idle
  step,    \* the step of it that comes next
  holder,  \* who holds each connection
  queue    \* the slots that wait for one, in order

vars == <<task, step, holder, queue>>

-----------------------------------------------------------------------------
(* What requests do with connections: "take" and "give" one, or a "risk", a
   place where the request may throw without giving back.                  *)

Query == <<"take", "give">>

\* Mutant: the invoice number is drawn inside the transaction.
CreateNested ==
  <<"take", "give", "take", "give", "take", "risk", "take", "give", "give">>

(* School, gateway and setting; the invoice number; then the transaction,
   whose QueryRunner is released in a finally, but startTransaction() comes
   before the try.                                                         *)
Create == <<"take", "give", "take", "give", "take", "risk", "give">>

(* The same for paid, refund and confirmation, without queries before. *)
Paid == <<"take", "risk", "give">>

\* Mutant: of the two queries inside the transaction the second does not give
\* its connection back.
RegenerateUnbalanced ==
  <<"take", "give", "take", "risk", "take", "give", "risk", "take", "risk", "give">>

(* The participants; then the QueryRunner connects, and the old payment, the
   gateway, the invoice number and the QR code come before the try: the
   gateway and the number, and the key for Xendit when it is not in the
   cache, are queries.                                                     *)
Regenerate ==
  <<"take", "give",
    "take", "risk", "take", "give", "risk", "take", "give", "risk", "give">>

Steps == [read |-> Query, create |-> Create, paid |-> Paid,
          regenerate |-> Regenerate]

Tasks == DOMAIN Steps

-----------------------------------------------------------------------------
HeldBy(h) == {c \in Conns : holder[c] = h}

Waits(s) == \E i \in DOMAIN queue : queue[i] = s

Runs(s, what) == /\ task[s] \in Tasks
                 /\ ~Waits(s)
                 /\ Steps[task[s]][step[s]] = what

Renewals == {s \in Slots : task[s] = "regenerate"}

\* Mutant: the last step is not the end.
AdvanceAlways(s) == /\ step' = [step EXCEPT ![s] = @ + 1]
                    /\ UNCHANGED task

(* On to the next step, or the end of the request. *)
Advance(s) ==
  IF step[s] = Len(Steps[task[s]])
  THEN /\ task' = [task EXCEPT ![s] = "none"]
       /\ step' = [step EXCEPT ![s] = 1]
  ELSE /\ step' = [step EXCEPT ![s] = @ + 1]
       /\ UNCHANGED task

End(s) == /\ task' = [task EXCEPT ![s] = "none"]
          /\ step' = [step EXCEPT ![s] = 1]

Start(s, t) ==
  /\ task[s] = "none"
  /\ t = "regenerate" => Cardinality(Renewals) < MaxRenewals
  /\ task' = [task EXCEPT ![s] = t]
  /\ UNCHANGED <<step, holder, queue>>

Take(s) ==
  /\ Runs(s, "take")
  /\ \E c \in HeldBy(Free) : holder' = [holder EXCEPT ![c] = s]
  /\ Advance(s)
  /\ UNCHANGED queue

Wait(s) ==
  /\ Runs(s, "take")
  /\ HeldBy(Free) = {}
  /\ queue' = Append(queue, s)
  /\ UNCHANGED <<task, step, holder>>

(* A connection that is given back goes to the first who waits, who then is
   a step further; it takes no step of its own.                            *)
Give(s) ==
  /\ Runs(s, "give")
  /\ queue = <<>>
  /\ \E c \in HeldBy(s) : holder' = [holder EXCEPT ![c] = Free]
  /\ Advance(s)
  /\ UNCHANGED queue

\* Mutant: the connection goes to the one who has waited least.
GiveToLast(s) ==
  /\ Runs(s, "give")
  /\ queue # <<>>
  /\ LET t == queue[Len(queue)]
     IN  /\ \E c \in HeldBy(s) : holder' = [holder EXCEPT ![c] = t]
         /\ queue' = SubSeq(queue, 1, Len(queue) - 1)
         /\ IF step[s] = Len(Steps[task[s]])
            THEN /\ step' = [step EXCEPT ![s] = 1, ![t] = @ + 1]
                 /\ task' = [task EXCEPT ![s] = "none"]
            ELSE /\ step' = [step EXCEPT ![s] = @ + 1, ![t] = @ + 1]
                 /\ UNCHANGED task

GiveToNext(s) ==
  /\ Runs(s, "give")
  /\ queue # <<>>
  /\ \E c \in HeldBy(s) : holder' = [holder EXCEPT ![c] = Head(queue)]
  /\ queue' = Tail(queue)
  /\ LET t == Head(queue)
         ends == step[s] = Len(Steps[task[s]])
     IN  /\ step' = [step EXCEPT ![s] = IF ends THEN 1 ELSE @ + 1,
                                 ![t] = @ + 1]
         /\ task' = [task EXCEPT ![s] = IF ends THEN "none" ELSE @]

(* Nothing is wrong: the request goes on. *)
GoOn(s) ==
  /\ Runs(s, "risk")
  /\ Advance(s)
  /\ UNCHANGED <<holder, queue>>

(* startTransaction() rejects; in regeneratePayment also "Payment not found",
   a gateway that is null, or a call to Xendit that rejects: the connection
   is not given back.                                                      *)
Throw(s) ==
  /\ Runs(s, "risk")
  /\ Cardinality(HeldBy(Lost)) < MaxLost
  /\ holder' = [c \in Conns |-> IF holder[c] = s THEN Lost ELSE holder[c]]
  /\ End(s)
  /\ UNCHANGED queue

(* An error before a connection is held ends the request. *)
Refuse(s) ==
  /\ task[s] \in Tasks
  /\ ~Waits(s)
  /\ HeldBy(s) = {}
  /\ End(s)
  /\ UNCHANGED <<holder, queue>>

Init ==
  /\ task = [s \in Slots |-> "none"]
  /\ step = [s \in Slots |-> 1]
  /\ holder = [c \in Conns |-> Free]
  /\ queue = <<>>

Proceed(s) == Take(s) \/ Wait(s) \/ Give(s) \/ GiveToNext(s) \/ GoOn(s)

Next ==
  \E s \in Slots :
    \/ \E t \in Tasks : Start(s, t)
    \/ Proceed(s) \/ Throw(s) \/ Refuse(s)

Spec == Init /\ [][Next]_vars

(* Every request that does not wait goes on; the pool itself serves waiters
   in order, so nothing is assumed of those.                               *)
FairSpec == Spec /\ \A s \in Slots : WF_vars(Proceed(s))

-----------------------------------------------------------------------------
(* Properties *)

(* Types of the requests, the pool and its queue. *)
TypeOK ==
  /\ task \in [Slots -> Tasks \cup {"none"}]
  /\ step \in [Slots -> Nat]
  /\ \A s \in Slots :
       step[s] \in IF task[s] = "none" THEN {1} ELSE 1..Len(Steps[task[s]])
  /\ holder \in [Conns -> Slots \cup {Free, Lost}]
  /\ queue \in Seq(Slots)

(* A request that has ended holds no connection, although queries and a
   QueryRunner overlap in it and connections are handed on in the order they
   are asked for; what is lost by throwing before the try is lost to all.  *)
EndedHoldsNothing == \A s \in Slots : task[s] = "none" => HeldBy(s) = {}

(* Not everyone waits for a connection that someone who waits must give back:
   as long as the regeneratePayment requests that run and the requests that
   have thrown before their try are together fewer than the connections, a
   connection is free or its holder can go on.                             *)
SomeoneGoesOn ==
  \E c \in Conns : /\ holder[c] # Lost
                   /\ holder[c] \in Slots => ~Waits(holder[c])

(* Under the same workload every request ends. *)
RequestsEnd == \A s \in Slots : task[s] # "none" ~> task[s] = "none"
=============================================================================
