------------------------ MODULE ConnectionPoolProofs ------------------------
(***************************************************************************)
(* What TLAPS proves about ConnectionPool, for any number of requests and  *)
(* connections: under the workload the module assumes no set of requests   *)
(* waits for connections that only they could give back.                   *)
(*                                                                         *)
(* The inductive invariant says how many connections a request holds at    *)
(* each of its steps, that whoever waits is about to take one and waits    *)
(* once, and keeps the two bounds of the workload.  A request that waits   *)
(* and holds a connection is then a regeneratePayment that holds one, and  *)
(* there are too few of those, and of lost connections, for all of them.   *)
(***************************************************************************)
EXTENDS ConnectionPool, FiniteSetTheorems, TLAPS

(* How many connections a request holds before each of its steps. *)
Depth == [read |-> <<0, 1>>,
          create |-> <<0, 1, 0, 1, 0, 1, 1>>,
          paid |-> <<0, 1, 1>>,
          regenerate |-> <<0, 1, 0, 1, 1, 2, 1, 1, 2, 1, 1>>]

Level(s) == IF task[s] = "none" THEN 0 ELSE Depth[task[s]][step[s]]

(* A set of n connections, for the n that occur. *)
Counts(n, held) ==
  /\ n = 0 => held = {}
  /\ n = 1 => \E c \in Conns : held = {c}
  /\ n = 2 => \E c, d \in Conns : c # d /\ held = {c, d}

HoldsLevel == \A s \in Slots : Counts(Level(s), HeldBy(s))

WaitersTake ==
  \A i \in DOMAIN queue : /\ task[queue[i]] \in Tasks
                          /\ Steps[task[queue[i]]][step[queue[i]]] = "take"

WaitOnce == \A i, j \in DOMAIN queue : queue[i] = queue[j] => i = j

RenewalsBounded == Cardinality(Renewals) <= MaxRenewals

LossBounded == Cardinality(HeldBy(Lost)) <= MaxLost

IInv ==
  /\ TypeOK
  /\ HoldsLevel
  /\ WaitersTake
  /\ WaitOnce
  /\ RenewalsBounded
  /\ LossBounded

-----------------------------------------------------------------------------
(* The steps of the requests *)

LEMMA TasksAre == Tasks = {"read", "create", "paid", "regenerate"}
  BY DEF Tasks, Steps

(* What a step does to the number of connections, for every request. *)
LEMMA StepFacts ==
  ASSUME NEW t \in Tasks, NEW i \in 1..Len(Steps[t])
  PROVE  /\ Len(Steps[t]) \in Nat
         /\ Depth[t][1] = 0 /\ 1 \in 1..Len(Steps[t])
         /\ Steps[t][i] = "take" =>
              /\ i + 1 \in 1..Len(Steps[t])
              /\ \/ Depth[t][i] = 0 /\ Depth[t][i + 1] = 1
                 \/ Depth[t][i] = 1 /\ Depth[t][i + 1] = 2 /\ t = "regenerate"
         /\ Steps[t][i] = "give" =>
              \/ i = Len(Steps[t]) /\ Depth[t][i] = 1
              \/ i # Len(Steps[t]) /\ Depth[t][i] = 1 /\ Depth[t][i + 1] = 0
              \/ i # Len(Steps[t]) /\ Depth[t][i] = 2 /\ Depth[t][i + 1] = 1
         /\ Steps[t][i] = "risk" =>
              /\ i # Len(Steps[t])
              /\ Depth[t][i] = 1 /\ Depth[t][i + 1] = 1
<1>1. CASE t = "read"
  BY <1>1 DEF Steps, Depth, Query
<1>2. CASE t = "create"
  BY <1>2 DEF Steps, Depth, Create
<1>3. CASE t = "paid"
  BY <1>3 DEF Steps, Depth, Paid
<1>4. CASE t = "regenerate"
  BY <1>4 DEF Steps, Depth, Regenerate
<1> QED
  BY <1>1, <1>2, <1>3, <1>4, TasksAre

StepTyped == \A s \in Slots :
  step[s] \in IF task[s] = "none" THEN {1} ELSE 1..Len(Steps[task[s]])

TasksTyped == /\ task \in [Slots -> Tasks \cup {"none"}]
              /\ step \in [Slots -> Nat]
              /\ StepTyped

(* The other requests stay where they are. *)
OthersStay(s) ==
  \A t \in Slots \ {s} : task'[t] = task[t] /\ step'[t] = step[t]

(* One connection more. *)
Gains(n, m) == (n = 0 /\ m = 1) \/ (n = 1 /\ m = 2)

LEMMA NoneIsNoTask == "none" \notin Tasks
  BY TasksAre

(* Going on from a step changes the level as the step says. *)
LEMMA AdvanceStep ==
  ASSUME TasksTyped, NEW s \in Slots, NEW what \in {"take", "give", "risk"},
         Runs(s, what), Advance(s)
  PROVE  /\ TasksTyped'
         /\ OthersStay(s)
         /\ Renewals' \subseteq Renewals
         /\ what = "take" => Gains(Level(s), Level(s)')
         /\ what = "give" => Gains(Level(s)', Level(s))
         /\ what = "risk" => Level(s) = 1 /\ Level(s)' = 1
<1> DEFINE t == task[s]
           i == step[s]
<1>1. t \in Tasks /\ t # "none" /\ i \in 1..Len(Steps[t]) /\ Steps[t][i] = what
  BY NoneIsNoTask DEF TasksTyped, StepTyped, Runs
<1>2. CASE i = Len(Steps[t])
  <2>1. task' = [task EXCEPT ![s] = "none"] /\ step' = [step EXCEPT ![s] = 1]
    BY <1>2 DEF Advance
  <2>2. TasksTyped' /\ OthersStay(s)
    BY <2>1 DEF TasksTyped, StepTyped, OthersStay
  <2>3. what = "give" /\ Level(s) = 1 /\ Level(s)' = 0
    BY <1>1, <1>2, <2>1, StepFacts DEF Level, TasksTyped
  <2>4. Renewals' \subseteq Renewals
    BY <2>1 DEF Renewals, TasksTyped
  <2>5. Gains(Level(s)', Level(s))
    BY <2>3 DEF Gains
  <2> QED
    BY <2>2, <2>3, <2>4, <2>5
<1>3. CASE i # Len(Steps[t])
  <2>1. task' = task /\ step' = [step EXCEPT ![s] = @ + 1]
    BY <1>3 DEF Advance
  <2>2. Len(Steps[t]) \in Nat
    BY <1>1, StepFacts
  <2>3. i + 1 \in 1..Len(Steps[t])
    BY <1>1, <1>3, <2>2
  <2>4. TasksTyped' /\ OthersStay(s)
    BY <1>1, <2>1, <2>3 DEF TasksTyped, StepTyped, OthersStay
  <2>5. Level(s) = Depth[t][i] /\ Level(s)' = Depth[t][i + 1]
    BY <1>1, <2>1 DEF Level, TasksTyped
  <2>6. Renewals' \subseteq Renewals
    BY <2>1 DEF Renewals
  <2>7. /\ what = "take" => Gains(Level(s), Level(s)')
        /\ what = "give" => Gains(Level(s)', Level(s))
        /\ what = "risk" => Level(s) = 1 /\ Level(s)' = 1
    BY <1>1, <1>3, <2>5, StepFacts DEF Gains
  <2> QED
    BY <2>4, <2>6, <2>7
<1> QED
  BY <1>2, <1>3

(* The level of a request depends on its own task and step. *)
LEMMA LevelStays ==
  ASSUME NEW s, NEW t \in Slots \ {s}, OthersStay(s)
  PROVE  Level(t)' = Level(t)
  BY DEF OthersStay, Level

LEMMA GainOne ==
  ASSUME NEW n, NEW m, NEW held, NEW c \in Conns \ held, Counts(n, held),
         Gains(n, m)
  PROVE  Counts(m, held \cup {c})
<1>1. CASE n = 0 /\ m = 1
  BY <1>1 DEF Counts
<1>2. CASE n = 1 /\ m = 2
  <2>1. PICK d \in Conns : held = {d}
    BY <1>2 DEF Counts
  <2>2. d # c /\ held \cup {c} = {d, c}
    BY <2>1
  <2> QED
    BY <1>2, <2>2 DEF Counts
<1> QED
  BY <1>1, <1>2 DEF Gains

LEMMA LoseOne ==
  ASSUME NEW n, NEW m, NEW held, NEW c \in held, Counts(n, held),
         Gains(m, n)
  PROVE  Counts(m, held \ {c})
<1>1. CASE n = 1 /\ m = 0
  BY <1>1 DEF Counts
<1>2. CASE n = 2 /\ m = 1
  <2>1. PICK d, e \in Conns : d # e /\ held = {d, e}
    BY <1>2 DEF Counts
  <2>2. held \ {c} = {d} \/ held \ {c} = {e}
    BY <2>1
  <2> QED
    BY <1>2, <2>1, <2>2 DEF Counts
<1> QED
  BY <1>1, <1>2 DEF Gains

-----------------------------------------------------------------------------
(* The actions *)

LEMMA Pool == /\ IsFiniteSet(Slots) /\ IsFiniteSet(Conns)
              /\ Free \notin Slots /\ Lost \notin Slots /\ Free # Lost
  BY PoolAssumption

LEMMA Typed == TypeOK <=> /\ TasksTyped
                          /\ holder \in [Conns -> Slots \cup {Free, Lost}]
                          /\ queue \in Seq(Slots)
  BY DEF TypeOK, TasksTyped, StepTyped

(* Fewer renewals are still few enough. *)
LEMMA RenewalsShrink ==
  ASSUME RenewalsBounded, Renewals' \subseteq Renewals
  PROVE  RenewalsBounded'
<1>1. IsFiniteSet(Renewals)
  BY Pool, FS_Subset DEF Renewals
<1>2. Cardinality(Renewals') <= Cardinality(Renewals)
  BY <1>1, FS_Subset
<1>3. Cardinality(Renewals) \in Nat /\ Cardinality(Renewals') \in Nat
  BY <1>1, FS_Subset, FS_CardinalityType
<1> QED
  BY <1>2, <1>3, WorkloadAssumption DEF RenewalsBounded

(* A request that does not wait moves alone: the queue stays right. *)
LEMMA QueueStays ==
  ASSUME NEW s \in Slots, TypeOK, WaitersTake, WaitOnce, ~Waits(s),
         OthersStay(s), UNCHANGED queue
  PROVE  WaitersTake' /\ WaitOnce'
<1>1. \A i \in DOMAIN queue : queue[i] \in Slots \ {s}
  BY DEF TypeOK, Waits
<1> QED
  BY <1>1 DEF WaitersTake, WaitOnce, OthersStay

LEMMA StartKeeps ==
  ASSUME IInv, NEW s \in Slots, NEW t \in Tasks, Start(s, t)
  PROVE  IInv'
<1> USE DEF IInv
<1>1. /\ task[s] = "none" /\ step[s] = 1
      /\ task' = [task EXCEPT ![s] = t] /\ UNCHANGED <<step, holder, queue>>
  BY DEF Start, TypeOK
<1>2. t # "none" /\ 1 \in 1..Len(Steps[t]) /\ Depth[t][1] = 0
  BY NoneIsNoTask, StepFacts, TasksAre DEF Steps, Depth, Query, Create, Paid,
     Regenerate
<1>3. TypeOK' /\ OthersStay(s)
  BY <1>1, <1>2 DEF TypeOK, OthersStay
<1>4. HoldsLevel'
  <2>1. Level(s) = 0 /\ Level(s)' = 0
    BY <1>1, <1>2 DEF Level, TypeOK
  <2>2. \A u \in Slots : Level(u)' = Level(u)
    BY <1>3, <2>1, LevelStays
  <2> QED
    BY <1>1, <2>2 DEF HoldsLevel, HeldBy, Counts
<1>5. ~Waits(s)
  BY <1>1, NoneIsNoTask DEF WaitersTake, Waits
<1>6. WaitersTake' /\ WaitOnce'
  BY <1>1, <1>3, <1>5, QueueStays
<1>7. RenewalsBounded'
  <2>1. CASE t = "regenerate"
    <3>1. Cardinality(Renewals) < MaxRenewals /\ Renewals' = Renewals \cup {s}
      BY <2>1, <1>1 DEF Start, Renewals, TypeOK
    <3>2. IsFiniteSet(Renewals) /\ Cardinality(Renewals) \in Nat
      BY Pool, FS_Subset, FS_CardinalityType DEF Renewals
    <3>3. Cardinality(Renewals') <= Cardinality(Renewals) + 1
      BY <3>1, <3>2, FS_AddElement
    <3>4. Cardinality(Renewals') \in Nat
      <4>1. IsFiniteSet(Renewals')
        BY <3>1, <3>2, FS_AddElement
      <4> QED
        BY <4>1, FS_CardinalityType
    <3> QED
      BY <3>1, <3>2, <3>3, <3>4, WorkloadAssumption DEF RenewalsBounded
  <2>2. CASE t # "regenerate"
    BY <2>2, <1>1, RenewalsShrink DEF Renewals, TypeOK
  <2> QED
    BY <2>1, <2>2
<1>8. LossBounded'
  BY <1>1 DEF LossBounded, HeldBy
<1> QED
  BY <1>3, <1>4, <1>6, <1>7, <1>8

(* Holding and queue of everyone but s, when a request goes on alone. *)
LEMMA OthersHold ==
  ASSUME IInv, NEW s \in Slots, OthersStay(s),
         Counts(Level(s)', HeldBy(s)'),
         \A t \in Slots \ {s} : HeldBy(t)' = HeldBy(t)
  PROVE  HoldsLevel'
<1>1. \A t \in Slots \ {s} : Level(t)' = Level(t)
  BY LevelStays
<1> QED
  BY <1>1 DEF IInv, HoldsLevel, Counts

LEMMA TakeKeeps ==
  ASSUME IInv, NEW s \in Slots, Take(s)
  PROVE  IInv'
<1> USE DEF IInv
<1>1. /\ Runs(s, "take") /\ Advance(s) /\ ~Waits(s) /\ UNCHANGED queue
  BY DEF Take, Runs
<1>2. PICK c \in HeldBy(Free) : holder' = [holder EXCEPT ![c] = s]
  BY DEF Take
<1>3. /\ TasksTyped' /\ OthersStay(s) /\ Renewals' \subseteq Renewals
      /\ Gains(Level(s), Level(s)')
  BY <1>1, AdvanceStep, Typed
<1>4. TypeOK'
  BY <1>1, <1>2, <1>3, Typed DEF TypeOK, TasksTyped, StepTyped, HeldBy
<1>5. HoldsLevel'
  <2>1. c \in Conns \ HeldBy(s) /\ HeldBy(s)' = HeldBy(s) \cup {c}
    BY <1>2, Pool DEF HeldBy, TypeOK
  <2>2. \A t \in Slots \ {s} : HeldBy(t)' = HeldBy(t)
    BY <1>2, Pool DEF HeldBy, TypeOK
  <2>3. Counts(Level(s)', HeldBy(s)')
    <3>1. Counts(Level(s), HeldBy(s))
      BY DEF HoldsLevel
    <3>2. Counts(Level(s)', HeldBy(s) \cup {c})
      BY <1>3, <2>1, <3>1, GainOne
    <3> QED
      BY <2>1, <3>2
  <2> QED
    BY <1>3, <2>2, <2>3, OthersHold
<1>6. WaitersTake' /\ WaitOnce'
  BY <1>1, <1>3, QueueStays
<1>7. RenewalsBounded'
  BY <1>3, RenewalsShrink
<1>8. LossBounded'
  <2>1. HeldBy(Lost)' = HeldBy(Lost)
    BY <1>2, Pool DEF HeldBy, TypeOK
  <2> QED
    BY <2>1 DEF LossBounded
<1> QED
  BY <1>4, <1>5, <1>6, <1>7, <1>8

LEMMA WaitKeeps ==
  ASSUME IInv, NEW s \in Slots, Wait(s)
  PROVE  IInv'
<1> USE DEF IInv
<1>1. /\ Runs(s, "take") /\ ~Waits(s) /\ queue' = Append(queue, s)
      /\ UNCHANGED <<task, step, holder>>
  BY DEF Wait, Runs
<1>2. queue \in Seq(Slots) /\ queue' \in Seq(Slots)
  BY <1>1 DEF TypeOK
<1>3. TypeOK'
  BY <1>1, <1>2 DEF TypeOK
<1>4. HoldsLevel' /\ RenewalsBounded' /\ LossBounded'
  BY <1>1 DEF HoldsLevel, RenewalsBounded, LossBounded, HeldBy, Level, Renewals,
     Counts
<1>5. /\ DOMAIN queue' = DOMAIN queue \cup {Len(queue) + 1}
      /\ queue'[Len(queue) + 1] = s
      /\ \A i \in DOMAIN queue : queue'[i] = queue[i] /\ queue[i] # s
      /\ Len(queue) + 1 \notin DOMAIN queue
  BY <1>1, <1>2 DEF Waits
<1>6. WaitersTake'
  BY <1>1, <1>5 DEF WaitersTake, Runs
<1>7. WaitOnce'
  BY <1>5 DEF WaitOnce
<1> QED
  BY <1>3, <1>4, <1>6, <1>7

LEMMA GiveKeeps ==
  ASSUME IInv, NEW s \in Slots, Give(s)
  PROVE  IInv'
<1> USE DEF IInv
<1>1. /\ Runs(s, "give") /\ Advance(s) /\ ~Waits(s) /\ UNCHANGED queue
  BY DEF Give, Runs
<1>2. PICK c \in HeldBy(s) : holder' = [holder EXCEPT ![c] = Free]
  BY DEF Give
<1>3. /\ TasksTyped' /\ OthersStay(s) /\ Renewals' \subseteq Renewals
      /\ Gains(Level(s)', Level(s))
  BY <1>1, AdvanceStep, Typed
<1>4. TypeOK'
  BY <1>1, <1>2, <1>3, Typed DEF TypeOK, TasksTyped, StepTyped, HeldBy
<1>5. HoldsLevel'
  <2>1. HeldBy(s)' = HeldBy(s) \ {c}
    BY <1>2, Pool DEF HeldBy, TypeOK
  <2>2. \A t \in Slots \ {s} : HeldBy(t)' = HeldBy(t)
    BY <1>2, Pool DEF HeldBy, TypeOK
  <2>3. Counts(Level(s)', HeldBy(s)')
    <3>1. Counts(Level(s), HeldBy(s))
      BY DEF HoldsLevel
    <3>2. Counts(Level(s)', HeldBy(s) \ {c})
      BY <1>3, <3>1, LoseOne
    <3> QED
      BY <2>1, <3>2
  <2> QED
    BY <1>3, <2>2, <2>3, OthersHold
<1>6. WaitersTake' /\ WaitOnce'
  BY <1>1, <1>3, QueueStays
<1>7. RenewalsBounded'
  BY <1>3, RenewalsShrink
<1>8. LossBounded'
  <2>1. HeldBy(Lost)' = HeldBy(Lost)
    BY <1>2, Pool DEF HeldBy, TypeOK
  <2> QED
    BY <2>1 DEF LossBounded
<1> QED
  BY <1>4, <1>5, <1>6, <1>7, <1>8

(* Handing on: s goes on, the first who waits gets the connection. *)
LEMMA GiveToNextKeeps ==
  ASSUME IInv, NEW s \in Slots, GiveToNext(s)
  PROVE  IInv'
<1> USE DEF IInv
<1> DEFINE i == step[s]
           ends == i = Len(Steps[task[s]])
<1>0. PICK t \in Slots : t = Head(queue)
  BY DEF GiveToNext, TypeOK
<1>1. /\ Runs(s, "give") /\ ~Waits(s) /\ queue # <<>> /\ queue' = Tail(queue)
      /\ step' = [step EXCEPT ![s] = IF ends THEN 1 ELSE @ + 1, ![t] = @ + 1]
      /\ task' = [task EXCEPT ![s] = IF ends THEN "none" ELSE @]
  BY <1>0 DEF GiveToNext, Runs
<1>2. PICK c \in HeldBy(s) : holder' = [holder EXCEPT ![c] = t]
  BY <1>0 DEF GiveToNext
<1>3. /\ queue \in Seq(Slots) /\ queue' \in Seq(Slots)
      /\ 1 \in DOMAIN queue /\ t = queue[1] /\ t \in Slots
      /\ \A j \in DOMAIN queue' : /\ j + 1 \in DOMAIN queue
                                  /\ queue'[j] = queue[j + 1]
  BY <1>0, <1>1 DEF TypeOK
<1>4. t # s
  BY <1>1, <1>3 DEF Waits
<1>5. /\ task[s] \in Tasks /\ task[s] # "none"
      /\ i \in 1..Len(Steps[task[s]]) /\ Steps[task[s]][i] = "give"
  BY <1>1, NoneIsNoTask DEF TypeOK, Runs
<1>6. /\ task[t] \in Tasks /\ task[t] # "none"
      /\ step[t] \in 1..Len(Steps[task[t]]) /\ Steps[task[t]][step[t]] = "take"
  BY <1>3, NoneIsNoTask DEF WaitersTake, TypeOK
<1>7. /\ task'[t] = task[t] /\ step'[t] = step[t] + 1
      /\ step'[t] \in 1..Len(Steps[task[t]])
      /\ Gains(Level(t), Level(t)')
  <2>1. task'[t] = task[t] /\ step'[t] = step[t] + 1
    BY <1>1, <1>3, <1>4 DEF TypeOK
  <2>2. Level(t) = Depth[task[t]][step[t]] /\ Level(t)' = Depth[task[t]][step[t] + 1]
    BY <1>6, <2>1 DEF Level
  <2> QED
    BY <1>6, <2>1, <2>2, StepFacts DEF Gains
<1>8. /\ task'[s] \in Tasks \cup {"none"} /\ step'[s] \in Nat
      /\ step'[s] \in IF task'[s] = "none" THEN {1} ELSE 1..Len(Steps[task'[s]])
      /\ Gains(Level(s)', Level(s))
  <2>1. CASE ends
    <3>1. task'[s] = "none" /\ step'[s] = 1
      BY <1>1, <1>4, <2>1 DEF TypeOK
    <3>2. Level(s) = Depth[task[s]][i] /\ Level(s)' = 0
      BY <1>5, <3>1 DEF Level
    <3>3. Level(s) = 1
      BY <1>5, <2>1, <3>2, StepFacts
    <3> QED
      BY <3>1, <3>2, <3>3 DEF Gains
  <2>2. CASE ~ends
    <3>1. task'[s] = task[s] /\ step'[s] = i + 1
      BY <1>1, <1>4, <2>2 DEF TypeOK
    <3>2. Level(s) = Depth[task[s]][i] /\ Level(s)' = Depth[task[s]][i + 1]
      BY <1>5, <3>1 DEF Level
    <3>3. Len(Steps[task[s]]) \in Nat
      BY <1>5, StepFacts
    <3>4. Gains(Level(s)', Level(s))
      BY <1>5, <2>2, <3>2, StepFacts DEF Gains
    <3> QED
      BY <1>5, <2>2, <3>1, <3>3, <3>4
  <2> QED
    BY <2>1, <2>2
<1>9. \A u \in Slots \ {s, t} : task'[u] = task[u] /\ step'[u] = step[u]
  BY <1>1, <1>3 DEF TypeOK
<1>10. TypeOK'
  <2>1. /\ task' \in [Slots -> Tasks \cup {"none"}]
        /\ \A u \in Slots :
             /\ step'[u] \in Nat
             /\ step'[u] \in IF task'[u] = "none" THEN {1}
                             ELSE 1..Len(Steps[task'[u]])
    BY <1>1, <1>3, <1>5, <1>6, <1>7, <1>8, <1>9 DEF TypeOK
  <2>2. step' \in [Slots -> Nat]
    BY <1>1, <2>1 DEF TypeOK
  <2>3. holder' \in [Conns -> Slots \cup {Free, Lost}]
    BY <1>2, <1>3 DEF TypeOK
  <2> QED
    BY <1>3, <2>1, <2>2, <2>3 DEF TypeOK
<1>11. HoldsLevel'
  <2>1. HeldBy(s)' = HeldBy(s) \ {c}
    BY <1>2, <1>4 DEF HeldBy, TypeOK
  <2>2. c \in Conns \ HeldBy(t) /\ HeldBy(t)' = HeldBy(t) \cup {c}
    BY <1>2, <1>4 DEF HeldBy, TypeOK
  <2>3. \A u \in Slots \ {s, t} : HeldBy(u)' = HeldBy(u) /\ Level(u)' = Level(u)
    BY <1>2, <1>9 DEF HeldBy, Level, TypeOK
  <2>4. Counts(Level(s)', HeldBy(s)')
    BY <1>8, <2>1, LoseOne DEF HoldsLevel
  <2>5. Counts(Level(t)', HeldBy(t)')
    BY <1>3, <1>7, <2>2, GainOne DEF HoldsLevel
  <2>6. \A u \in Slots \ {s, t} : Counts(Level(u)', HeldBy(u)')
    BY <2>3 DEF HoldsLevel
  <2>7. \A u \in Slots : Counts(Level(u)', HeldBy(u)')
    BY <2>4, <2>5, <2>6
  <2> QED
    BY <2>7 DEF HoldsLevel, Counts
<1>12. WaitersTake' /\ WaitOnce'
  <2>1. \A j \in DOMAIN queue' : queue'[j] \in Slots \ {s, t}
    BY <1>1, <1>3 DEF WaitOnce, Waits, TypeOK
  <2>2. WaitersTake'
    BY <1>3, <1>9, <2>1 DEF WaitersTake
  <2>3. WaitOnce'
    <3> SUFFICES ASSUME NEW j \in DOMAIN queue', NEW k \in DOMAIN queue',
                        queue'[j] = queue'[k]
                 PROVE  j = k
      BY DEF WaitOnce
    <3>1. j + 1 = k + 1
      BY <1>3 DEF WaitOnce
    <3> QED
      BY <1>3, <3>1
  <2> QED
    BY <2>2, <2>3
<1>13. RenewalsBounded'
  <2>1. Renewals' \subseteq Renewals
    BY <1>1 DEF Renewals, TypeOK
  <2> QED
    BY <2>1, RenewalsShrink
<1>14. LossBounded'
  <2>1. HeldBy(Lost)' = HeldBy(Lost)
    BY <1>2, <1>3, Pool DEF HeldBy, TypeOK
  <2> QED
    BY <2>1 DEF LossBounded
<1> QED
  BY <1>10, <1>11, <1>12, <1>13, <1>14

LEMMA GoOnKeeps ==
  ASSUME IInv, NEW s \in Slots, GoOn(s)
  PROVE  IInv'
<1> USE DEF IInv
<1>1. Runs(s, "risk") /\ Advance(s) /\ ~Waits(s) /\ UNCHANGED <<holder, queue>>
  BY DEF GoOn, Runs
<1>2. /\ TasksTyped' /\ OthersStay(s) /\ Renewals' \subseteq Renewals
      /\ Level(s) = 1 /\ Level(s)' = 1
  BY <1>1, AdvanceStep, Typed
<1>3. TypeOK'
  BY <1>1, <1>2, Typed DEF TypeOK, TasksTyped, StepTyped
<1>4. HoldsLevel'
  <2>1. \A t \in Slots : HeldBy(t)' = HeldBy(t)
    BY <1>1 DEF HeldBy
  <2>2. Counts(Level(s)', HeldBy(s)')
    BY <1>2, <2>1 DEF HoldsLevel, Counts
  <2> QED
    BY <1>2, <2>1, <2>2, OthersHold
<1>5. WaitersTake' /\ WaitOnce'
  BY <1>1, <1>2, QueueStays
<1>6. RenewalsBounded' /\ LossBounded'
  BY <1>1, <1>2, RenewalsShrink DEF LossBounded, HeldBy
<1> QED
  BY <1>3, <1>4, <1>5, <1>6

(* A request that ends early. *)
LEMMA EndStep ==
  ASSUME TypeOK, NEW s \in Slots, End(s)
  PROVE  /\ TasksTyped' /\ OthersStay(s) /\ Renewals' \subseteq Renewals
         /\ Level(s)' = 0
  BY DEF End, TypeOK, TasksTyped, StepTyped, OthersStay, Renewals, Level

LEMMA RefuseKeeps ==
  ASSUME IInv, NEW s \in Slots, Refuse(s)
  PROVE  IInv'
<1> USE DEF IInv
<1>1. End(s) /\ ~Waits(s) /\ HeldBy(s) = {} /\ UNCHANGED <<holder, queue>>
  BY DEF Refuse
<1>2. /\ TasksTyped' /\ OthersStay(s) /\ Renewals' \subseteq Renewals
      /\ Level(s)' = 0
  BY <1>1, EndStep
<1>3. TypeOK'
  BY <1>1, <1>2, Typed DEF TypeOK, TasksTyped, StepTyped
<1>4. HoldsLevel'
  <2>1. \A t \in Slots : HeldBy(t)' = HeldBy(t)
    BY <1>1 DEF HeldBy
  <2>2. Counts(Level(s)', HeldBy(s)')
    BY <1>1, <1>2, <2>1 DEF Counts
  <2> QED
    BY <1>2, <2>1, <2>2, OthersHold
<1>5. WaitersTake' /\ WaitOnce'
  BY <1>1, <1>2, QueueStays
<1>6. RenewalsBounded' /\ LossBounded'
  BY <1>1, <1>2, RenewalsShrink DEF LossBounded, HeldBy
<1> QED
  BY <1>3, <1>4, <1>5, <1>6

(* Throwing loses one connection: a request at risk holds one. *)
LEMMA ThrowKeeps ==
  ASSUME IInv, NEW s \in Slots, Throw(s)
  PROVE  IInv'
<1> USE DEF IInv
<1>1. /\ Runs(s, "risk") /\ End(s) /\ ~Waits(s) /\ UNCHANGED queue
      /\ Cardinality(HeldBy(Lost)) < MaxLost
      /\ holder' = [c \in Conns |-> IF holder[c] = s THEN Lost ELSE holder[c]]
  BY DEF Throw, Runs
<1>2. /\ TasksTyped' /\ OthersStay(s) /\ Renewals' \subseteq Renewals
      /\ Level(s)' = 0
  BY <1>1, EndStep
<1>3. TypeOK'
  BY <1>1, <1>2, Typed DEF TypeOK, TasksTyped, StepTyped
<1>4. HoldsLevel'
  <2>1. \A t \in Slots \ {s} : HeldBy(t)' = HeldBy(t)
    BY <1>1, Pool DEF HeldBy
  <2>2. HeldBy(s)' = {}
    BY <1>1, Pool DEF HeldBy
  <2>3. Counts(Level(s)', HeldBy(s)')
    BY <1>2, <2>2 DEF Counts
  <2> QED
    BY <1>2, <2>1, <2>3, OthersHold
<1>5. WaitersTake' /\ WaitOnce'
  BY <1>1, <1>2, QueueStays
<1>6. LossBounded'
  <2>1. Level(s) = 1
    BY <1>1, NoneIsNoTask, StepFacts DEF Level, Runs, TypeOK
  <2>2. PICK c \in Conns : HeldBy(s) = {c}
    BY <2>1 DEF HoldsLevel, Counts
  <2>3. HeldBy(Lost)' = HeldBy(Lost) \cup {c}
    BY <1>1, <2>2, Pool DEF HeldBy, TypeOK
  <2>4. IsFiniteSet(HeldBy(Lost)) /\ Cardinality(HeldBy(Lost)) \in Nat
    BY Pool, FS_Subset, FS_CardinalityType DEF HeldBy
  <2>5. Cardinality(HeldBy(Lost)') <= Cardinality(HeldBy(Lost)) + 1
    BY <2>3, <2>4, FS_AddElement
  <2>6. Cardinality(HeldBy(Lost)') \in Nat
    <3>1. IsFiniteSet(HeldBy(Lost)')
      BY <2>3, <2>4, FS_AddElement
    <3> QED
      BY <3>1, FS_CardinalityType
  <2> QED
    BY <1>1, <2>4, <2>5, <2>6, WorkloadAssumption DEF LossBounded
<1>7. RenewalsBounded'
  BY <1>2, RenewalsShrink
<1> QED
  BY <1>3, <1>4, <1>5, <1>6, <1>7

-----------------------------------------------------------------------------
LEMMA InitIInv == Init => IInv
<1> SUFFICES ASSUME Init PROVE IInv
  OBVIOUS
<1> USE DEF Init
<1>1. TypeOK
  BY DEF TypeOK
<1>2. HoldsLevel
  BY Pool DEF HoldsLevel, HeldBy, Level, Counts
<1>3. WaitersTake /\ WaitOnce
  BY DEF WaitersTake, WaitOnce
<1>4. RenewalsBounded
  <2>1. Renewals = {}
    BY DEF Renewals
  <2> QED
    BY <2>1, FS_EmptySet, WorkloadAssumption DEF RenewalsBounded
<1>5. LossBounded
  <2>1. HeldBy(Lost) = {}
    BY Pool DEF HeldBy
  <2> QED
    BY <2>1, FS_EmptySet, WorkloadAssumption DEF LossBounded
<1> QED
  BY <1>1, <1>2, <1>3, <1>4, <1>5 DEF IInv

LEMMA StutterKeeps == ASSUME IInv, UNCHANGED vars PROVE IInv'
  BY DEF IInv, vars, TypeOK, HoldsLevel, HeldBy, Level, Counts, WaitersTake,
     WaitOnce, RenewalsBounded, Renewals, LossBounded

LEMMA NextKeeps == IInv /\ [Next]_vars => IInv'
<1> SUFFICES ASSUME IInv, [Next]_vars PROVE IInv'
  OBVIOUS
<1>1. CASE UNCHANGED vars
  BY <1>1, StutterKeeps
<1>2. ASSUME NEW s \in Slots, NEW t \in Tasks, Start(s, t)
      PROVE  IInv'
  BY <1>2, StartKeeps
<1>3. ASSUME NEW s \in Slots, Proceed(s)
      PROVE  IInv'
  BY <1>3, TakeKeeps, WaitKeeps, GiveKeeps, GiveToNextKeeps, GoOnKeeps
     DEF Proceed
<1>4. ASSUME NEW s \in Slots, Throw(s) \/ Refuse(s)
      PROVE  IInv'
  BY <1>4, ThrowKeeps, RefuseKeeps
<1> QED
  BY <1>1, <1>2, <1>3, <1>4 DEF Next

LEMMA Invariance == Spec => []IInv
  BY InitIInv, NextKeeps, PTL DEF Spec

(* Types of the requests, the pool and its queue, for every workload. *)
THEOREM TypeCorrect == Spec => []TypeOK
<1>1. IInv => TypeOK
  BY DEF IInv
<1> QED
  BY Invariance, <1>1, PTL

(* A request that has ended holds no connection, however its queries and its
   QueryRunner overlapped.                                                 *)
THEOREM EndedHoldNothing == Spec => []EndedHoldsNothing
<1>1. IInv => EndedHoldsNothing
  BY DEF IInv, EndedHoldsNothing, HoldsLevel, Level, Counts
<1> QED
  BY Invariance, <1>1, PTL

(* The requests that wait and hold a connection are renewals and hold one
   each, so that a pool with more connections than renewals and lost
   connections always has one that is free or whose holder can go on.      *)
THEOREM NoDeadlock == Spec => []SomeoneGoesOn
<1>1. IInv => SomeoneGoesOn
  <2> SUFFICES ASSUME IInv, ~SomeoneGoesOn
               PROVE  FALSE
    OBVIOUS
  <2> USE DEF IInv
  <2> DEFINE blocked == {c \in Conns : holder[c] \in Slots /\ Waits(holder[c])}
             who == [c \in blocked |-> holder[c]]
  <2>1. Conns = HeldBy(Lost) \cup blocked
    BY DEF SomeoneGoesOn, HeldBy, TypeOK
  <2>2. \A s \in Slots : Waits(s) /\ HeldBy(s) # {} =>
          /\ task[s] = "regenerate"
          /\ \E c \in Conns : HeldBy(s) = {c}
    <3> SUFFICES ASSUME NEW s \in Slots, Waits(s), HeldBy(s) # {}
                 PROVE  /\ task[s] = "regenerate"
                        /\ \E c \in Conns : HeldBy(s) = {c}
      OBVIOUS
    <3>1. /\ task[s] \in Tasks /\ task[s] # "none"
          /\ step[s] \in 1..Len(Steps[task[s]])
          /\ Steps[task[s]][step[s]] = "take"
      BY NoneIsNoTask DEF Waits, WaitersTake, TypeOK
    <3>2. Level(s) = Depth[task[s]][step[s]]
      BY <3>1 DEF Level
    <3>3. Level(s) # 0
      BY DEF HoldsLevel, Counts
    <3>4. Level(s) = 1 /\ task[s] = "regenerate"
      BY <3>1, <3>2, <3>3, StepFacts
    <3> QED
      BY <3>4 DEF HoldsLevel, Counts
  <2>3. who \in Injection(blocked, Renewals)
    <3>1. \A c \in blocked : holder[c] \in Renewals /\ c \in HeldBy(holder[c])
      BY <2>2 DEF Renewals, HeldBy
    <3>2. \A c, d \in blocked : holder[c] = holder[d] => c = d
      BY <2>2, <3>1 DEF HeldBy
    <3> QED
      BY <3>1, <3>2 DEF Injection, IsInjective
  <2>4. IsFiniteSet(Renewals) /\ Cardinality(Renewals) \in Nat
    BY Pool, FS_Subset, FS_CardinalityType DEF Renewals
  <2>5. /\ IsFiniteSet(blocked) /\ Cardinality(blocked) \in Nat
        /\ Cardinality(blocked) <= Cardinality(Renewals)
    BY <2>3, <2>4, FS_Injection, FS_CardinalityType
  <2>6. IsFiniteSet(HeldBy(Lost)) /\ Cardinality(HeldBy(Lost)) \in Nat
    BY Pool, FS_Subset, FS_CardinalityType DEF HeldBy
  <2>7. HeldBy(Lost) \cap blocked = {}
    BY Pool DEF HeldBy
  <2>8. Cardinality(Conns) = Cardinality(HeldBy(Lost)) + Cardinality(blocked)
    <3>1. Cardinality(HeldBy(Lost) \cup blocked) =
            Cardinality(HeldBy(Lost)) + Cardinality(blocked) - 0
      BY <2>5, <2>6, <2>7, FS_Union, FS_EmptySet
    <3> HIDE DEF blocked
    <3>2. Cardinality(Conns) = Cardinality(HeldBy(Lost) \cup blocked)
      BY <2>1
    <3> QED
      BY <2>5, <2>6, <3>1, <3>2
  <2> QED
    BY <2>4, <2>5, <2>6, <2>8, WorkloadAssumption DEF RenewalsBounded, LossBounded
<1> QED
  BY Invariance, <1>1, PTL
-----------------------------------------------------------------------------
(* As long as somebody waits no connection is free. *)
WaitOnlyForBusy == queue # <<>> => HeldBy(Free) = {}

(* Whoever gets a connection is the first who waits, if anybody does. *)
FirstIsServed ==
  \A c \in Conns :
    holder'[c] \in Slots /\ holder'[c] # holder[c] =>
      queue = <<>> \/ holder'[c] = Head(queue)

LEMMA ServeStep ==
  ASSUME TypeOK, WaitOnlyForBusy, [Next]_vars
  PROVE  WaitOnlyForBusy' /\ FirstIsServed
<1>1. CASE UNCHANGED <<holder, queue>>
  BY <1>1 DEF WaitOnlyForBusy, FirstIsServed, HeldBy
<1>2. ASSUME NEW s \in Slots, Take(s) PROVE WaitOnlyForBusy' /\ FirstIsServed
  BY <1>2 DEF Take, WaitOnlyForBusy, FirstIsServed
<1>3. ASSUME NEW s \in Slots, Wait(s) PROVE WaitOnlyForBusy' /\ FirstIsServed
  BY <1>3 DEF Wait, WaitOnlyForBusy, FirstIsServed, HeldBy
<1>4. ASSUME NEW s \in Slots, Give(s) PROVE WaitOnlyForBusy' /\ FirstIsServed
  BY <1>4 DEF Give, WaitOnlyForBusy, FirstIsServed
<1>5. ASSUME NEW s \in Slots, GiveToNext(s) PROVE WaitOnlyForBusy' /\ FirstIsServed
  <2>1. PICK c \in Conns : holder' = [holder EXCEPT ![c] = Head(queue)]
    BY <1>5 DEF GiveToNext, HeldBy
  <2>2. Head(queue) \in Slots /\ queue # <<>>
    BY <1>5 DEF GiveToNext, TypeOK
  <2>3. HeldBy(Free)' \subseteq HeldBy(Free)
    BY <2>1, <2>2, Pool DEF HeldBy, TypeOK
  <2> QED
    BY <2>1, <2>2, <2>3 DEF WaitOnlyForBusy, FirstIsServed, TypeOK
<1>6. ASSUME NEW s \in Slots, Throw(s) PROVE WaitOnlyForBusy' /\ FirstIsServed
  <2>1. /\ holder' = [c \in Conns |-> IF holder[c] = s THEN Lost ELSE holder[c]]
        /\ UNCHANGED queue
    BY <1>6 DEF Throw
  <2>2. HeldBy(Free)' \subseteq HeldBy(Free)
    BY <2>1, Pool DEF HeldBy
  <2>3. FirstIsServed
    BY <2>1, Pool DEF FirstIsServed
  <2> QED
    BY <2>1, <2>2, <2>3 DEF WaitOnlyForBusy
<1>7. ASSUME NEW s \in Slots,
             Refuse(s) \/ GoOn(s) \/ \E t \in Tasks : Start(s, t)
      PROVE  UNCHANGED <<holder, queue>>
  BY <1>7 DEF Refuse, GoOn, Start
<1>8. UNCHANGED vars => UNCHANGED <<holder, queue>>
  BY DEF vars
<1> QED
  BY <1>1, <1>2, <1>3, <1>4, <1>5, <1>6, <1>7, <1>8 DEF Next, Proceed

(* A request that comes while others wait does not overtake them, whatever is
   given back, lost or handed on meanwhile.                                *)
THEOREM NobodyOvertakes == Spec => [][FirstIsServed]_vars
<1>1. Init => WaitOnlyForBusy
  BY DEF Init, WaitOnlyForBusy
<1>2. TypeOK /\ WaitOnlyForBusy /\ [Next]_vars => WaitOnlyForBusy' /\ [FirstIsServed]_vars
  BY ServeStep
<1> QED
  BY <1>1, <1>2, TypeCorrect, PTL DEF Spec
=============================================================================
