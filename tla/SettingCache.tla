---------------------------- MODULE SettingCache ----------------------------
(***************************************************************************)
(* The setting that holds the Xendit credentials: SettingService keeps its *)
(* row in MySQL and a copy in Redis that never expires, and the webhook's  *)
(* guard compares the token of every webhook with it.                      *)
(*                                                                         *)
(* findByKey reads the copy; without one it reads the row and then fills   *)
(* the cache.  save removes the copy and then writes the row.  Every await *)
(* is an action, and nothing locks.  A setting is named by its             *)
(* callbackToken.                                                          *)
(***************************************************************************)
EXTENDS Naturals

CONSTANTS
  Slots,      \* handlers that run at the same time
  Values,     \* the settings an admin saves, and the tokens Xendit sends
  None,       \* no copy, no row; findByKey's undefined
  MaxSaves,   \* bound: saves ever begun
  MaxFaults   \* bound: rejected calls to Redis or MySQL, and restarts

ASSUME NoneAssumption   == None \notin Values
ASSUME BoundsAssumption == MaxSaves \in Nat /\ MaxFaults \in Nat

VARIABLES
  row,        \* the setting's row
  cache,      \* its copy in the cache
  req,        \* what each slot's handler holds between two awaits
  saves,      \* saves begun so far
  faults      \* rejected calls and restarts so far

(* History, read by the properties only. *)
VARIABLES
  overlapped, \* a find that missed and a save ran at once, and no save since
              \* has removed the copy with no find running
  verdict,    \* the last answer to a webhook's token
  killed      \* how the guard last ended the process

vars == <<row, cache, req, saves, faults, overlapped, verdict, killed>>

-----------------------------------------------------------------------------
Idle == [pc |-> "idle"]

(* Who reads the setting: the guard for a webhook with this token, or
   getAuthorization for a call to Xendit, which sends none.                *)
Tokens == Values \cup {None}

(* A find "missed" the cache, or has read the row and is "filling" the cache;
   seen are the rows there were since it began.  A save has "looked" whether
   the row exists, or "removed" the copy.                                  *)
Request ==
       {Idle}
  \cup [pc : {"missed"}, token : Tokens, seen : SUBSET Tokens]
  \cup [pc : {"filling"}, token : Tokens, seen : SUBSET Tokens, value : Values]
  \cup [pc : {"looked", "removed"}, value : Values, exists : BOOLEAN]

Finding(s) == req[s].pc \in {"missed", "filling"}
Saving(s) == req[s].pc \in {"looked", "removed"}
SomeFind == \E s \in Slots : Finding(s)
SomeSave == \E s \in Slots : Saving(s)

SetReq(s, r) == req' = [req EXCEPT ![s] = r]

(* A webhook is let in if its token is the setting's. *)
Judge(r, value) ==
  verdict' = IF r.token = None THEN verdict
             ELSE [token |-> r.token, seen |-> r.seen,
                   accepted |-> r.token = value, doubt |-> overlapped]

(* findByKey ends with a setting. *)
Found(s, r, value) ==
  /\ SetReq(s, Idle)
  /\ Judge(r, value)
  /\ UNCHANGED killed

(* findByKey ends with undefined, or rejects.  getAuthorization rejects, its
   request answers 500.  validateCallback rejects too, but in the guard's
   verify callback, whose promise nobody awaits: the unhandled rejection ends
   the process with every request that runs.                               *)
NotFound(s, r, failed) ==
  /\ IF r.token = None
     THEN SetReq(s, Idle) /\ UNCHANGED killed
     ELSE /\ req' = [t \in Slots |-> Idle]
          /\ killed' = [seen |-> r.seen, failed |-> failed]
  /\ UNCHANGED verdict

Fault == faults < MaxFaults /\ faults' = faults + 1

-----------------------------------------------------------------------------
(* findByKey *)

\* Mutant: a missing copy is not looked for in the table.
FindMissUndefined(s, token) ==
  /\ req[s] = Idle
  /\ cache = None
  /\ NotFound(s, [token |-> token, seen |-> {row}], FALSE)
  /\ UNCHANGED <<row, cache, saves, faults, overlapped>>

FindHit(s, token) ==
  /\ req[s] = Idle
  /\ cache # None
  /\ Found(s, [token |-> token, seen |-> {row}], cache)
  /\ UNCHANGED <<row, cache, saves, faults, overlapped>>

FindMiss(s, token) ==
  /\ req[s] = Idle
  /\ cache = None
  /\ SetReq(s, [pc |-> "missed", token |-> token, seen |-> {row}])
  /\ overlapped' = (overlapped \/ SomeSave)
  /\ UNCHANGED <<row, cache, saves, faults, verdict, killed>>

\* Mutant: a find that read no row fills the cache all the same.
FindReadAnything(s) ==
  /\ req[s].pc = "missed"
  /\ SetReq(s, [pc |-> "filling", token |-> req[s].token,
                seen |-> req[s].seen, value |-> row])
  /\ UNCHANGED <<row, cache, saves, faults, overlapped, verdict, killed>>

FindRead(s) ==
  /\ req[s].pc = "missed"
  /\ IF row # None
     THEN /\ SetReq(s, [pc |-> "filling", token |-> req[s].token,
                        seen |-> req[s].seen, value |-> row])
          /\ UNCHANGED <<verdict, killed>>
     ELSE NotFound(s, req[s], FALSE)
  /\ UNCHANGED <<row, cache, saves, faults, overlapped>>

FindFill(s) ==
  /\ req[s].pc = "filling"
  /\ cache' = req[s].value
  /\ Found(s, req[s], req[s].value)
  /\ UNCHANGED <<row, saves, faults, overlapped>>

(* A call to the cache or the table is rejected, the first one or another. *)
FindFails(s) ==
  /\ Fault
  /\ \/ Finding(s) /\ NotFound(s, req[s], TRUE)
     \/ /\ req[s] = Idle
        /\ \E token \in Tokens :
             NotFound(s, [token |-> token, seen |-> {row}], TRUE)
  /\ UNCHANGED <<row, cache, saves, overlapped>>

-----------------------------------------------------------------------------
(* save *)

SaveLook(s, value) ==
  /\ req[s] = Idle
  /\ saves < MaxSaves
  /\ saves' = saves + 1
  /\ SetReq(s, [pc |-> "looked", value |-> value, exists |-> row # None])
  /\ overlapped' = (overlapped \/ SomeFind)
  /\ UNCHANGED <<row, cache, faults, verdict, killed>>

\* Mutant: the copy is not removed.
SaveRemoveNothing(s) ==
  /\ req[s].pc = "looked"
  /\ SetReq(s, [req[s] EXCEPT !.pc = "removed"])
  /\ overlapped' = (overlapped /\ SomeFind)
  /\ UNCHANGED <<row, cache, saves, faults, verdict, killed>>

SaveRemove(s) ==
  /\ req[s].pc = "looked"
  /\ cache' = None
  /\ SetReq(s, [req[s] EXCEPT !.pc = "removed"])
  /\ overlapped' = (overlapped /\ SomeFind)
  /\ UNCHANGED <<row, saves, faults, verdict, killed>>

(* What finds under way see of a new row. *)
Witnessed(value) ==
  [t \in Slots |-> IF Finding(t)
                   THEN [req[t] EXCEPT !.seen = @ \cup {value}]
                   ELSE req[t]]

(* UPDATE of the row, or INSERT, which the unique key refuses when another
   first save was faster.                                                  *)
SaveWrite(s) ==
  /\ req[s].pc = "removed"
  /\ IF req[s].exists \/ row = None
     THEN /\ row' = req[s].value
          /\ req' = [Witnessed(req[s].value) EXCEPT ![s] = Idle]
     ELSE SetReq(s, Idle) /\ UNCHANGED row
  /\ UNCHANGED <<cache, saves, faults, overlapped, verdict, killed>>

SaveFails(s) ==
  /\ Fault
  /\ Saving(s)
  /\ SetReq(s, Idle)
  /\ UNCHANGED <<row, cache, saves, overlapped, verdict, killed>>

-----------------------------------------------------------------------------
(* The process dies and is started again; Redis and MySQL go on. *)
Crash ==
  /\ Fault
  /\ \E s \in Slots : req[s] # Idle
  /\ req' = [s \in Slots |-> Idle]
  /\ UNCHANGED <<row, cache, saves, overlapped, verdict, killed>>

Init ==
  /\ row = None
  /\ cache = None
  /\ req = [s \in Slots |-> Idle]
  /\ saves = 0
  /\ faults = 0
  /\ overlapped = FALSE
  /\ verdict = None
  /\ killed = None

Find(s) ==
  \/ \E token \in Tokens : FindHit(s, token) \/ FindMiss(s, token)
  \/ FindRead(s) \/ FindFill(s) \/ FindFails(s)

Save(s) ==
  \/ \E value \in Values : SaveLook(s, value)
  \/ SaveRemove(s) \/ SaveWrite(s) \/ SaveFails(s)

Next == (\E s \in Slots : Find(s) \/ Save(s)) \/ Crash

Spec == Init /\ [][Next]_vars

-----------------------------------------------------------------------------
(* Properties *)

(* Types of the row, its copy and the handlers' state. *)
TypeOK ==
  /\ row \in Values \cup {None}
  /\ cache \in Values \cup {None}
  /\ req \in [Slots -> Request]
  /\ overlapped \in BOOLEAN

(* The copy is the row, or there is none: also after a save that failed or
   died between its two steps, and after two saves at once.  The exception is
   a find that missed and ran while a save did, which may fill the cache with
   the row the save replaced; the next save that removes the copy with no
   find running repairs that.                                              *)
StaleOnlyByOverlap == ~overlapped => cache \in {None, row}

(* With that exception, a webhook is let in only with a token the setting had
   while the webhook was checked, and is refused only if the setting had
   another one: a token that was replaced stops working with the save.     *)
TokenCheckIsCurrent ==
  verdict # None /\ ~verdict.doubt =>
    IF verdict.accepted THEN verdict.token \in verdict.seen
                        ELSE verdict.seen # {verdict.token}

(* The guard ends the process only for want of a setting, or when a call was
   rejected while the setting was looked for: never on a wrong token, and
   never because the copy alone is missing.                                *)
KilledOnlyWithoutSetting ==
  killed # None => None \in killed.seen \/ killed.failed
=============================================================================
