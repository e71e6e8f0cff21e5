------------------------------ MODULE Passwords ------------------------------
(***************************************************************************)
(* The password of a user: forgotPassword and updatePassword of            *)
(* AuthUserService, and PATCH /auth/user/update-me.                        *)
(*                                                                         *)
(* TypeORM's save() selects the row again, compares the whole entity, as   *)
(* it was loaded and then changed, with it, and then writes the columns    *)
(* that differ: also those that another request has written since the      *)
(* entity was loaded.  update() of one column leaves the others alone.     *)
(*                                                                         *)
(* A handler runs in a slot, with an action for every await that reads or  *)
(* writes what another handler could.  The e-mail of a user does not       *)
(* change here; a request to update-me brings a name or a password.        *)
(***************************************************************************)
EXTENDS Naturals, FiniteSets

CONSTANTS
  Slots,      \* handlers that run at the same time
  Users,
  Plain,      \* passwords users choose from
  First,      \* the password every user registered with
  Limit,      \* requests forgotPassword means to allow before a reset (7)
  MaxHashes,  \* bound: reset hashes ever generated
  MaxEdits,   \* bound: requests to update-me
  MaxFaults   \* bound: rejected calls and restarts

ASSUME PlainAssumption == First \in Plain
ASSUME SlotsAssumption == IsFiniteSet(Slots)
ASSUME BoundAssumption == /\ Limit \in Nat /\ MaxHashes \in Nat
                          /\ MaxEdits \in Nat /\ MaxFaults \in Nat

VARIABLES
  row,       \* password and hash of every user's row
  forgot,    \* the cache entry FORGOT:<email> of every user
  last,      \* the last reset hash that was generated
  mails,     \* the e-mails with a reset hash
  req,       \* what each slot's handler holds between two awaits
  edits,     \* requests to update-me so far
  faults     \* rejected calls and restarts so far

(* History, read by the properties only. *)
VARIABLES
  resets,    \* which user's password was reset with which hash
  replaced   \* the passwords of a user that a later one has replaced

history == <<resets, replaced>>
vars == <<row, forgot, last, mails, req, edits, faults, history>>

-----------------------------------------------------------------------------
Hashes == 1..MaxHashes
NoHash == 0

(* A password column: the password, and how often it has been hashed. *)
Stored == [plain : Plain, rounds : Nat]
Row == [password : Stored, hash : Hashes \cup {NoHash}]
Columns == {"password", "hash"}

(* The entry is absent, { otp_counter } or { ootp_counter }; undefined + 1 is
   NaN.                                                                    *)
NaN == 100
Absent == [absent |-> TRUE]
Entry == {Absent} \cup [otp_counter : Nat] \cup [ootp_counter : Nat]

Idle == [pc |-> "idle"]

(* forgotPassword: "counting" has loaded the user and the counter, "removed"
   has removed the entry, "noted" has written it again.
   updatePassword: "found" knows some user has the hash; "loaded" has the
   entity with its new password; "resetting" also the columns to write;
   "same" is to refuse the old password; "saved" is to reset the counter.
   update-me: "edited" has the entity with its changes, "editing" also the
   columns to write.                                                       *)
Request ==
       {Idle}
  \cup [pc : {"counting", "removed", "noted"}, user : Users, entity : Row,
        counter : Nat]
  \cup [pc : {"found"}, user : Users, hash : Hashes, new : Plain]
  \cup [pc : {"same", "saved"}, user : Users]
  \cup [pc : {"loaded"}, user : Users, hash : Hashes, entity : Row,
        previous : Stored]
  \cup [pc : {"resetting"}, user : Users, hash : Hashes, entity : Row,
        previous : Stored, writes : SUBSET Columns]
  \cup [pc : {"edited"}, user : Users, entity : Row, previous : Stored]
  \cup [pc : {"editing"}, user : Users, entity : Row, previous : Stored,
        writes : SUBSET Columns]

SetReq(s, r) == req' = [req EXCEPT ![s] = r]
GoTo(s, pc) == req' = [req EXCEPT ![s].pc = pc]

Matches(plain, stored) == stored = [plain |-> plain, rounds |-> 1]

Chosen(plain) == [plain |-> plain, rounds |-> 0]

\* Mutant: the entity does not remember the password it was loaded with.
SetPasswordAlways(entity, previous) == [entity EXCEPT !.password.rounds = @ + 1]

(* BeforeUpdate of the entity: a password that was not loaded is hashed. *)
SetPassword(entity, previous) ==
  IF entity.password # previous
  THEN [entity EXCEPT !.password.rounds = @ + 1]
  ELSE entity

(* save's SELECT: a chosen password differs from any hash. *)
Differing(u, entity) == {c \in Columns : entity[c] # row[u][c]}

(* save's UPDATE, after the hook.  A password that was chosen replaces the one
   in the row.                                                             *)
Write(u, entity, previous, writes) ==
  LET new == SetPassword(entity, previous)
      old == row[u]
  IN  /\ row' = [row EXCEPT ![u] =
                  [password |-> IF "password" \in writes THEN new.password ELSE old.password,
                   hash |-> IF "hash" \in writes THEN new.hash ELSE old.hash]]
      /\ replaced' =
           IF entity.password = previous
           THEN replaced
           ELSE [replaced EXCEPT ![u] = (@ \cup {old.password.plain})
                                          \ {entity.password.plain}]

-----------------------------------------------------------------------------
(* forgotPassword *)

NextCounter(entry) ==
  CASE entry = Absent -> 1
    [] "otp_counter" \in DOMAIN entry -> entry.otp_counter + 1
    [] "ootp_counter" \in DOMAIN entry -> NaN

TooMany(counter) == counter # NaN /\ counter > Limit

Generating ==
  Cardinality({s \in Slots : req[s].pc \in {"counting", "removed", "noted"}})

(* "to many request" is never answered: the entry has no otp_counter but 0,
   since what is counted is written to ootp_counter.
   Bound: hashes are left.                                                 *)
ForgotCount(s, u) ==
  /\ req[s] = Idle
  /\ last + Generating < MaxHashes
  /\ LET counter == NextCounter(forgot[u])
     IN  /\ ~TooMany(counter)
         /\ SetReq(s, [pc |-> "counting", user |-> u, entity |-> row[u],
                       counter |-> counter])
  /\ UNCHANGED <<row, forgot, last, mails, edits, faults, history>>

ForgotRemove(s) ==
  /\ req[s].pc = "counting"
  /\ forgot' = [forgot EXCEPT ![req[s].user] = Absent]
  /\ GoTo(s, "removed")
  /\ UNCHANGED <<row, last, mails, edits, faults, history>>

ForgotNote(s) ==
  /\ req[s].pc = "removed"
  /\ forgot' = [forgot EXCEPT ![req[s].user] = [ootp_counter |-> req[s].counter]]
  /\ GoTo(s, "noted")
  /\ UNCHANGED <<row, last, mails, edits, faults, history>>

\* Mutant: the hash is saved with the user that was loaded, not by update().
HashSaved(u, entity, hash) == [row EXCEPT ![u] = [entity EXCEPT !.hash = hash]]

(* updateHashByEmail updates the one column. *)
HashUpdated(u, entity, hash) == [row EXCEPT ![u].hash = hash]

(* A new hash, in the row and in the e-mail. *)
ForgotHash(s) ==
  /\ req[s].pc = "noted"
  /\ LET u == req[s].user
     IN  /\ row' = HashUpdated(u, req[s].entity, last + 1)
         /\ mails' = mails \cup {[to |-> u, hash |-> last + 1]}
  /\ last' = last + 1
  /\ SetReq(s, Idle)
  /\ UNCHANGED <<forgot, edits, faults, resets, replaced>>

(* The entry's hour is over. *)
ForgotExpires(u) ==
  /\ forgot[u] # Absent
  /\ forgot' = [forgot EXCEPT ![u] = Absent]
  /\ UNCHANGED <<row, last, mails, req, edits, faults, resets, replaced>>

-----------------------------------------------------------------------------
(* updatePassword *)

(* A request brings an e-mail, a hash someone was sent and a password.  Some
   user must have the hash, or it ends in "Invalid email or hash provided".*)
ResetFind(s, u, hash, new) ==
  /\ req[s] = Idle
  /\ \E mail \in mails : mail.hash = hash
  /\ IF \E v \in Users : row[v].hash = hash
     THEN SetReq(s, [pc |-> "found", user |-> u, hash |-> hash, new |-> new])
     ELSE UNCHANGED req
  /\ UNCHANGED <<row, forgot, last, mails, edits, faults, history>>

\* Mutant: any hash that some user has will do.
HasHashUnchecked(u, hash) == TRUE
HasHash(u, hash) == row[u].hash = hash

\* Mutant: the hash stays in the row.
ResetEntityKeepsHash(u, new) == [row[u] EXCEPT !.password = Chosen(new)]
\* Mutant: the hash is undefined, not null.
ResetEntityNoHash(u, new) == [password |-> Chosen(new)]
ResetEntity(u, new) == [password |-> Chosen(new), hash |-> NoHash]

(* "Invalid email or hash", the old password again, or a new one. *)
ResetLoad(s) ==
  /\ req[s].pc = "found"
  /\ LET u == req[s].user
         new == req[s].new
     IN  \/ /\ ~HasHash(u, req[s].hash)
            /\ SetReq(s, Idle)
         \/ /\ HasHash(u, req[s].hash)
            /\ Matches(new, row[u].password)
            /\ SetReq(s, [pc |-> "same", user |-> u])
         \/ /\ HasHash(u, req[s].hash)
            /\ ~Matches(new, row[u].password)
            /\ SetReq(s, [pc |-> "loaded", user |-> u, hash |-> req[s].hash,
                          entity |-> ResetEntity(u, new),
                          previous |-> row[u].password])
  /\ UNCHANGED <<row, forgot, last, mails, edits, faults, history>>

ResetCompare(s) ==
  /\ req[s].pc = "loaded"
  /\ SetReq(s, [pc |-> "resetting", user |-> req[s].user, hash |-> req[s].hash,
                entity |-> req[s].entity, previous |-> req[s].previous,
                writes |-> Differing(req[s].user, req[s].entity)])
  /\ UNCHANGED <<row, forgot, last, mails, edits, faults, history>>

ResetWrite(s) ==
  /\ req[s].pc = "resetting"
  /\ Write(req[s].user, req[s].entity, req[s].previous, req[s].writes)
  /\ resets' = resets \cup {[to |-> req[s].user, hash |-> req[s].hash]}
  /\ SetReq(s, [pc |-> "saved", user |-> req[s].user])
  /\ UNCHANGED <<forgot, last, mails, edits, faults>>

(* After a reset, and when the old password is refused, counting starts
   again.                                                                  *)
ResetCounter(s) ==
  /\ req[s].pc \in {"same", "saved"}
  /\ forgot' = [forgot EXCEPT ![req[s].user] = [otp_counter |-> 0]]
  /\ SetReq(s, Idle)
  /\ UNCHANGED <<row, last, mails, edits, faults, resets, replaced>>

-----------------------------------------------------------------------------
(* update-me *)

(* The user changes the name, or the password knowing the present one. *)
EditLoad(s, u) ==
  /\ req[s] = Idle
  /\ edits < MaxEdits
  /\ edits' = edits + 1
  /\ \/ SetReq(s, [pc |-> "edited", user |-> u, entity |-> row[u],
                   previous |-> row[u].password])
     \/ \E current, new \in Plain :
          /\ Matches(current, row[u].password)
          /\ new # current
          /\ SetReq(s, [pc |-> "edited", user |-> u,
                        entity |-> [row[u] EXCEPT !.password = Chosen(new)],
                        previous |-> row[u].password])
  /\ UNCHANGED <<row, forgot, last, mails, faults, history>>

EditCompare(s) ==
  /\ req[s].pc = "edited"
  /\ SetReq(s, [pc |-> "editing", user |-> req[s].user, entity |-> req[s].entity,
                previous |-> req[s].previous,
                writes |-> Differing(req[s].user, req[s].entity)])
  /\ UNCHANGED <<row, forgot, last, mails, edits, faults, history>>

EditWrite(s) ==
  /\ req[s].pc = "editing"
  /\ Write(req[s].user, req[s].entity, req[s].previous, req[s].writes)
  /\ SetReq(s, Idle)
  /\ UNCHANGED <<forgot, last, mails, edits, faults, resets>>

-----------------------------------------------------------------------------
Fault == /\ faults < MaxFaults
         /\ faults' = faults + 1

(* A call to the cache or the database rejects, and the request ends. *)
Fails(s) ==
  /\ Fault
  /\ req[s] # Idle
  /\ SetReq(s, Idle)
  /\ UNCHANGED <<row, forgot, last, mails, edits, history>>

Crash ==
  /\ Fault
  /\ \E s \in Slots : req[s] # Idle
  /\ req' = [s \in Slots |-> Idle]
  /\ UNCHANGED <<row, forgot, last, mails, edits, history>>

Init ==
  /\ row = [u \in Users |-> [password |-> [plain |-> First, rounds |-> 1],
                             hash |-> NoHash]]
  /\ forgot = [u \in Users |-> Absent]
  /\ last = 0
  /\ mails = {}
  /\ req = [s \in Slots |-> Idle]
  /\ edits = 0 /\ faults = 0
  /\ resets = {}
  /\ replaced = [u \in Users |-> {}]

Forgot(s) ==
  \/ \E u \in Users : ForgotCount(s, u)
  \/ ForgotRemove(s) \/ ForgotNote(s) \/ ForgotHash(s)

Reset(s) ==
  \/ \E u \in Users, hash \in Hashes, new \in Plain : ResetFind(s, u, hash, new)
  \/ ResetLoad(s) \/ ResetCompare(s) \/ ResetWrite(s) \/ ResetCounter(s)

Edit(s) ==
  \/ \E u \in Users : EditLoad(s, u)
  \/ EditCompare(s) \/ EditWrite(s)

Next ==
  \/ \E s \in Slots : Forgot(s) \/ Reset(s) \/ Edit(s) \/ Fails(s)
  \/ \E u \in Users : ForgotExpires(u)
  \/ Crash

Spec == Init /\ [][Next]_vars

-----------------------------------------------------------------------------
(* Properties *)

(* Types of rows, cache entries, the handlers' state and the history. *)
TypeOK ==
  /\ row \in [Users -> Row]
  /\ forgot \in [Users -> Entry]
  /\ last \in 0..MaxHashes
  /\ mails \subseteq [to : Users, hash : Hashes]
  /\ req \in [Slots -> Request]
  /\ edits \in Nat /\ faults \in Nat
  /\ resets \subseteq [to : Users, hash : Hashes]
  /\ replaced \in [Users -> SUBSET Plain]

(* A stored password is the hash of a password, never of a hash, however an
   entity was loaded, changed and saved: login compares it once.           *)
HashedOnce == \A u \in Users : row[u].password.rounds = 1

(* updatePassword looks the user up twice, by hash and by e-mail: a password
   is reset only with a hash that was mailed to that very user.            *)
ResetByOwnMail == resets \subseteq mails

(* A reset uses its hash up: whatever forgotPassword, another reset with the
   same hash or a failure does meanwhile, it does not work again, as long as
   no profile is edited.                                                   *)
UsedHashIsDead == edits = 0 => \A r \in resets : row[r.to].hash # r.hash

(* "Password updated successfully" (user.service.ts): once the requests have
   been answered, a password that was replaced is not the user's any more. *)
ReplacedStaysReplaced ==
  (\A s \in Slots : req[s] = Idle) =>
    \A u \in Users : row[u].password.plain \notin replaced[u]

(* The same of resets alone: they do not undo each other, nor does
   forgotPassword.                                                         *)
ResetsDoNotRevert == edits = 0 => ReplacedStaysReplaced
=============================================================================
