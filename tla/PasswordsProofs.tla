--------------------------- MODULE PasswordsProofs ---------------------------
(***************************************************************************)
(* What TLAPS proves about Passwords, for any number of handlers, users,   *)
(* passwords, hashes, edits and faults.                                    *)
(*                                                                         *)
(* RoundsInv says that whoever is about to save an entity holds either the *)
(* hashed password it loaded or a chosen one that was never hashed, so     *)
(* that the entity's hook is right; MailInv follows the reset hashes from  *)
(* the e-mail through rows and entities; PendingResets says what a reset   *)
(* that has compared will write, and that the hash it leaves alone is not  *)
(* the one it used; NoEdits is what holds as long as only resets save      *)
(* entities.                                                               *)
(***************************************************************************)
EXTENDS Passwords, FiniteSetTheorems, TLAPS

Has(s, pcs) == req[s].pc \in pcs

Forgetting == {s \in Slots : req[s].pc \in {"counting", "removed", "noted"}}

(* Whoever is to generate a hash has one left. *)
RoomInv == last + Cardinality(Forgetting) <= MaxHashes

Hashed(stored) == stored.rounds = 1
NeverHashed(stored) == stored.rounds = 0

RoundsInv ==
  /\ HashedOnce
  /\ \A s \in Slots :
       /\ Has(s, {"loaded", "resetting"}) =>
            Hashed(req[s].previous) /\ NeverHashed(req[s].entity.password)
       /\ Has(s, {"edited", "editing"}) =>
            /\ Hashed(req[s].previous)
            /\ \/ req[s].entity.password = req[s].previous
               \/ NeverHashed(req[s].entity.password)

Mailed(u, hash) == [to |-> u, hash |-> hash] \in mails

MailInv ==
  /\ \A mail \in mails : mail.hash <= last
  /\ \A u \in Users : row[u].hash # NoHash => Mailed(u, row[u].hash)
  /\ \A s \in Slots :
       /\ Has(s, {"loaded", "resetting"}) =>
            Mailed(req[s].user, req[s].hash) /\ req[s].entity.hash = NoHash
       /\ Has(s, {"edited", "editing"}) =>
            req[s].entity.hash = NoHash \/ Mailed(req[s].user, req[s].entity.hash)
  /\ ResetByOwnMail

NotReverted == \A u \in Users : row[u].password.plain \notin replaced[u]

PendingResets ==
  \A s \in Slots : Has(s, {"resetting"}) =>
    /\ "password" \in req[s].writes
    /\ edits = 0 /\ "hash" \notin req[s].writes => row[req[s].user].hash # req[s].hash

NoEdits ==
  /\ \A s \in Slots : Has(s, {"edited", "editing"}) => edits # 0
  /\ UsedHashIsDead
  /\ edits = 0 => NotReverted

IInv == TypeOK /\ RoomInv /\ RoundsInv /\ MailInv /\ PendingResets /\ NoEdits

-----------------------------------------------------------------------------
(* What a handler's record holds, by where the handler is. *)
LEMMA RequestFields ==
  ASSUME TypeOK, NEW s \in Slots
  PROVE  /\ Has(s, {"counting", "removed", "noted"}) =>
              req[s] \in [pc : {"counting", "removed", "noted"}, user : Users,
                          entity : Row, counter : Nat]
         /\ Has(s, {"found"}) =>
              req[s] \in [pc : {"found"}, user : Users, hash : Hashes, new : Plain]
         /\ Has(s, {"same", "saved"}) => req[s] \in [pc : {"same", "saved"}, user : Users]
         /\ Has(s, {"loaded"}) =>
              req[s] \in [pc : {"loaded"}, user : Users, hash : Hashes, entity : Row,
                          previous : Stored]
         /\ Has(s, {"resetting"}) =>
              req[s] \in [pc : {"resetting"}, user : Users, hash : Hashes, entity : Row,
                          previous : Stored, writes : SUBSET Columns]
         /\ Has(s, {"edited"}) =>
              req[s] \in [pc : {"edited"}, user : Users, entity : Row, previous : Stored]
         /\ Has(s, {"editing"}) =>
              req[s] \in [pc : {"editing"}, user : Users, entity : Row, previous : Stored,
                          writes : SUBSET Columns]
BY DEF TypeOK, Request, Idle, Has

LEMMA SetReqFacts ==
  ASSUME TypeOK, NEW s \in Slots, NEW r, SetReq(s, r)
  PROVE  /\ req'[s] = r
         /\ \A t \in Slots \ {s} : req'[t] = req[t]
         /\ r \in Request => req' \in [Slots -> Request]
BY DEF TypeOK, SetReq

LEMMA GoToForgot ==
  ASSUME TypeOK, NEW s \in Slots, Has(s, {"counting", "removed"}),
         NEW pc \in {"removed", "noted"}, GoTo(s, pc)
  PROVE  /\ req'[s].pc = pc
         /\ \A t \in Slots \ {s} : req'[t] = req[t]
         /\ req' \in [Slots -> Request]
<1>1. req[s] \in [pc : {"counting", "removed", "noted"}, user : Users,
                  entity : Row, counter : Nat]
  BY RequestFields DEF Has
<1>2. req' = [req EXCEPT ![s] = [req[s] EXCEPT !.pc = pc]]
  BY DEF GoTo
<1>3. [req[s] EXCEPT !.pc = pc] \in [pc : {"counting", "removed", "noted"},
                                     user : Users, entity : Row, counter : Nat]
  BY <1>1
<1>4. [req[s] EXCEPT !.pc = pc] \in Request
  BY <1>3 DEF Request
<1>5. [req[s] EXCEPT !.pc = pc].pc = pc
  BY <1>1
<1> QED
  BY <1>2, <1>4, <1>5 DEF TypeOK

-----------------------------------------------------------------------------
(* Room *)

LEMMA ForgettingFinite ==
  /\ IsFiniteSet(Forgetting)
  /\ Cardinality(Forgetting) \in Nat
BY SlotsAssumption, FS_Subset, FS_CardinalityType DEF Forgetting

LEMMA RoomKept ==
  ASSUME TypeOK, RoomInv, last' = last,
         \A t \in Slots : req'[t].pc \in {"counting", "removed", "noted"} =>
                            req[t].pc \in {"counting", "removed", "noted"}
  PROVE  RoomInv'
<1>1. Forgetting' \subseteq Forgetting
  BY DEF Forgetting
<1>2. /\ Cardinality(Forgetting') \in Nat
      /\ Cardinality(Forgetting') <= Cardinality(Forgetting)
  BY <1>1, ForgettingFinite, FS_Subset, FS_CardinalityType
<1> QED
  BY <1>2, ForgettingFinite, BoundAssumption DEF RoomInv, TypeOK

LEMMA RoomTaken ==
  ASSUME TypeOK, RoomInv, NEW s \in Slots, last + Generating < MaxHashes,
         last' = last, req[s] = Idle, req'[s].pc = "counting",
         \A t \in Slots \ {s} : req'[t] = req[t]
  PROVE  RoomInv'
<1>1. Forgetting' = Forgetting \cup {s} /\ s \notin Forgetting
  BY DEF Forgetting, Idle
<1>2. Cardinality(Forgetting') = Cardinality(Forgetting) + 1
  BY <1>1, ForgettingFinite, FS_AddElement
<1>3. last + Cardinality(Forgetting) < MaxHashes
  BY DEF Generating, Forgetting
<1> QED
  BY <1>2, <1>3, ForgettingFinite, BoundAssumption DEF RoomInv, TypeOK

LEMMA RoomUsed ==
  ASSUME TypeOK, RoomInv, NEW s \in Slots, req[s].pc = "noted", req'[s] = Idle,
         last' = last + 1, \A t \in Slots \ {s} : req'[t] = req[t]
  PROVE  RoomInv' /\ last + 1 \in Hashes
<1>1. Forgetting' = Forgetting \ {s} /\ s \in Forgetting
  BY DEF Forgetting, Idle
<1>2. /\ Cardinality(Forgetting') = Cardinality(Forgetting) - 1
      /\ Cardinality(Forgetting') \in Nat
  BY <1>1, ForgettingFinite, FS_RemoveElement, FS_CardinalityType
<1> QED
  BY <1>2, ForgettingFinite, BoundAssumption DEF RoomInv, TypeOK, Hashes

-----------------------------------------------------------------------------
(* Steps that write no row and leave no handler with an entity to save *)

Saving == {"loaded", "resetting", "edited", "editing"}

LEMMA QuietStep ==
  ASSUME IInv, UNCHANGED <<row, last, mails, edits, resets, replaced>>,
         forgot' \in [Users -> Entry], faults' \in Nat, req' \in [Slots -> Request],
         RoomInv',
         \A t \in Slots : req'[t] = req[t] \/ ~Has(t, Saving)'
  PROVE  IInv'
<1>1. TypeOK'
  BY DEF IInv, TypeOK
<1>2. RoundsInv'
  BY DEF IInv, RoundsInv, HashedOnce, Has, Saving
<1>3. MailInv'
  BY DEF IInv, MailInv, ResetByOwnMail, Mailed, Has, Saving
<1>4. PendingResets'
  BY DEF IInv, PendingResets, Has, Saving
<1>5. NoEdits'
  BY DEF IInv, NoEdits, UsedHashIsDead, NotReverted, Has, Saving
<1> QED
  BY <1>1, <1>2, <1>3, <1>4, <1>5 DEF IInv

LEMMA NextCounterType ==
  ASSUME NEW entry \in Entry PROVE NextCounter(entry) \in Nat
<1>1. CASE entry = Absent
  BY <1>1 DEF NextCounter, Absent
<1>2. CASE entry \in [otp_counter : Nat]
  BY <1>2 DEF NextCounter, Absent
<1>3. CASE entry \in [ootp_counter : Nat]
  BY <1>3 DEF NextCounter, Absent, NaN
<1> QED
  BY <1>1, <1>2, <1>3 DEF Entry

LEMMA ForgotCountStep ==
  ASSUME IInv, NEW s \in Slots, NEW u \in Users, ForgotCount(s, u)
  PROVE  IInv'
<1> DEFINE counter == NextCounter(forgot[u])
           r == [pc |-> "counting", user |-> u, entity |-> row[u], counter |-> counter]
<1>1. /\ req[s] = Idle /\ last + Generating < MaxHashes /\ SetReq(s, r)
      /\ UNCHANGED <<row, forgot, last, mails, edits, faults, resets, replaced>>
  BY DEF ForgotCount, history
<1>2. r \in Request
  <2>1. counter \in Nat
    BY NextCounterType DEF IInv, TypeOK
  <2>2. row[u] \in Row
    BY DEF IInv, TypeOK
  <2> HIDE DEF counter
  <2> QED
    BY <2>1, <2>2 DEF Request
<1>3. /\ req'[s] = r /\ req' \in [Slots -> Request]
      /\ \A t \in Slots \ {s} : req'[t] = req[t]
  BY <1>1, <1>2, SetReqFacts DEF IInv
<1>4. req'[s].pc = "counting"
  BY <1>3
<1>5. RoomInv'
  BY <1>1, <1>3, <1>4, RoomTaken DEF IInv
<1> QED
  BY <1>1, <1>3, <1>4, <1>5, QuietStep DEF IInv, TypeOK, Has, Saving

LEMMA ForgotEntrySteps ==
  ASSUME IInv, NEW s \in Slots, ForgotRemove(s) \/ ForgotNote(s)
  PROVE  IInv'
<1>1. PICK pc \in {"removed", "noted"} : GoTo(s, pc)
  BY DEF ForgotRemove, ForgotNote
<1>2. /\ Has(s, {"counting", "removed"})
      /\ UNCHANGED <<row, last, mails, edits, faults, resets, replaced>>
  BY DEF ForgotRemove, ForgotNote, Has, history
<1>3. /\ req'[s].pc = pc /\ req' \in [Slots -> Request]
      /\ \A t \in Slots \ {s} : req'[t] = req[t]
  BY <1>1, <1>2, GoToForgot DEF IInv
<1>4. forgot' \in [Users -> Entry]
  <2>1. req[s].user \in Users /\ req[s].counter \in Nat
    BY <1>2, RequestFields DEF IInv, Has
  <2> QED
    BY <2>1 DEF ForgotRemove, ForgotNote, IInv, TypeOK, Entry
<1>5. RoomInv'
  BY <1>2, <1>3, RoomKept DEF IInv, Has
<1> QED
  BY <1>2, <1>3, <1>4, <1>5, QuietStep DEF IInv, TypeOK, Has, Saving

(* The new hash is newer than any that was used. *)
LEMMA ForgotHashStep ==
  ASSUME IInv, NEW s \in Slots, ForgotHash(s)
  PROVE  IInv'
<1> DEFINE u == req[s].user
<1>1. /\ req[s].pc = "noted" /\ SetReq(s, Idle) /\ last' = last + 1
      /\ row' = [row EXCEPT ![u].hash = last + 1]
      /\ mails' = mails \cup {[to |-> u, hash |-> last + 1]}
      /\ UNCHANGED <<forgot, edits, faults, resets, replaced>>
  BY DEF ForgotHash, HashUpdated
<1>2. u \in Users
  BY <1>1, RequestFields DEF IInv, Has
<1>3. /\ req'[s] = Idle /\ req' \in [Slots -> Request]
      /\ \A t \in Slots \ {s} : req'[t] = req[t]
  BY <1>1, SetReqFacts DEF IInv, Request
<1>4. RoomInv' /\ last + 1 \in Hashes
  BY <1>1, <1>3, RoomUsed DEF IInv
<1>5. /\ row'[u] = [password |-> row[u].password, hash |-> last + 1]
      /\ \A v \in Users \ {u} : row'[v] = row[v]
      /\ row' \in [Users -> Row]
  BY <1>1, <1>2, <1>4 DEF IInv, TypeOK, Row
<1>6. /\ row'[u].password = row[u].password /\ row'[u].hash = last + 1
      /\ ~Has(s, Saving)'
  BY <1>3, <1>5 DEF Has, Saving, Idle
<1> HIDE DEF u
<1>7. TypeOK'
  BY <1>1, <1>2, <1>3, <1>4, <1>5, BoundAssumption DEF IInv, TypeOK, Hashes
<1>8. RoundsInv'
  <2>1. HashedOnce'
    BY <1>5, <1>6 DEF IInv, RoundsInv, HashedOnce
  <2> QED
    BY <1>3, <1>6, <2>1 DEF IInv, RoundsInv, Has, Saving
<1>9. MailInv'
  <2>1. \A mail \in mails' : mail.hash <= last'
    BY <1>1, <1>2, <1>4 DEF IInv, MailInv, TypeOK, Hashes
  <2>2. \A v \in Users : row'[v].hash # NoHash => Mailed(v, row[v].hash)'
    BY <1>1, <1>5, <1>6 DEF IInv, MailInv, Mailed
  <2>3. ResetByOwnMail'
    BY <1>1 DEF IInv, MailInv, ResetByOwnMail
  <2> QED
    BY <1>1, <1>3, <1>6, <2>1, <2>2, <2>3 DEF IInv, MailInv, Mailed, Has, Saving
<1>10. NoEdits'
  <2>1. UsedHashIsDead'
    <3>1. \A r \in resets : r.hash # last + 1
      BY <1>4 DEF IInv, MailInv, ResetByOwnMail, TypeOK, Hashes
    <3> QED
      BY <1>1, <1>2, <1>5, <1>6, <3>1 DEF IInv, NoEdits, UsedHashIsDead, TypeOK
  <2>2. edits' = 0 => NotReverted'
    BY <1>1, <1>5, <1>6 DEF IInv, NoEdits, NotReverted
  <2> QED
    BY <1>1, <1>3, <1>6, <2>1, <2>2 DEF IInv, NoEdits, Has, Saving
<1>11. PendingResets'
  <2> SUFFICES ASSUME NEW t \in Slots, Has(t, {"resetting"})'
               PROVE  /\ "password" \in req'[t].writes
                      /\ edits' = 0 /\ "hash" \notin req'[t].writes =>
                           row'[req'[t].user].hash # req'[t].hash
    BY DEF PendingResets
  <2>1. t # s /\ req'[t] = req[t] /\ Has(t, {"resetting"})
    BY <1>3, <1>6 DEF Has, Saving
  <2>2. Mailed(req[t].user, req[t].hash) /\ req[t].user \in Users
    BY <2>1, RequestFields DEF IInv, MailInv, Has
  <2>3. req[t].hash # last + 1
    BY <1>4, <2>2 DEF IInv, MailInv, Mailed, TypeOK, Hashes
  <2> QED
    BY <1>1, <1>5, <1>6, <2>1, <2>2, <2>3 DEF IInv, PendingResets
<1> QED
  BY <1>4, <1>7, <1>8, <1>9, <1>10, <1>11 DEF IInv

-----------------------------------------------------------------------------
(* updatePassword *)

LEMMA ResetFindStep ==
  ASSUME IInv, NEW s \in Slots, NEW u \in Users, NEW hash \in Hashes,
         NEW new \in Plain, ResetFind(s, u, hash, new)
  PROVE  IInv'
<1> DEFINE r == [pc |-> "found", user |-> u, hash |-> hash, new |-> new]
<1>1. UNCHANGED <<row, forgot, last, mails, edits, faults, resets, replaced>>
  BY DEF ResetFind, history
<1>2. CASE SetReq(s, r)
  <2>1. /\ req'[s] = r /\ req' \in [Slots -> Request]
        /\ \A t \in Slots \ {s} : req'[t] = req[t]
    BY <1>2, SetReqFacts DEF IInv, Request
  <2>2. req'[s].pc = "found"
    BY <2>1
  <2>3. RoomInv'
    BY <1>1, <2>1, <2>2, RoomKept DEF IInv
  <2> QED
    BY <1>1, <2>1, <2>2, <2>3, QuietStep DEF IInv, TypeOK, Has, Saving
<1>3. CASE UNCHANGED req
  <2>1. RoomInv'
    BY <1>1, <1>3, RoomKept DEF IInv
  <2> QED
    BY <1>1, <1>3, <2>1, QuietStep DEF IInv, TypeOK
<1> QED
  BY <1>2, <1>3 DEF ResetFind

(* The user that is loaded has the hash that was presented, which some e-mail
   to this very user brought.                                              *)
LEMMA ResetLoadStep ==
  ASSUME IInv, NEW s \in Slots, ResetLoad(s)
  PROVE  IInv'
<1> DEFINE u == req[s].user
           hash == req[s].hash
           new == req[s].new
           r == [pc |-> "loaded", user |-> u, hash |-> hash,
                 entity |-> ResetEntity(u, new), previous |-> row[u].password]
<1>1. /\ Has(s, {"found"})
      /\ UNCHANGED <<row, forgot, last, mails, edits, faults, resets, replaced>>
  BY DEF ResetLoad, Has, history
<1>2. u \in Users /\ hash \in Hashes /\ new \in Plain
  BY <1>1, RequestFields DEF IInv, Has
<1>3. ASSUME NEW q \in {Idle, [pc |-> "same", user |-> u]}, SetReq(s, q)
      PROVE  IInv'
  <2>1. q \in Request /\ q.pc \in {"idle", "same"}
    BY <1>2, <1>3 DEF Request, Idle
  <2>2. /\ req'[s] = q /\ req' \in [Slots -> Request]
        /\ \A t \in Slots \ {s} : req'[t] = req[t]
    BY <1>3, <2>1, SetReqFacts DEF IInv
  <2>3. RoomInv'
    BY <1>1, <2>1, <2>2, RoomKept DEF IInv
  <2> QED
    BY <1>1, <2>1, <2>2, <2>3, QuietStep DEF IInv, TypeOK, Has, Saving
<1>4. ASSUME HasHash(u, hash), SetReq(s, r)
      PROVE  IInv'
  <2> DEFINE e == ResetEntity(u, new)
  <2>1. row[u].password \in Stored /\ row[u].hash = hash
    BY <1>2, <1>4 DEF IInv, TypeOK, Row, HasHash
  <2>2. /\ e \in Row /\ e.hash = NoHash /\ NeverHashed(e.password)
    BY <1>2 DEF ResetEntity, Chosen, Row, Stored, NeverHashed
  <2> HIDE DEF e
  <2>3. r = [pc |-> "loaded", user |-> u, hash |-> hash, entity |-> e,
             previous |-> row[u].password]
    BY DEF e
  <2>4. r \in Request
    BY <1>2, <2>1, <2>2, <2>3 DEF Request
  <2>5. /\ req'[s] = r /\ req' \in [Slots -> Request]
        /\ \A t \in Slots \ {s} : req'[t] = req[t]
    BY <1>4, <2>4, SetReqFacts DEF IInv
  <2>6. /\ req'[s].pc = "loaded" /\ req'[s].user = u /\ req'[s].hash = hash
        /\ req'[s].entity = e /\ req'[s].previous = row[u].password
    BY <2>3, <2>5
  <2>7. Mailed(u, hash) /\ Hashed(row[u].password)
    BY <1>2, <2>1 DEF IInv, MailInv, RoundsInv, HashedOnce, Hashed, Hashes, NoHash
  <2> HIDE DEF u, hash, new, r
  <2>8. TypeOK'
    BY <1>1, <2>5 DEF IInv, TypeOK
  <2>9. RoomInv'
    BY <1>1, <2>5, <2>6, RoomKept DEF IInv
  <2>10. RoundsInv'
    <3>1. HashedOnce'
      BY <1>1 DEF IInv, RoundsInv, HashedOnce
    <3> QED
      BY <2>2, <2>5, <2>6, <2>7, <3>1 DEF IInv, RoundsInv, Has
  <2>11. MailInv'
    BY <1>1, <2>2, <2>5, <2>6, <2>7 DEF IInv, MailInv, ResetByOwnMail, Mailed, Has
  <2>12. NoEdits'
    BY <1>1, <2>5, <2>6 DEF IInv, NoEdits, UsedHashIsDead, NotReverted, Has
  <2>13. PendingResets'
    BY <1>1, <2>5, <2>6 DEF IInv, PendingResets, Has
  <2> QED
    BY <2>8, <2>9, <2>10, <2>11, <2>12, <2>13 DEF IInv
<1> QED
  BY <1>3, <1>4 DEF ResetLoad

(* Whoever compares goes on with what was loaded, and will write a chosen
   password.                                                               *)
LEMMA CompareStep ==
  ASSUME IInv, NEW s \in Slots, ResetCompare(s) \/ EditCompare(s)
  PROVE  IInv'
<1> DEFINE writes == Differing(req[s].user, req[s].entity)
<1>1. /\ Has(s, {"loaded", "edited"})
      /\ UNCHANGED <<row, forgot, last, mails, edits, faults, resets, replaced>>
  BY DEF ResetCompare, EditCompare, Has, history
<1>2. writes \in SUBSET Columns
  BY DEF Differing
<1>3. /\ req[s].user \in Users /\ req[s].entity \in Row /\ req[s].previous \in Stored
      /\ Has(s, {"loaded"}) => req[s].hash \in Hashes
  BY <1>1, RequestFields DEF IInv, Has
<1>4. Has(s, {"loaded"}) =>
        /\ "password" \in writes
        /\ "hash" \notin writes => row[req[s].user].hash # req[s].hash
  <2> SUFFICES ASSUME Has(s, {"loaded"})
               PROVE  /\ "password" \in writes
                      /\ "hash" \notin writes => row[req[s].user].hash # req[s].hash
    OBVIOUS
  <2>1. /\ req[s].entity.password.rounds = 0 /\ row[req[s].user].password.rounds = 1
        /\ req[s].entity.hash = NoHash
    BY <1>3 DEF IInv, RoundsInv, HashedOnce, MailInv, NeverHashed, Has
  <2>2. req[s].hash # NoHash
    BY <1>3 DEF Hashes, NoHash
  <2> QED
    BY <2>1, <2>2 DEF Differing, Columns
<1>5. CASE ResetCompare(s)
  <2> DEFINE r == [pc |-> "resetting", user |-> req[s].user, hash |-> req[s].hash,
                   entity |-> req[s].entity, previous |-> req[s].previous,
                   writes |-> writes]
  <2> HIDE DEF writes
  <2>1. Has(s, {"loaded"}) /\ SetReq(s, r)
    BY <1>5 DEF ResetCompare, Has, writes
  <2>2. r \in Request
    BY <1>2, <1>3, <2>1 DEF Request
  <2>3. /\ req'[s] = r /\ req' \in [Slots -> Request]
        /\ \A t \in Slots \ {s} : req'[t] = req[t]
    BY <2>1, <2>2, SetReqFacts DEF IInv
  <2>4. /\ req'[s].pc = "resetting" /\ req'[s].user = req[s].user
        /\ req'[s].hash = req[s].hash /\ req'[s].entity = req[s].entity
        /\ req'[s].previous = req[s].previous /\ req'[s].writes = writes
    BY <2>3
  <2> HIDE DEF r
  <2>5. TypeOK'
    BY <1>1, <2>3 DEF IInv, TypeOK
  <2>6. RoomInv'
    BY <1>1, <2>3, <2>4, RoomKept DEF IInv
  <2>7. RoundsInv'
    BY <1>1, <2>1, <2>3, <2>4 DEF IInv, RoundsInv, HashedOnce, Has
  <2>8. MailInv'
    BY <1>1, <2>1, <2>3, <2>4 DEF IInv, MailInv, ResetByOwnMail, Mailed, Has
  <2>9. PendingResets'
    BY <1>1, <1>4, <2>1, <2>3, <2>4 DEF IInv, PendingResets, Has
  <2>10. NoEdits'
    BY <1>1, <2>3, <2>4 DEF IInv, NoEdits, UsedHashIsDead, NotReverted, Has
  <2> QED
    BY <2>5, <2>6, <2>7, <2>8, <2>9, <2>10 DEF IInv
<1>6. CASE EditCompare(s)
  <2> DEFINE r == [pc |-> "editing", user |-> req[s].user, entity |-> req[s].entity,
                   previous |-> req[s].previous, writes |-> writes]
  <2> HIDE DEF writes
  <2>1. Has(s, {"edited"}) /\ SetReq(s, r)
    BY <1>6 DEF EditCompare, Has, writes
  <2>2. r \in Request
    BY <1>2, <1>3 DEF Request
  <2>3. /\ req'[s] = r /\ req' \in [Slots -> Request]
        /\ \A t \in Slots \ {s} : req'[t] = req[t]
    BY <2>1, <2>2, SetReqFacts DEF IInv
  <2>4. /\ req'[s].pc = "editing" /\ req'[s].user = req[s].user
        /\ req'[s].entity = req[s].entity /\ req'[s].previous = req[s].previous
    BY <2>3
  <2> HIDE DEF r
  <2>5. TypeOK'
    BY <1>1, <2>3 DEF IInv, TypeOK
  <2>6. RoomInv'
    BY <1>1, <2>3, <2>4, RoomKept DEF IInv
  <2>7. RoundsInv'
    BY <1>1, <2>1, <2>3, <2>4 DEF IInv, RoundsInv, HashedOnce, Has
  <2>8. MailInv'
    BY <1>1, <2>1, <2>3, <2>4 DEF IInv, MailInv, ResetByOwnMail, Mailed, Has
  <2>9. PendingResets'
    BY <1>1, <2>3, <2>4 DEF IInv, PendingResets, Has
  <2>10. NoEdits'
    BY <1>1, <2>1, <2>3, <2>4 DEF IInv, NoEdits, UsedHashIsDead, NotReverted, Has
  <2> QED
    BY <2>5, <2>6, <2>7, <2>8, <2>9, <2>10 DEF IInv
<1> QED
  BY <1>5, <1>6

(* What a save writes, whoever saves. *)
LEMMA Written ==
  ASSUME TypeOK, HashedOnce, NEW u \in Users, NEW e \in Row, NEW p \in Stored,
         NEW writes, Write(u, e, p, writes),
         Hashed(p), e.password = p \/ NeverHashed(e.password)
  PROVE  /\ row' \in [Users -> Row] /\ replaced' \in [Users -> SUBSET Plain]
         /\ row'[u].hash = IF "hash" \in writes THEN e.hash ELSE row[u].hash
         /\ Hashed(row'[u].password)
         /\ \A v \in Users \ {u} : row'[v] = row[v] /\ replaced'[v] = replaced[v]
         /\ e.password # p /\ "password" \in writes =>
              row'[u].password.plain \notin replaced'[u]
<1> DEFINE new == SetPassword(e, p)
           old == row[u]
           w == [password |-> IF "password" \in writes THEN new.password ELSE old.password,
                 hash |-> IF "hash" \in writes THEN new.hash ELSE old.hash]
<1>1. e.password \in Stored /\ e = [password |-> e.password, hash |-> e.hash]
      /\ e.hash \in Hashes \cup {NoHash}
  BY DEF Row
<1>2. e.password = [plain |-> e.password.plain, rounds |-> e.password.rounds]
      /\ e.password.plain \in Plain /\ e.password.rounds \in Nat
  BY <1>1 DEF Stored
<1>3. /\ new \in Row /\ new.hash = e.hash /\ Hashed(new.password)
      /\ new.password.plain = e.password.plain
  <2>1. CASE e.password = p
    BY <1>1, <2>1 DEF SetPassword, Hashed
  <2>2. CASE e.password # p
    <3>1. e.password.rounds = 0
      BY <2>2 DEF NeverHashed
    <3>2. new = [password |-> [plain |-> e.password.plain, rounds |-> 1], hash |-> e.hash]
      BY <1>1, <1>2, <2>2, <3>1 DEF SetPassword
    <3> QED
      BY <1>1, <1>2, <3>2 DEF Row, Stored, Hashed
  <2> QED
    BY <2>1, <2>2
<1>4. /\ row' = [row EXCEPT ![u] = w]
      /\ replaced' = IF e.password = p
                     THEN replaced
                     ELSE [replaced EXCEPT ![u] = (replaced[u] \cup {old.password.plain})
                                                    \ {e.password.plain}]
  BY DEF Write
<1>5. old \in Row /\ Hashed(old.password)
  BY DEF TypeOK, HashedOnce, Hashed
<1> HIDE DEF new, old
<1>6. /\ w \in Row /\ w.hash = IF "hash" \in writes THEN e.hash ELSE old.hash
      /\ Hashed(w.password)
      /\ "password" \in writes => w.password.plain = e.password.plain
  BY <1>3, <1>5 DEF Row
<1> HIDE DEF w
<1>7. row'[u] = w /\ row' \in [Users -> Row] /\ \A v \in Users \ {u} : row'[v] = row[v]
  BY <1>4, <1>6 DEF TypeOK
<1>8. /\ replaced' \in [Users -> SUBSET Plain]
      /\ \A v \in Users \ {u} : replaced'[v] = replaced[v]
      /\ e.password # p => e.password.plain \notin replaced'[u]
  <2>1. old.password.plain \in Plain
    BY <1>5 DEF Row, Stored
  <2> QED
    BY <1>4, <2>1 DEF TypeOK
<1> QED
  BY <1>6, <1>7, <1>8 DEF old

LEMMA ResetWriteStep ==
  ASSUME IInv, NEW s \in Slots, ResetWrite(s)
  PROVE  IInv'
<1> DEFINE u == req[s].user
           hash == req[s].hash
           e == req[s].entity
           p == req[s].previous
           writes == req[s].writes
           r == [pc |-> "saved", user |-> u]
<1>1. /\ Has(s, {"resetting"}) /\ Write(u, e, p, writes) /\ SetReq(s, r)
      /\ resets' = resets \cup {[to |-> u, hash |-> hash]}
      /\ UNCHANGED <<forgot, last, mails, edits, faults>>
  BY DEF ResetWrite, Has
<1>2. u \in Users /\ hash \in Hashes /\ e \in Row /\ p \in Stored
  BY <1>1, RequestFields DEF IInv, Has
<1>3. /\ Hashed(p) /\ NeverHashed(e.password) /\ e.password # p
      /\ Mailed(u, hash) /\ e.hash = NoHash
      /\ "password" \in writes
      /\ edits = 0 /\ "hash" \notin writes => row[u].hash # hash
  BY <1>1 DEF IInv, RoundsInv, MailInv, PendingResets, Hashed, NeverHashed, Has
<1>4. /\ req'[s] = r /\ req' \in [Slots -> Request]
      /\ \A t \in Slots \ {s} : req'[t] = req[t]
  BY <1>1, <1>2, SetReqFacts DEF IInv, Request
<1>5. req'[s].pc = "saved"
  BY <1>4
<1> HIDE DEF u, hash, e, p, writes, r
<1>6. /\ row' \in [Users -> Row] /\ replaced' \in [Users -> SUBSET Plain]
      /\ row'[u].hash = IF "hash" \in writes THEN NoHash ELSE row[u].hash
      /\ Hashed(row'[u].password)
      /\ \A v \in Users \ {u} : row'[v] = row[v] /\ replaced'[v] = replaced[v]
      /\ row'[u].password.plain \notin replaced'[u]
  BY <1>1, <1>2, <1>3, Written DEF IInv, RoundsInv
<1>7. TypeOK'
  BY <1>1, <1>2, <1>4, <1>6 DEF IInv, TypeOK
<1>8. RoomInv'
  BY <1>1, <1>4, <1>5, RoomKept DEF IInv
<1>9. RoundsInv'
  <2>1. HashedOnce'
    BY <1>6 DEF IInv, RoundsInv, HashedOnce, Hashed
  <2> QED
    BY <1>4, <1>5, <2>1 DEF IInv, RoundsInv, Has
<1>10. MailInv'
  <2>1. ResetByOwnMail'
    BY <1>1, <1>3 DEF IInv, MailInv, ResetByOwnMail, Mailed
  <2> QED
    BY <1>1, <1>2, <1>4, <1>5, <1>6, <2>1 DEF IInv, MailInv, Mailed, Has
<1>11. PendingResets'
  <2> SUFFICES ASSUME NEW t \in Slots, Has(t, {"resetting"})'
               PROVE  /\ "password" \in req'[t].writes
                      /\ edits' = 0 /\ "hash" \notin req'[t].writes =>
                           row'[req'[t].user].hash # req'[t].hash
    BY DEF PendingResets
  <2>1. req'[t] = req[t] /\ Has(t, {"resetting"})
    BY <1>4, <1>5 DEF Has
  <2>2. req[t].user \in Users /\ req[t].hash # NoHash
    BY <2>1, RequestFields DEF IInv, Hashes, NoHash
  <2> QED
    BY <1>1, <1>6, <2>1, <2>2 DEF IInv, PendingResets
<1>12. NoEdits'
  <2>1. UsedHashIsDead'
    <3>1. hash # NoHash
      BY <1>2 DEF Hashes, NoHash
    <3>2. \A q \in resets' : q \in resets \/ (q.to = u /\ q.hash = hash)
      BY <1>1
    <3>3. \A q \in resets : q.to \in Users /\ q.hash # NoHash
      BY DEF IInv, TypeOK, Hashes, NoHash
    <3> QED
      BY <1>1, <1>3, <1>6, <3>1, <3>2, <3>3 DEF IInv, NoEdits, UsedHashIsDead
  <2>2. edits' = 0 => NotReverted'
    BY <1>1, <1>6 DEF IInv, NoEdits, NotReverted
  <2> QED
    BY <1>1, <1>4, <1>5, <2>1, <2>2 DEF IInv, NoEdits, Has
<1> QED
  BY <1>7, <1>8, <1>9, <1>10, <1>11, <1>12 DEF IInv

LEMMA ResetCounterStep ==
  ASSUME IInv, NEW s \in Slots, ResetCounter(s)
  PROVE  IInv'
<1>1. /\ Has(s, {"same", "saved"}) /\ SetReq(s, Idle)
      /\ UNCHANGED <<row, last, mails, edits, faults, resets, replaced>>
      /\ forgot' = [forgot EXCEPT ![req[s].user] = [otp_counter |-> 0]]
  BY DEF ResetCounter, Has
<1>2. forgot' \in [Users -> Entry]
  BY <1>1 DEF IInv, TypeOK, Entry
<1>3. /\ req'[s] = Idle /\ req' \in [Slots -> Request]
      /\ \A t \in Slots \ {s} : req'[t] = req[t]
  BY <1>1, SetReqFacts DEF IInv, Request
<1>4. RoomInv'
  BY <1>1, <1>3, RoomKept DEF IInv, Idle
<1> QED
  BY <1>1, <1>2, <1>3, <1>4, QuietStep DEF IInv, TypeOK, Has, Saving, Idle

-----------------------------------------------------------------------------
(* update-me *)

LEMMA EditLoadStep ==
  ASSUME IInv, NEW s \in Slots, NEW u \in Users, EditLoad(s, u)
  PROVE  IInv'
<1>1. /\ edits' = edits + 1
      /\ UNCHANGED <<row, forgot, last, mails, faults, resets, replaced>>
  BY DEF EditLoad, history
<1>2. row[u] \in Row /\ row[u].password \in Stored
      /\ row[u].hash \in Hashes \cup {NoHash}
  BY DEF IInv, TypeOK, Row
<1>3. PICK e \in Row :
        /\ SetReq(s, [pc |-> "edited", user |-> u, entity |-> e,
                      previous |-> row[u].password])
        /\ e.hash = row[u].hash
        /\ e.password = row[u].password \/ NeverHashed(e.password)
  <2>1. CASE SetReq(s, [pc |-> "edited", user |-> u, entity |-> row[u],
                        previous |-> row[u].password])
    BY <1>2, <2>1
  <2>2. ASSUME NEW new \in Plain,
               SetReq(s, [pc |-> "edited", user |-> u,
                          entity |-> [row[u] EXCEPT !.password = Chosen(new)],
                          previous |-> row[u].password])
        PROVE  \E e \in Row :
                 /\ SetReq(s, [pc |-> "edited", user |-> u, entity |-> e,
                               previous |-> row[u].password])
                 /\ e.hash = row[u].hash
                 /\ e.password = row[u].password \/ NeverHashed(e.password)
    <3> DEFINE e == [row[u] EXCEPT !.password = Chosen(new)]
    <3>1. Chosen(new) \in Stored /\ NeverHashed(Chosen(new))
      BY DEF Chosen, Stored, NeverHashed
    <3>2. e \in Row /\ e.hash = row[u].hash /\ e.password = Chosen(new)
      BY <1>2, <3>1 DEF Row
    <3> HIDE DEF e
    <3>3. SetReq(s, [pc |-> "edited", user |-> u, entity |-> e,
                     previous |-> row[u].password])
      BY <2>2 DEF e
    <3> QED
      BY <3>1, <3>2, <3>3
  <2> QED
    BY <2>1, <2>2 DEF EditLoad
<1> DEFINE p == row[u].password
           r == [pc |-> "edited", user |-> u, entity |-> e, previous |-> p]
<1>4. r \in Request
  BY <1>2 DEF Request
<1>5. /\ req'[s] = r /\ req' \in [Slots -> Request]
      /\ \A t \in Slots \ {s} : req'[t] = req[t]
  BY <1>3, <1>4, SetReqFacts DEF IInv
<1>6. /\ req'[s].pc = "edited" /\ req'[s].user = u /\ req'[s].entity = e
      /\ req'[s].previous = p
  BY <1>5
<1>7. Hashed(p) /\ (row[u].hash # NoHash => Mailed(u, row[u].hash))
  BY DEF IInv, RoundsInv, HashedOnce, Hashed, MailInv
<1> HIDE DEF r
<1>8. edits' \in Nat /\ edits' # 0
  BY <1>1 DEF IInv, TypeOK
<1>9. TypeOK'
  BY <1>1, <1>5, <1>8 DEF IInv, TypeOK
<1>10. RoomInv'
  BY <1>1, <1>5, <1>6, RoomKept DEF IInv
<1>11. RoundsInv'
  <2>1. HashedOnce'
    BY <1>1 DEF IInv, RoundsInv, HashedOnce
  <2> QED
    BY <1>3, <1>5, <1>6, <1>7, <2>1 DEF IInv, RoundsInv, Has
<1>12. MailInv'
  BY <1>1, <1>3, <1>5, <1>6, <1>7 DEF IInv, MailInv, ResetByOwnMail, Mailed, Has
<1>13. NoEdits'
  BY <1>8 DEF NoEdits, UsedHashIsDead
<1>14. PendingResets'
  BY <1>5, <1>6, <1>8 DEF IInv, PendingResets, Has
<1> QED
  BY <1>9, <1>10, <1>11, <1>12, <1>13, <1>14 DEF IInv

LEMMA EditWriteStep ==
  ASSUME IInv, NEW s \in Slots, EditWrite(s)
  PROVE  IInv'
<1> DEFINE u == req[s].user
           e == req[s].entity
           p == req[s].previous
           writes == req[s].writes
<1>1. /\ Has(s, {"editing"}) /\ Write(u, e, p, writes) /\ SetReq(s, Idle)
      /\ UNCHANGED <<forgot, last, mails, edits, faults, resets>>
  BY DEF EditWrite, Has
<1>2. u \in Users /\ e \in Row /\ p \in Stored
  BY <1>1, RequestFields DEF IInv, Has
<1>3. /\ Hashed(p) /\ (e.password = p \/ NeverHashed(e.password))
      /\ e.hash = NoHash \/ Mailed(u, e.hash)
      /\ edits # 0
  BY <1>1 DEF IInv, RoundsInv, MailInv, NoEdits, Has
<1>4. /\ req'[s] = Idle /\ req' \in [Slots -> Request]
      /\ \A t \in Slots \ {s} : req'[t] = req[t]
  BY <1>1, SetReqFacts DEF IInv, Request
<1>5. req'[s].pc = "idle"
  BY <1>4 DEF Idle
<1> HIDE DEF u, e, p, writes
<1>6. /\ row' \in [Users -> Row] /\ replaced' \in [Users -> SUBSET Plain]
      /\ row'[u].hash \in {e.hash, row[u].hash} /\ Hashed(row'[u].password)
      /\ \A v \in Users \ {u} : row'[v] = row[v]
  BY <1>1, <1>2, <1>3, Written DEF IInv, RoundsInv
<1>7. TypeOK'
  BY <1>1, <1>4, <1>6 DEF IInv, TypeOK
<1>8. RoomInv'
  BY <1>1, <1>4, <1>5, RoomKept DEF IInv
<1>9. RoundsInv'
  <2>1. HashedOnce'
    BY <1>6 DEF IInv, RoundsInv, HashedOnce, Hashed
  <2> QED
    BY <1>4, <1>5, <2>1 DEF IInv, RoundsInv, Has
<1>10. MailInv'
  BY <1>1, <1>2, <1>3, <1>4, <1>5, <1>6 DEF IInv, MailInv, ResetByOwnMail, Mailed, Has
<1>11. NoEdits'
  BY <1>1, <1>3, <1>4, <1>5 DEF IInv, NoEdits, UsedHashIsDead, Has
<1>12. PendingResets'
  BY <1>1, <1>3, <1>4, <1>5 DEF IInv, PendingResets, Has
<1> QED
  BY <1>7, <1>8, <1>9, <1>10, <1>11, <1>12 DEF IInv

-----------------------------------------------------------------------------
LEMMA OtherSteps ==
  ASSUME IInv,
         \/ \E s \in Slots : Fails(s)
         \/ \E u \in Users : ForgotExpires(u)
         \/ Crash
         \/ UNCHANGED vars
  PROVE  IInv'
<1>1. UNCHANGED <<row, last, mails, edits, resets, replaced>>
  BY DEF Fails, ForgotExpires, Crash, history, vars
<1>2. forgot' \in [Users -> Entry] /\ faults' \in Nat
  BY DEF Fails, ForgotExpires, Crash, Fault, vars, IInv, TypeOK, Entry
<1>3. /\ req' \in [Slots -> Request]
      /\ \A t \in Slots : req'[t] = req[t] \/ req'[t] = Idle
  <2>1. ASSUME NEW s \in Slots, SetReq(s, Idle)
        PROVE  /\ req' \in [Slots -> Request]
               /\ \A t \in Slots : req'[t] = req[t] \/ req'[t] = Idle
    BY <2>1, SetReqFacts DEF IInv, Request
  <2> QED
    BY <2>1 DEF Fails, ForgotExpires, Crash, vars, IInv, TypeOK, Request
<1>4. \A t \in Slots : req'[t] = req[t] \/ req'[t].pc = "idle"
  BY <1>3 DEF Idle
<1>5. RoomInv'
  BY <1>1, <1>4, RoomKept DEF IInv
<1> QED
  BY <1>1, <1>2, <1>3, <1>4, <1>5, QuietStep DEF Has, Saving

LEMMA InitIInv == Init => IInv
<1> SUFFICES ASSUME Init PROVE IInv
  OBVIOUS
<1>1. TypeOK
  BY BoundAssumption, PlainAssumption DEF Init, TypeOK, Request, Entry, Row, Stored
<1>2. RoomInv
  <2>1. Forgetting = {}
    BY DEF Init, Forgetting, Idle
  <2> QED
    BY <2>1, FS_EmptySet, BoundAssumption DEF RoomInv, Init
<1>3. RoundsInv /\ MailInv /\ PendingResets /\ NoEdits
  BY DEF Init, RoundsInv, HashedOnce, MailInv, ResetByOwnMail, PendingResets, NoEdits,
         UsedHashIsDead, NotReverted, Has, Idle
<1> QED
  BY <1>1, <1>2, <1>3 DEF IInv

LEMMA Invariance == Spec => []IInv
<1>1. ASSUME IInv, [Next]_vars PROVE IInv'
  <2>1. ASSUME NEW s \in Slots, Forgot(s) PROVE IInv'
    BY <1>1, <2>1, ForgotCountStep, ForgotEntrySteps, ForgotHashStep DEF Forgot
  <2>2. ASSUME NEW s \in Slots, Reset(s) PROVE IInv'
    BY <1>1, <2>2, ResetFindStep, ResetLoadStep, CompareStep, ResetWriteStep, ResetCounterStep
       DEF Reset
  <2>3. ASSUME NEW s \in Slots, Edit(s) PROVE IInv'
    BY <1>1, <2>3, EditLoadStep, CompareStep, EditWriteStep DEF Edit
  <2> QED
    BY <1>1, <2>1, <2>2, <2>3, OtherSteps DEF Next
<1> QED
  BY InitIInv, <1>1, PTL DEF Spec

-----------------------------------------------------------------------------
(* Types of rows, cache entries, the handlers' state and the history. *)
THEOREM PasswordTypes == Spec => []TypeOK
<1>1. IInv => TypeOK
  BY DEF IInv
<1> QED
  BY Invariance, <1>1, PTL

(* Whatever entity a handler saves, the password it leaves in the row has been
   hashed once.                                                            *)
THEOREM PasswordsHashedOnce == Spec => []HashedOnce
<1>1. IInv => HashedOnce
  BY DEF IInv, RoundsInv
<1> QED
  BY Invariance, <1>1, PTL

(* A password is reset only with a hash that was mailed to its user. *)
THEOREM ResetsByOwnMail == Spec => []ResetByOwnMail
<1>1. IInv => ResetByOwnMail
  BY DEF IInv, MailInv
<1> QED
  BY Invariance, <1>1, PTL

(* A hash that was used stays dead while no profile is edited. *)
THEOREM UsedHashesAreDead == Spec => []UsedHashIsDead
<1>1. IInv => UsedHashIsDead
  BY DEF IInv, NoEdits
<1> QED
  BY Invariance, <1>1, PTL

(* Resets and forgotPassword alone bring no replaced password back. *)
THEOREM ResetsKeepReplaced == Spec => []ResetsDoNotRevert
<1>1. IInv => ResetsDoNotRevert
  BY DEF IInv, NoEdits, NotReverted, ResetsDoNotRevert, ReplacedStaysReplaced
<1> QED
  BY Invariance, <1>1, PTL
-----------------------------------------------------------------------------
(* The entry is written as ootp_counter, and as otp_counter only with 0. *)
NothingCounted ==
  \A u \in Users : forgot[u] \in {Absent, [otp_counter |-> 0]} \cup [ootp_counter : Nat]

LEMMA CountStep ==
  ASSUME TypeOK, NothingCounted, [Next]_vars
  PROVE  NothingCounted'
<1>1. forgot \in [Users -> Entry]
  BY DEF TypeOK
<1>2. CASE UNCHANGED forgot
  BY <1>2 DEF NothingCounted
<1>3. ASSUME NEW u, NEW entry, forgot' = [forgot EXCEPT ![u] = entry],
             entry \in {Absent, [otp_counter |-> 0]} \cup [ootp_counter : Nat]
      PROVE  NothingCounted'
  BY <1>1, <1>3 DEF NothingCounted
<1>4. ASSUME NEW s \in Slots, ForgotRemove(s) \/ ResetCounter(s) PROVE NothingCounted'
  BY <1>3, <1>4 DEF ForgotRemove, ResetCounter
<1>5. ASSUME NEW s \in Slots, ForgotNote(s) PROVE NothingCounted'
  <2>1. req[s].counter \in Nat
    BY <1>5, RequestFields DEF ForgotNote, Has
  <2> QED
    BY <1>3, <1>5, <2>1 DEF ForgotNote
<1>6. ASSUME NEW u \in Users, ForgotExpires(u) PROVE NothingCounted'
  BY <1>3, <1>6 DEF ForgotExpires
<1>7. ASSUME NEW s \in Slots,
             \/ \E u \in Users : ForgotCount(s, u) \/ EditLoad(s, u)
             \/ ForgotHash(s) \/ ResetLoad(s) \/ ResetCompare(s) \/ ResetWrite(s)
             \/ EditCompare(s) \/ EditWrite(s) \/ Fails(s)
             \/ \E u \in Users, hash \in Hashes, new \in Plain : ResetFind(s, u, hash, new)
      PROVE  UNCHANGED forgot
  BY <1>7 DEF ForgotCount, EditLoad, ForgotHash, ResetLoad, ResetCompare, ResetWrite,
              EditCompare, EditWrite, Fails, ResetFind
<1>8. Crash \/ UNCHANGED vars => UNCHANGED forgot
  BY DEF Crash, vars
<1> QED
  BY <1>2, <1>4, <1>5, <1>6, <1>7, <1>8 DEF Next, Forgot, Reset, Edit

(* "to many request" (auth-user.service.ts) is never answered, however often
   one user asks for a hash and whatever Limit above 0 was meant.          *)
THEOREM LimitIsNeverReached ==
  Spec => [](Limit > 0 => \A u \in Users : ~TooMany(NextCounter(forgot[u])))
<1>1. Init => NothingCounted
  BY DEF Init, NothingCounted
<1>2. TypeOK /\ NothingCounted /\ [Next]_vars => NothingCounted'
  BY CountStep
<1>3. NothingCounted => (Limit > 0 => \A u \in Users : ~TooMany(NextCounter(forgot[u])))
  <2> SUFFICES ASSUME NothingCounted, Limit > 0, NEW u \in Users
               PROVE  ~TooMany(NextCounter(forgot[u]))
    OBVIOUS
  <2>1. CASE forgot[u] = Absent
    <3>1. NextCounter(forgot[u]) = 1
      BY <2>1 DEF NextCounter, Absent
    <3> QED
      BY <3>1, BoundAssumption DEF TooMany
  <2>2. CASE forgot[u] = [otp_counter |-> 0]
    <3>1. NextCounter(forgot[u]) = 1
      BY <2>2 DEF NextCounter, Absent
    <3> QED
      BY <3>1, BoundAssumption DEF TooMany
  <2>3. CASE forgot[u] \in [ootp_counter : Nat]
    <3>1. NextCounter(forgot[u]) = NaN
      BY <2>3 DEF NextCounter, Absent
    <3> QED
      BY <3>1 DEF TooMany
  <2> QED
    BY <2>1, <2>2, <2>3 DEF NothingCounted
<1> QED
  BY <1>1, <1>2, <1>3, PasswordTypes, PTL DEF Spec

-----------------------------------------------------------------------------
(* Who may save a password of u: a reset with a hash mailed to u, or u's own
   edit.                                                                   *)
MaySave(s, u) ==
  /\ Has(s, {"resetting", "editing"})
  /\ req[s].user = u
  /\ Has(s, {"resetting"}) => Mailed(u, req[s].hash)

(* A password changes by nobody else's step. *)
OwnersChange ==
  \A u \in Users :
    row'[u].password # row[u].password => \E s \in Slots : MaySave(s, u)

LEMMA OwnersChangeStep == ASSUME IInv, [Next]_vars PROVE OwnersChange
<1>1. row \in [Users -> Row]
  BY DEF IInv, TypeOK
<1>2. CASE UNCHANGED row
  BY <1>2 DEF OwnersChange
<1>3. ASSUME NEW s \in Slots, ForgotHash(s) PROVE OwnersChange
  <2>1. row' = [row EXCEPT ![req[s].user] = [row[req[s].user] EXCEPT !.hash = last + 1]]
    BY <1>3 DEF ForgotHash, HashUpdated
  <2>2. \A u \in Users : row'[u].password = row[u].password
    BY <1>1, <2>1 DEF Row
  <2> QED
    BY <2>2 DEF OwnersChange
<1>4. ASSUME NEW s \in Slots, ResetWrite(s) \/ EditWrite(s) PROVE OwnersChange
  <2>1. MaySave(s, req[s].user)
    BY <1>4 DEF ResetWrite, EditWrite, MaySave, Has, IInv, MailInv
  <2>2. \A u \in Users \ {req[s].user} : row'[u] = row[u]
    BY <1>1, <1>4 DEF ResetWrite, EditWrite, Write
  <2> QED
    BY <2>1, <2>2 DEF OwnersChange
<1>5. ASSUME NEW s \in Slots,
             \/ \E u \in Users : ForgotCount(s, u) \/ EditLoad(s, u)
             \/ ForgotRemove(s) \/ ForgotNote(s) \/ ResetLoad(s) \/ ResetCounter(s)
             \/ ResetCompare(s) \/ EditCompare(s)
             \/ \E u \in Users, hash \in Hashes, new \in Plain : ResetFind(s, u, hash, new)
             \/ Fails(s)
      PROVE  UNCHANGED row
  BY <1>5 DEF ForgotCount, EditLoad, ForgotRemove, ForgotNote, ResetLoad, ResetCounter,
              ResetCompare, EditCompare, ResetFind, Fails
<1>6. (\E u \in Users : ForgotExpires(u)) \/ Crash \/ UNCHANGED vars => UNCHANGED row
  BY DEF ForgotExpires, Crash, vars
<1> QED
  BY <1>2, <1>3, <1>4, <1>5, <1>6 DEF Next, Forgot, Reset, Edit

(* Neither forgotPassword nor another user's request changes a password, only
   a reset with a hash mailed to the user or the user's own edit.          *)
THEOREM OnlyOwnersChange == Spec => [][OwnersChange]_vars
<1>1. IInv /\ [Next]_vars => [OwnersChange]_vars
  BY OwnersChangeStep
<1> QED
  BY <1>1, Invariance, PTL DEF Spec
=============================================================================
