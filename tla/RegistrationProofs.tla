------------------------- MODULE RegistrationProofs -------------------------
(***************************************************************************)
(* What TLAPS proves about Registration, for any number of handlers,       *)
(* people, hashes, ticks and faults, and whatever the two expiries are.    *)
(*                                                                         *)
(* Everything rests on who may write the keys of a hash.  Until a hash is  *)
(* returned, only the handler that generated it knows it (HashesInv), so   *)
(* nobody overtakes that handler between its two writes; once returned it  *)
(* only loses keys, the OTP key first.  CacheInv compares the two keys,    *)
(* MailInv says whose passcode a registration carries, and UserInv what    *)
(* open transactions have reserved in the table.                           *)
(***************************************************************************)
EXTENDS Registration, FiniteSetTheorems, TLAPS

Has(s, pcs) == req[s].pc \in pcs

(* The hash a handler has generated and not yet returned. *)
Owns(s) == Has(s, {"accepted", "stored", "renewing", "dropping", "moving", "reissued"})
Own(s) == IF Has(s, {"accepted", "stored"}) THEN req[s].hash ELSE req[s].new

(* The handlers a client gave the hash to. *)
Presented(s) == ~Has(s, {"idle", "accepted", "stored"})

Resending == {s \in Slots : req[s].pc = "resending"}

(* Whoever may still generate a hash has one left. *)
RoomInv == last + Cardinality(Resending) <= MaxHashes

HashesInv ==
  /\ \A h \in returned : h <= last
  /\ \A s \in Slots :
       /\ Owns(s) => Own(s) <= last /\ Own(s) \notin returned
       /\ Presented(s) => req[s].hash \in returned
  /\ \A s, t \in Slots : Owns(s) /\ Owns(t) /\ s # t => Own(s) # Own(t)

CacheInv ==
  /\ \A h \in returned : otp[h] <= data[h].expires
  /\ \A s \in Slots :
       /\ Has(s, {"stored"}) => now + OtpExpires <= data[req[s].hash].expires
       /\ Has(s, {"reissued"}) => otp[req[s].new] <= now + OtpExpires
       /\ Has(s, {"dropping", "cleaning"}) => otp[req[s].hash] = 0

Mailed(form, passcode) == [to |-> form.email, passcode |-> passcode] \in mails

Verified(s) == Has(s, {"verified", "inserted", "loggedIn"})

MailInv ==
  /\ \A h \in returned : data[h] # NoData => Mailed(data[h].form, data[h].passcode)
  /\ \A s \in Slots :
       /\ Has(s, {"stored"}) =>
            /\ data[req[s].hash].form = req[s].form
            /\ data[req[s].hash].passcode = [secret |-> req[s].hash, counter |-> 1]
       /\ Verified(s) => Mailed(req[s].form, req[s].passcode)
  /\ ConfirmedByOwnMail

(* An open transaction has inserted its user. *)
Open(s) == Has(s, {"inserted", "loggedIn"})

UserInv ==
  /\ OneUserPerPerson
  /\ \A s \in Slots :
       /\ Open(s) => ~Taken(req[s].form) /\ req[s].id \in (1..lastId) \ DOMAIN users
       /\ Has(s, {"loggedIn", "committed", "cleaning"}) => req[s].id \in session
       /\ Has(s, {"committed", "cleaning"}) => req[s].id \in DOMAIN users
  /\ \A s, t \in Slots : Open(s) /\ Open(t) /\ s # t =>
       ~Clashes(req[s].form, req[t].form) /\ req[s].id # req[t].id
  /\ TokenIsUsable

IInv == TypeOK /\ RoomInv /\ HashesInv /\ CacheInv /\ MailInv /\ UserInv

-----------------------------------------------------------------------------
(* What a handler's record holds, by where the handler is. *)
LEMMA RequestFields ==
  ASSUME TypeOK, NEW s \in Slots
  PROVE  /\ Has(s, {"accepted", "stored"}) =>
              req[s] \in [pc : {"accepted", "stored"}, hash : Hashes, form : Form]
         /\ Has(s, {"resending"}) => req[s] \in [pc : {"resending"}, hash : Hashes]
         /\ Has(s, {"renewing", "dropping", "moving", "reissued"}) =>
              req[s] \in [pc : {"renewing", "dropping", "moving", "reissued"},
                          hash : Hashes, new : Hashes, old : Registered]
         /\ Has(s, {"confirming"}) =>
              req[s] \in [pc : {"confirming"}, hash : Hashes, passcode : Passcode]
         /\ Has(s, {"verified"}) =>
              req[s] \in [pc : {"verified"}, hash : Hashes, passcode : Passcode,
                          form : Form]
         /\ Has(s, {"inserted", "loggedIn", "committed", "cleaning"}) =>
              req[s] \in [pc : {"inserted", "loggedIn", "committed", "cleaning"},
                          hash : Hashes, passcode : Passcode, form : Form, id : Nat]
BY DEF TypeOK, Request, Idle, Has

LEMMA SetReqFacts ==
  ASSUME TypeOK, NEW s \in Slots, NEW r, SetReq(s, r)
  PROVE  /\ req'[s] = r
         /\ \A t \in Slots \ {s} : req'[t] = req[t]
         /\ r \in Request => req' \in [Slots -> Request]
BY DEF TypeOK, SetReq

LEMMA GoToStored ==
  ASSUME TypeOK, NEW s \in Slots, Has(s, {"accepted"}), GoTo(s, "stored")
  PROVE  /\ req'[s] = [pc |-> "stored", hash |-> req[s].hash, form |-> req[s].form]
         /\ req'[s] \in Request
         /\ \A t \in Slots \ {s} : req'[t] = req[t]
         /\ req' \in [Slots -> Request]
<1>1. req[s] \in [pc : {"accepted", "stored"}, hash : Hashes, form : Form]
  BY RequestFields DEF Has
<1>2. req' = [req EXCEPT ![s] = [req[s] EXCEPT !.pc = "stored"]]
  BY DEF GoTo
<1>3. [req[s] EXCEPT !.pc = "stored"]
        = [pc |-> "stored", hash |-> req[s].hash, form |-> req[s].form]
  BY <1>1
<1>4. [req[s] EXCEPT !.pc = "stored"] \in Request
  BY <1>1, <1>3 DEF Request
<1> QED
  BY <1>2, <1>3, <1>4 DEF TypeOK

LEMMA GoToRenewal ==
  ASSUME TypeOK, NEW s \in Slots, Has(s, {"renewing", "dropping", "moving"}),
         NEW pc \in {"dropping", "moving", "reissued"}, GoTo(s, pc)
  PROVE  /\ req'[s] = [pc |-> pc, hash |-> req[s].hash, new |-> req[s].new,
                       old |-> req[s].old]
         /\ \A t \in Slots \ {s} : req'[t] = req[t]
         /\ req' \in [Slots -> Request]
<1>1. req[s] \in [pc : {"renewing", "dropping", "moving", "reissued"},
                  hash : Hashes, new : Hashes, old : Registered]
  BY RequestFields DEF Has
<1>2. req' = [req EXCEPT ![s] = [req[s] EXCEPT !.pc = pc]]
  BY DEF GoTo
<1>3. [req[s] EXCEPT !.pc = pc] = [pc |-> pc, hash |-> req[s].hash,
                                   new |-> req[s].new, old |-> req[s].old]
  BY <1>1
<1>4. [req[s] EXCEPT !.pc = pc] \in Request
  BY <1>1, <1>3 DEF Request
<1> QED
  BY <1>2, <1>3, <1>4 DEF TypeOK

LEMMA GoToConfirmed ==
  ASSUME TypeOK, NEW s \in Slots, Has(s, {"inserted", "loggedIn", "committed"}),
         NEW pc \in {"loggedIn", "committed", "cleaning"}, GoTo(s, pc)
  PROVE  /\ req'[s] = [pc |-> pc, hash |-> req[s].hash, passcode |-> req[s].passcode,
                       form |-> req[s].form, id |-> req[s].id]
         /\ \A t \in Slots \ {s} : req'[t] = req[t]
         /\ req' \in [Slots -> Request]
<1>1. req[s] \in [pc : {"inserted", "loggedIn", "committed", "cleaning"},
                  hash : Hashes, passcode : Passcode, form : Form, id : Nat]
  BY RequestFields DEF Has
<1>2. req' = [req EXCEPT ![s] = [req[s] EXCEPT !.pc = pc]]
  BY DEF GoTo
<1>3. [req[s] EXCEPT !.pc = pc]
        = [pc |-> pc, hash |-> req[s].hash, passcode |-> req[s].passcode,
           form |-> req[s].form, id |-> req[s].id]
  BY <1>1
<1>4. [req[s] EXCEPT !.pc = pc] \in Request
  BY <1>1, <1>3 DEF Request
<1> QED
  BY <1>2, <1>3, <1>4 DEF TypeOK

-----------------------------------------------------------------------------
(* Room *)

LEMMA ResendingFinite ==
  /\ IsFiniteSet(Resending)
  /\ Cardinality(Resending) \in Nat
BY SlotsAssumption, FS_Subset, FS_CardinalityType DEF Resending

LEMMA RoomKept ==
  ASSUME TypeOK, RoomInv, last' = last,
         \A t \in Slots : req'[t].pc = "resending" => req[t].pc = "resending"
  PROVE  RoomInv'
<1>1. Resending' \subseteq Resending
  BY DEF Resending
<1>2. /\ Cardinality(Resending') \in Nat
      /\ Cardinality(Resending') <= Cardinality(Resending)
  BY <1>1, ResendingFinite, FS_Subset, FS_CardinalityType
<1> QED
  BY <1>2, ResendingFinite, BoundAssumption DEF RoomInv, TypeOK

LEMMA RoomTaken ==
  ASSUME TypeOK, RoomInv, Room, NEW s \in Slots, req[s] = Idle,
         \A t \in Slots \ {s} : req'[t] = req[t],
         \/ last' = last
         \/ last' = last + 1 /\ req'[s].pc # "resending"
  PROVE  RoomInv'
<1>1. last + Cardinality(Resending) < MaxHashes
  BY DEF Room, Resending
<1>2. CASE req'[s].pc = "resending"
  <2>1. Resending' = Resending \cup {s} /\ s \notin Resending
    BY <1>2 DEF Resending, Idle
  <2>2. Cardinality(Resending') = Cardinality(Resending) + 1
    BY <2>1, ResendingFinite, FS_AddElement
  <2> QED
    BY <1>1, <1>2, <2>2, ResendingFinite, BoundAssumption DEF RoomInv, TypeOK
<1>3. CASE req'[s].pc # "resending"
  <2>1. Resending' = Resending
    BY <1>3 DEF Resending, Idle
  <2> QED
    BY <1>1, <2>1, ResendingFinite, BoundAssumption DEF RoomInv, TypeOK
<1> QED
  BY <1>2, <1>3

(* The hash a resend generates was reserved when it began. *)
LEMMA RoomUsed ==
  ASSUME TypeOK, RoomInv, NEW s \in Slots, req[s].pc = "resending",
         \A t \in Slots \ {s} : req'[t] = req[t],
         req'[s].pc # "resending", last' = last + 1
  PROVE  RoomInv' /\ last + 1 <= MaxHashes
<1>1. Resending' = Resending \ {s} /\ s \in Resending
  BY DEF Resending
<1>2. /\ Cardinality(Resending') = Cardinality(Resending) - 1
      /\ Cardinality(Resending') \in Nat
  BY <1>1, ResendingFinite, FS_RemoveElement, FS_CardinalityType
<1> QED
  BY <1>2, ResendingFinite, BoundAssumption DEF RoomInv, TypeOK

-----------------------------------------------------------------------------
(* Steps of one handler, part by part of the invariant *)

(* Handlers that end leave nothing to show, and the rest as it is. *)
LEMMA EndStep ==
  ASSUME IInv, UNCHANGED <<cache, table, sent, session, now>>, faults' \in Nat,
         req' \in [Slots -> Request],
         \A t \in Slots : req'[t] = req[t] \/ req'[t] = Idle
  PROVE  IInv'
<1>1. TypeOK'
  BY DEF IInv, TypeOK, cache, table, sent
<1>2. RoomInv'
  <2>1. \A t \in Slots : req'[t].pc = "resending" => req[t].pc = "resending"
    BY DEF Idle
  <2> QED
    BY <2>1, RoomKept DEF IInv, cache
<1>3. HashesInv'
  BY DEF IInv, HashesInv, Owns, Own, Presented, Has, Idle, cache, sent
<1>4. CacheInv'
  BY DEF IInv, CacheInv, Has, Idle, cache, sent
<1>5. MailInv'
  BY DEF IInv, MailInv, Mailed, Verified, Has, Idle, cache, sent, table,
         ConfirmedByOwnMail
<1>6. UserInv'
  BY DEF IInv, UserInv, Open, Has, Idle, cache, sent, table, OneUserPerPerson,
         TokenIsUsable, Taken
<1> QED
  BY <1>1, <1>2, <1>3, <1>4, <1>5, <1>6 DEF IInv

Alone(s) == \A t \in Slots \ {s} : req'[t] = req[t]

LEMMA HashesFrame ==
  ASSUME HashesInv, NEW s \in Slots, Alone(s), returned' = returned, last' = last,
         Owns(s)' => Owns(s) /\ Own(s)' = Own(s),
         Presented(s)' => req'[s].hash \in returned
  PROVE  HashesInv'
<1>1. \A t \in Slots \ {s} : /\ Owns(t)' = Owns(t) /\ Own(t)' = Own(t)
                             /\ Presented(t)' = Presented(t)
  BY DEF Alone, Owns, Own, Presented, Has
<1> QED
  BY <1>1 DEF HashesInv, Alone

LEMMA CacheFrame ==
  ASSUME CacheInv, NEW s \in Slots, Alone(s),
         UNCHANGED <<otp, data, returned, now>>,
         req'[s].pc \notin {"stored", "reissued", "dropping", "cleaning"}
  PROVE  CacheInv'
BY DEF CacheInv, Alone, Has

LEMMA MailFrame ==
  ASSUME MailInv, NEW s \in Slots, Alone(s),
         UNCHANGED <<data, returned, mails, users, shown>>,
         req'[s].pc # "stored",
         Verified(s)' => Mailed(req'[s].form, req'[s].passcode)
  PROVE  MailInv'
BY DEF MailInv, Alone, Has, Verified, Mailed, ConfirmedByOwnMail

LEMMA UserFrame ==
  ASSUME UserInv, NEW s \in Slots, Alone(s),
         UNCHANGED <<users, lastId, session, tokens>>,
         req'[s].pc \notin {"inserted", "loggedIn", "committed", "cleaning"}
  PROVE  UserInv'
BY DEF UserInv, Alone, Has, Open, OneUserPerPerson, TokenIsUsable, Taken

(* What others know of the cache when only the keys of one hash change that
   they do not own; and that the hash was returned, or is its handler's.   *)
LEMMA OthersHashes ==
  ASSUME TypeOK, HashesInv, NEW s \in Slots, NEW t \in Slots \ {s}
  PROVE  /\ Has(t, {"stored"}) => /\ req[t].hash \in Hashes \ returned
                                  /\ Presented(s) => req[t].hash # req[s].hash
                                  /\ Owns(s) => req[t].hash # Own(s)
         /\ Has(t, {"reissued"}) => /\ req[t].new \in Hashes \ returned
                                    /\ Presented(s) => req[t].new # req[s].hash
                                    /\ Owns(s) => req[t].new # Own(s)
         /\ Presented(t) => /\ req[t].hash \in returned
                            /\ Owns(s) => req[t].hash # Own(s)
<1>1. CASE Has(t, {"stored"})
  <2>1. Owns(t) /\ Own(t) = req[t].hash /\ ~Presented(t)
    BY <1>1 DEF Owns, Own, Presented, Has
  <2>2. req[t].hash \in Hashes
    BY <1>1, RequestFields DEF Has
  <2> QED
    BY <1>1, <2>1, <2>2 DEF HashesInv, Has
<1>2. CASE Has(t, {"reissued"})
  <2>1. Owns(t) /\ Own(t) = req[t].new /\ Presented(t)
    BY <1>2 DEF Owns, Own, Presented, Has
  <2>2. req[t].new \in Hashes
    BY <1>2, RequestFields DEF Has
  <2> QED
    BY <1>2, <2>1, <2>2 DEF HashesInv, Has
<1> QED
  BY <1>1, <1>2 DEF HashesInv, Has

-----------------------------------------------------------------------------
(* register *)

LEMMA RoomForOne == ASSUME TypeOK, Room PROVE last + 1 \in Hashes
BY ResendingFinite, BoundAssumption DEF TypeOK, Room, Resending, Hashes

LEMMA RegisterCheckStep ==
  ASSUME IInv, NEW s \in Slots, RegisterCheck(s)
  PROVE  IInv'
<1>1. PICK form \in Form : SetReq(s, [pc |-> "accepted", hash |-> last + 1,
                                      form |-> form])
  BY DEF RegisterCheck
<1> DEFINE r == [pc |-> "accepted", hash |-> last + 1, form |-> form]
<1>2. last + 1 \in Hashes
  BY RoomForOne DEF IInv, RegisterCheck
<1>3. r \in Request
  BY <1>2 DEF Request
<1>4. req'[s] = r /\ Alone(s) /\ req' \in [Slots -> Request]
  BY <1>1, <1>3, SetReqFacts DEF IInv, Alone
<1>5. last' = last + 1 /\ UNCHANGED <<otp, data, table, sent, session, now, faults>>
      /\ Room /\ req[s] = Idle
  BY DEF RegisterCheck
<1>6. TypeOK'
  BY <1>2, <1>4, <1>5, BoundAssumption DEF IInv, TypeOK, table, sent, Hashes
<1>7. RoomInv'
  BY <1>4, <1>5, RoomTaken DEF IInv, Alone
<1>8. HashesInv'
  <2>1. Owns(s)' /\ Own(s)' = last + 1 /\ ~Presented(s)'
    BY <1>4 DEF Owns, Own, Presented, Has
  <2>2. \A t \in Slots \ {s} : /\ Owns(t)' = Owns(t) /\ Own(t)' = Own(t)
                               /\ Presented(t)' = Presented(t)
    BY <1>4 DEF Alone, Owns, Own, Presented, Has
  <2>3. returned' = returned /\ last \in Nat /\ returned \subseteq Nat
    BY <1>5 DEF sent, IInv, TypeOK, Hashes
  <2>4. \A t \in Slots : Owns(t) => Own(t) \in Nat
    BY RequestFields DEF IInv, Owns, Own, Has, Hashes
  <2> QED
    BY <1>4, <1>5, <2>1, <2>2, <2>3, <2>4 DEF IInv, HashesInv, Alone
<1>9. CacheInv' /\ MailInv' /\ UserInv'
  BY <1>4, <1>5, CacheFrame, MailFrame, UserFrame DEF IInv, sent, table, Verified, Has
<1> QED
  BY <1>6, <1>7, <1>8, <1>9 DEF IInv

LEMMA RegisterDataStep ==
  ASSUME IInv, NEW s \in Slots, RegisterData(s)
  PROVE  IInv'
<1> DEFINE h == req[s].hash
           form == req[s].form
           d == [form |-> form, passcode |-> [secret |-> h, counter |-> 1],
                 expires |-> now + UserExpires]
<1>1. Has(s, {"accepted"}) /\ GoTo(s, "stored")
      /\ UNCHANGED <<otp, last, table, sent, session, now, faults>>
  BY DEF RegisterData, Has
<1>2. req'[s] = [pc |-> "stored", hash |-> h, form |-> form]
      /\ Alone(s) /\ req' \in [Slots -> Request]
  BY <1>1, GoToStored DEF IInv, Alone
<1>3. h \in Hashes /\ form \in Form
  BY <1>1, RequestFields DEF IInv, Has
<1>4. Owns(s) /\ Own(s) = h /\ h \notin returned
  BY <1>1 DEF IInv, HashesInv, Owns, Own, Has
<1>5. data' = [data EXCEPT ![h] = d] /\ d \in Registered
  BY <1>3, ExpiryAssumption DEF RegisterData, SetData, IInv, TypeOK, Registered, Passcode
<1>6. data'[h] = d /\ \A g \in Hashes \ {h} : data'[g] = data[g]
  BY <1>3, <1>5 DEF IInv, TypeOK
<1> HIDE DEF d
<1>7. TypeOK'
  BY <1>1, <1>2, <1>5 DEF IInv, TypeOK, table, sent
<1>8. RoomInv'
  BY <1>1, <1>2, RoomKept DEF IInv, Alone
<1>9. HashesInv'
  BY <1>1, <1>2, <1>4, HashesFrame DEF IInv, sent, Owns, Own, Presented, Has
<1>10. returned \subseteq Hashes \ {h}
  BY <1>4 DEF IInv, TypeOK
<1>11. CacheInv'
  <2>1. \A g \in returned : otp'[g] <= data'[g].expires
    BY <1>1, <1>6, <1>10 DEF IInv, CacheInv
  <2>2. now' + OtpExpires <= data'[req'[s].hash].expires
    BY <1>1, <1>2, <1>6, ExpiryAssumption DEF d, IInv, TypeOK
  <2>3. ASSUME NEW t \in Slots \ {s}
        PROVE  /\ Has(t, {"stored"})' => now' + OtpExpires <= data'[req'[t].hash].expires
               /\ Has(t, {"reissued"})' => otp'[req'[t].new] <= now' + OtpExpires
               /\ Has(t, {"dropping", "cleaning"})' => otp'[req'[t].hash] = 0
    BY <1>1, <1>2, <1>4, <1>6, OthersHashes DEF Alone, Has, IInv, CacheInv
  <2> QED
    BY <1>1, <1>2, <2>1, <2>2, <2>3 DEF CacheInv, Has, sent
<1>12. MailInv'
  <2>1. \A g \in returned : data'[g] # NoData =>
          [to |-> data'[g].form.email, passcode |-> data'[g].passcode] \in mails
    BY <1>6, <1>10 DEF IInv, MailInv, Mailed
  <2>2. ASSUME NEW t \in Slots \ {s}
        PROVE  /\ Has(t, {"stored"})' =>
                    /\ data'[req'[t].hash].form = req'[t].form
                    /\ data'[req'[t].hash].passcode = [secret |-> req'[t].hash, counter |-> 1]
               /\ Verified(t)' => Mailed(req'[t].form, req'[t].passcode)
    BY <1>1, <1>2, <1>4, <1>6, OthersHashes DEF Alone, Has, Verified, IInv, MailInv
  <2> QED
    BY <1>1, <1>2, <1>6, <2>1, <2>2 DEF d, IInv, MailInv, Has, Verified, Mailed,
       ConfirmedByOwnMail, sent, table
<1>13. UserInv'
  BY <1>1, <1>2, UserFrame DEF IInv, sent, table
<1> QED
  BY <1>7, <1>8, <1>9, <1>11, <1>12, <1>13 DEF IInv

LEMMA RegisterOtpStep ==
  ASSUME IInv, NEW s \in Slots, RegisterOtp(s)
  PROVE  IInv'
<1> DEFINE h == req[s].hash
           form == req[s].form
           passcode == [secret |-> h, counter |-> 1]
<1>1. Has(s, {"stored"}) /\ SetReq(s, Idle)
      /\ UNCHANGED <<data, last, table, session, now, faults, tokens>>
      /\ mails' = mails \cup {[to |-> form.email, passcode |-> passcode]}
      /\ returned' = returned \cup {h}
      /\ otp' = [otp EXCEPT ![h] = now + OtpExpires]
  BY DEF RegisterOtp, Has, SendOtp, SetOtp
<1>2. req'[s] = Idle /\ Alone(s) /\ req' \in [Slots -> Request]
  BY <1>1, SetReqFacts DEF IInv, Alone, Request
<1>3. h \in Hashes /\ form \in Form /\ h \in Nat /\ last \in Nat
  BY <1>1, RequestFields DEF IInv, Has, Hashes, TypeOK
<1>4. Owns(s) /\ Own(s) = h /\ h \notin returned /\ h <= last
  BY <1>1 DEF IInv, HashesInv, Owns, Own, Has
<1>5. otp'[h] = now + OtpExpires /\ \A g \in Hashes \ {h} : otp'[g] = otp[g]
  BY <1>1, <1>3 DEF IInv, TypeOK
<1>6. TypeOK'
  <2>1. [to |-> form.email, passcode |-> passcode] \in Mail
    BY <1>3 DEF Mail, Passcode, Form
  <2>2. otp' \in [Hashes -> Nat]
    BY <1>1, <1>3, ExpiryAssumption DEF IInv, TypeOK
  <2> QED
    BY <1>1, <1>2, <1>3, <2>1, <2>2 DEF IInv, TypeOK, table
<1>7. RoomInv'
  BY <1>1, <1>2, RoomKept DEF IInv, Alone, Idle
<1>8. \A t \in Slots \ {s} : /\ Owns(t)' = Owns(t) /\ Own(t)' = Own(t)
                             /\ Presented(t)' = Presented(t)
                             /\ \A pcs : Has(t, pcs)' = Has(t, pcs)
  BY <1>2 DEF Alone, Owns, Own, Presented, Has
<1>9. HashesInv'
  <2>1. ~Owns(s)' /\ ~Presented(s)'
    BY <1>2 DEF Owns, Presented, Has, Idle
  <2> QED
    BY <1>1, <1>2, <1>4, <1>8, <2>1 DEF IInv, HashesInv, Alone
<1>10. returned \subseteq Hashes \ {h}
  BY <1>4 DEF IInv, TypeOK
<1>11. CacheInv'
  <2>1. \A g \in returned' : otp'[g] <= data'[g].expires
    BY <1>1, <1>5, <1>10 DEF IInv, CacheInv, Has
  <2>2. ASSUME NEW t \in Slots \ {s}
        PROVE  /\ Has(t, {"stored"})' => now' + OtpExpires <= data'[req'[t].hash].expires
               /\ Has(t, {"reissued"})' => otp'[req'[t].new] <= now' + OtpExpires
               /\ Has(t, {"dropping", "cleaning"})' => otp'[req'[t].hash] = 0
    <3>1. Has(t, {"dropping", "cleaning"}) => Presented(t) /\ req[t].hash \in Hashes
      BY RequestFields DEF Has, Presented, IInv
    <3> QED
      BY <1>1, <1>2, <1>4, <1>5, <3>1, OthersHashes DEF Alone, Has, IInv, CacheInv
  <2> QED
    BY <1>1, <1>2, <2>1, <2>2 DEF CacheInv, Has, Idle
<1>12. MailInv'
  <2>1. ASSUME NEW g \in returned', data'[g] # NoData
        PROVE  Mailed(data[g].form, data[g].passcode)'
    <3>1. CASE g \in returned
      BY <1>1, <2>1, <3>1 DEF IInv, MailInv, Mailed
    <3>2. CASE g = h
      <4>1. data[h].form = form /\ data[h].passcode = passcode
        BY <1>1 DEF IInv, MailInv, Has
      <4> QED
        BY <1>1, <3>2, <4>1 DEF Mailed
    <3> QED
      BY <1>1, <3>1, <3>2
  <2>2. ASSUME NEW t \in Slots \ {s}
        PROVE  /\ Has(t, {"stored"})' =>
                    /\ data'[req'[t].hash].form = req'[t].form
                    /\ data'[req'[t].hash].passcode = [secret |-> req'[t].hash, counter |-> 1]
               /\ Verified(t)' => Mailed(req[t].form, req[t].passcode)'
    BY <1>1, <1>2 DEF Alone, Has, Verified, IInv, MailInv, Mailed
  <2>3. ~Has(s, {"stored"})' /\ ~Verified(s)'
    BY <1>2 DEF Has, Verified, Idle
  <2>4. ConfirmedByOwnMail'
    BY <1>1 DEF IInv, MailInv, ConfirmedByOwnMail, table
  <2> QED
    BY <2>1, <2>2, <2>3, <2>4 DEF MailInv
<1>13. UserInv'
  BY <1>1, <1>2, UserFrame DEF IInv, table, Idle
<1> QED
  BY <1>6, <1>7, <1>9, <1>11, <1>12, <1>13 DEF IInv

-----------------------------------------------------------------------------
(* resendOTP *)

LEMMA ResendOtpSeenStep ==
  ASSUME IInv, NEW s \in Slots, NEW h \in returned, ResendOtpSeen(s, h)
  PROVE  IInv'
<1> DEFINE r == [pc |-> "resending", hash |-> h]
<1>1. req[s] = Idle /\ Room /\ SetReq(s, r)
      /\ UNCHANGED <<cache, table, sent, session, now, faults>>
  BY DEF ResendOtpSeen
<1>2. r \in Request
  BY DEF IInv, TypeOK, Request
<1>3. req'[s] = r /\ Alone(s) /\ req' \in [Slots -> Request]
  BY <1>1, <1>2, SetReqFacts DEF IInv, Alone
<1>4. TypeOK'
  BY <1>1, <1>3 DEF IInv, TypeOK, cache, table, sent
<1>5. RoomInv'
  BY <1>1, <1>3, RoomTaken DEF IInv, Alone, cache
<1>6. HashesInv'
  BY <1>1, <1>3, HashesFrame DEF IInv, cache, sent, Owns, Has
<1>7. CacheInv' /\ MailInv' /\ UserInv'
  BY <1>1, <1>3, CacheFrame, MailFrame, UserFrame
     DEF IInv, cache, sent, table, Verified, Has
<1> QED
  BY <1>4, <1>5, <1>6, <1>7 DEF IInv

LEMMA ResendReadStep ==
  ASSUME IInv, NEW s \in Slots, ResendRead(s)
  PROVE  IInv'
<1> DEFINE h == req[s].hash
           r == [pc |-> "renewing", hash |-> h, new |-> last + 1, old |-> data[h]]
<1>1. req[s].pc = "resending" /\ UNCHANGED <<otp, data, table, sent, session, now, faults>>
  BY DEF ResendRead
<1>2. h \in Hashes /\ h \in returned
  BY <1>1, RequestFields DEF IInv, HashesInv, Presented, Has
<1>3. CASE SetReq(s, Idle) /\ last' = last
  <2>1. /\ req' \in [Slots -> Request]
        /\ \A t \in Slots : req'[t] = req[t] \/ req'[t] = Idle
    BY <1>3, SetReqFacts DEF IInv, Request
  <2> QED
    BY <1>1, <1>3, <2>1, EndStep DEF cache, IInv, TypeOK
<1>4. CASE DataAlive(h) /\ last' = last + 1 /\ SetReq(s, r)
  <2>1. data[h] \in Registered
    BY <1>2, <1>4 DEF IInv, TypeOK, DataAlive, NoData
  <2>2. r.pc = "renewing" /\ r.hash = h /\ r.new = last + 1 /\ r.old = data[h]
    OBVIOUS
  <2>3. req'[s] = r /\ Alone(s)
    BY <1>4, SetReqFacts DEF IInv, Alone
  <2>4. RoomInv' /\ last + 1 <= MaxHashes
    BY <1>1, <1>4, <2>3, RoomUsed DEF IInv, Alone
  <2>5. last + 1 \in Hashes
    BY <2>4, BoundAssumption DEF IInv, TypeOK, Hashes
  <2>6. r \in Request
    BY <1>2, <2>1, <2>5 DEF Request
  <2>7. req' \in [Slots -> Request]
    BY <1>4, <2>6, SetReqFacts DEF IInv
  <2>8. TypeOK'
    BY <1>1, <1>4, <2>5, <2>7, BoundAssumption DEF IInv, TypeOK, table, sent, Hashes
  <2>9. HashesInv'
    <3>1. Owns(s)' /\ Own(s)' = last + 1 /\ Presented(s)'
      BY <2>3 DEF Owns, Own, Presented, Has
    <3>2. \A t \in Slots \ {s} : /\ Owns(t)' = Owns(t) /\ Own(t)' = Own(t)
                                 /\ Presented(t)' = Presented(t)
      BY <2>3 DEF Alone, Owns, Own, Presented, Has
    <3>3. returned' = returned /\ last \in Nat /\ returned \subseteq Nat
      BY <1>1 DEF sent, IInv, TypeOK, Hashes
    <3>4. \A t \in Slots : Owns(t) => Own(t) \in Nat
      BY RequestFields DEF IInv, Owns, Own, Has, Hashes
    <3> QED
      BY <1>2, <1>4, <2>3, <3>1, <3>2, <3>3, <3>4 DEF IInv, HashesInv, Alone
  <2>10. CacheInv' /\ MailInv' /\ UserInv'
    BY <1>1, <2>3, CacheFrame, MailFrame, UserFrame DEF IInv, sent, table, Verified, Has
  <2> QED
    BY <2>4, <2>8, <2>9, <2>10 DEF IInv
<1> QED
  BY <1>3, <1>4 DEF ResendRead

(* A handler takes a key of the hash it was given away, the OTP key, or the
   registration when the OTP key is gone; or the OTP key of its own hash is
   set.                                                                    *)
LEMMA MovingStep ==
  ASSUME IInv, NEW s \in Slots, Alone(s), req' \in [Slots -> Request],
         Has(s, {"renewing", "dropping", "moving"}),
         NEW pc \in {"dropping", "moving", "reissued"},
         req'[s] = [pc |-> pc, hash |-> req[s].hash, new |-> req[s].new,
                    old |-> req[s].old],
         UNCHANGED <<last, table, sent, session, now, faults>>,
         \/ pc = "dropping" /\ RemoveOtp(req[s].hash) /\ data' = data
         \/ pc = "moving" /\ Has(s, {"dropping"}) /\ RemoveData(req[s].hash) /\ otp' = otp
         \/ pc = "reissued" /\ SetOtp(req[s].new) /\ data' = data
  PROVE  IInv'
<1> DEFINE h == req[s].hash
           new == req[s].new
<1>1. h \in Hashes /\ new \in Hashes
  BY RequestFields DEF IInv, Has
<1>2. /\ Owns(s) /\ Own(s) = new /\ Presented(s)
      /\ h \in returned /\ new \notin returned /\ h # new
  BY DEF IInv, HashesInv, Owns, Own, Presented, Has
<1>3. /\ \A g \in Hashes \ {h, new} : otp'[g] = otp[g] /\ data'[g] = data[g]
      /\ data'[new] = data[new] /\ data'[h] \in {data[h], NoData}
      /\ otp'[h] \in {otp[h], 0} /\ otp'[new] \in {otp[new], now + OtpExpires}
      /\ pc = "dropping" => otp'[h] = 0
      /\ data'[h] = data[h] \/ otp'[h] = 0
      /\ pc = "reissued" => otp'[new] = now + OtpExpires
  BY <1>1, <1>2 DEF IInv, TypeOK, RemoveOtp, RemoveData, SetOtp, CacheInv, Has
<1>4. otp' \in [Hashes -> Nat] /\ data' \in [Hashes -> Registered \cup {NoData}]
  BY <1>1, ExpiryAssumption DEF IInv, TypeOK, RemoveOtp, RemoveData, SetOtp
<1>5. TypeOK'
  BY <1>4 DEF IInv, TypeOK, table, sent
<1>6. RoomInv'
  BY RoomKept DEF IInv, Alone
<1>7. HashesInv'
  BY <1>2, HashesFrame DEF IInv, sent, Owns, Own, Presented, Has
<1>8. returned \subseteq Hashes \ {new} /\ now \in Nat /\ OtpExpires \in Nat
  BY <1>2, ExpiryAssumption DEF IInv, TypeOK
<1>9. CacheInv'
  <2>1. \A g \in returned : otp'[g] <= data'[g].expires
    <3>1. ASSUME NEW g \in returned, g # h PROVE otp'[g] <= data'[g].expires
      BY <1>3, <1>8, <3>1 DEF IInv, CacheInv
    <3>2. otp'[h] <= data'[h].expires
      <4>1. data[h].expires \in Nat /\ otp[h] <= data[h].expires
        BY <1>1, <1>2 DEF IInv, TypeOK, CacheInv, Registered, NoData
      <4> QED
        BY <1>3, <4>1 DEF NoData
    <3> QED
      BY <3>1, <3>2
  <2>2. ASSUME NEW t \in Slots \ {s}
        PROVE  /\ Has(t, {"stored"})' => now' + OtpExpires <= data'[req'[t].hash].expires
               /\ Has(t, {"reissued"})' => otp'[req'[t].new] <= now' + OtpExpires
               /\ Has(t, {"dropping", "cleaning"})' => otp'[req'[t].hash] = 0
    <3>1. CASE Has(t, {"stored"})
      BY <1>2, <1>3, <3>1, OthersHashes DEF Alone, Has, IInv, CacheInv
    <3>2. CASE Has(t, {"reissued"})
      BY <1>2, <1>3, <3>2, OthersHashes DEF Alone, Has, IInv, CacheInv
    <3>3. CASE Has(t, {"dropping", "cleaning"})
      <4>1. Presented(t) /\ req[t].hash \in returned /\ otp[req[t].hash] = 0
        BY <3>3, OthersHashes DEF Has, Presented, IInv, CacheInv
      <4>2. otp'[req[t].hash] = 0
        BY <1>3, <1>8, <4>1
      <4> QED
        BY <3>3, <4>2 DEF Alone, Has
    <3> QED
      BY <3>1, <3>2, <3>3 DEF Alone, Has
  <2>3. /\ ~Has(s, {"stored", "cleaning"})'
        /\ Has(s, {"reissued"})' => otp'[new] <= now' + OtpExpires
        /\ Has(s, {"dropping"})' => otp'[h] = 0
    BY <1>3, <1>8 DEF Has
  <2>4. req'[s].hash = h /\ req'[s].new = new
    OBVIOUS
  <2> QED
    BY <2>1, <2>2, <2>3, <2>4 DEF CacheInv, Has, sent
<1>10. MailInv'
  <2>1. \A g \in returned : data'[g] # NoData =>
          data'[g] = data[g] /\ Mailed(data[g].form, data[g].passcode)
    BY <1>1, <1>3, <1>8 DEF IInv, MailInv
  <2>2. ASSUME NEW t \in Slots \ {s}, Has(t, {"stored"})
        PROVE  /\ data'[req[t].hash].form = req[t].form
               /\ data'[req[t].hash].passcode = [secret |-> req[t].hash, counter |-> 1]
    <3>1. data'[req[t].hash] = data[req[t].hash]
      BY <1>2, <1>3, <2>2, OthersHashes DEF IInv
    <3> QED
      BY <2>2, <3>1 DEF IInv, MailInv
  <2>3. ASSUME NEW t \in Slots \ {s}, Verified(t)
        PROVE  Mailed(req[t].form, req[t].passcode)
    BY <2>3 DEF IInv, MailInv
  <2>4. ~Has(s, {"stored"})' /\ ~Verified(s)'
    BY DEF Has, Verified
  <2>5. ConfirmedByOwnMail'
    BY DEF IInv, MailInv, ConfirmedByOwnMail, table, sent
  <2> QED
    BY <2>1, <2>2, <2>3, <2>4, <2>5 DEF MailInv, Alone, Has, Verified, Mailed, sent
<1>11. UserInv'
  BY UserFrame DEF IInv, sent, table
<1> QED
  BY <1>5, <1>6, <1>7, <1>9, <1>10, <1>11 DEF IInv

LEMMA ResendMoves ==
  ASSUME IInv, NEW s \in Slots,
         ResendRemoveOtp(s) \/ ResendRemoveData(s) \/ ResendSetOtp(s)
  PROVE  IInv'
<1>1. CASE ResendRemoveOtp(s)
  BY <1>1, GoToRenewal, MovingStep DEF ResendRemoveOtp, IInv, Alone, Has
<1>2. CASE ResendRemoveData(s)
  BY <1>2, GoToRenewal, MovingStep DEF ResendRemoveData, IInv, Alone, Has
<1>3. CASE ResendSetOtp(s)
  BY <1>3, GoToRenewal, MovingStep DEF ResendSetOtp, IInv, Alone, Has
<1> QED
  BY <1>1, <1>2, <1>3

LEMMA ResendSetDataStep ==
  ASSUME IInv, NEW s \in Slots, ResendSetData(s)
  PROVE  IInv'
<1> DEFINE new == req[s].new
           form == req[s].old.form
           passcode == NextPasscode(req[s].old.passcode)
           d == [form |-> form, passcode |-> passcode, expires |-> now + OtpExpires]
<1>1. Has(s, {"reissued"}) /\ SetReq(s, Idle)
      /\ UNCHANGED <<otp, last, table, session, now, faults, tokens>>
      /\ mails' = mails \cup {[to |-> form.email, passcode |-> passcode]}
      /\ returned' = returned \cup {new}
      /\ data' = [data EXCEPT ![new] = d]
  BY DEF ResendSetData, Has, SendOtp, SetData
<1>2. req'[s] = Idle /\ Alone(s) /\ req' \in [Slots -> Request]
  BY <1>1, SetReqFacts DEF IInv, Alone, Request
<1>3. new \in Hashes /\ form \in Form /\ new \in Nat /\ last \in Nat
      /\ passcode \in Passcode
  <2>1. new \in Hashes /\ req[s].old \in Registered
    BY <1>1, RequestFields DEF IInv, Has
  <2> QED
    BY <2>1 DEF Registered, Passcode, NextPasscode, Hashes, IInv, TypeOK
<1>4. Owns(s) /\ Own(s) = new /\ new \notin returned /\ new <= last
  BY <1>1 DEF IInv, HashesInv, Owns, Own, Has
<1> HIDE DEF passcode, form
<1>5. data'[new] = d /\ \A g \in Hashes \ {new} : data'[g] = data[g]
  BY <1>1, <1>3 DEF IInv, TypeOK
<1>6. TypeOK'
  <2>1. [to |-> form.email, passcode |-> passcode] \in Mail
    BY <1>3 DEF Mail, Form
  <2>2. d \in Registered
    BY <1>3, ExpiryAssumption DEF IInv, TypeOK, Registered
  <2>3. data' \in [Hashes -> Registered \cup {NoData}]
    BY <1>1, <1>3, <2>2 DEF IInv, TypeOK
  <2> QED
    BY <1>1, <1>2, <1>3, <2>1, <2>3 DEF IInv, TypeOK, table
<1>7. RoomInv'
  BY <1>1, <1>2, RoomKept DEF IInv, Alone, Idle
<1>8. \A t \in Slots \ {s} : /\ Owns(t)' = Owns(t) /\ Own(t)' = Own(t)
                             /\ Presented(t)' = Presented(t)
  BY <1>2 DEF Alone, Owns, Own, Presented, Has
<1>9. HashesInv'
  <2>1. ~Owns(s)' /\ ~Presented(s)'
    BY <1>2 DEF Owns, Presented, Has, Idle
  <2> QED
    BY <1>1, <1>2, <1>4, <1>8, <2>1 DEF IInv, HashesInv, Alone
<1>10. returned \subseteq Hashes \ {new}
  BY <1>4 DEF IInv, TypeOK
<1>11. ASSUME NEW t \in Slots \ {s}, Has(t, {"stored"})
       PROVE  data'[req[t].hash] = data[req[t].hash]
  BY <1>4, <1>5, <1>11, OthersHashes DEF IInv
<1>12. CacheInv'
  <2>1. \A g \in returned' : otp'[g] <= data'[g].expires
    BY <1>1, <1>5, <1>10 DEF IInv, CacheInv, Has
  <2>2. ASSUME NEW t \in Slots \ {s}
        PROVE  /\ Has(t, {"stored"})' => now' + OtpExpires <= data'[req'[t].hash].expires
               /\ Has(t, {"reissued"})' => otp'[req'[t].new] <= now' + OtpExpires
               /\ Has(t, {"dropping", "cleaning"})' => otp'[req'[t].hash] = 0
    BY <1>1, <1>2, <1>11 DEF Alone, Has, IInv, CacheInv
  <2> QED
    BY <1>1, <1>2, <2>1, <2>2 DEF CacheInv, Has, Idle
<1>13. MailInv'
  <2>1. ASSUME NEW g \in returned', data'[g] # NoData
        PROVE  Mailed(data[g].form, data[g].passcode)'
    <3>1. CASE g \in returned
      BY <1>1, <1>5, <1>10, <2>1, <3>1 DEF IInv, MailInv, Mailed
    <3>2. CASE g = new
      BY <1>1, <1>5, <3>2 DEF Mailed
    <3> QED
      BY <1>1, <3>1, <3>2
  <2>2. ASSUME NEW t \in Slots \ {s}
        PROVE  /\ Has(t, {"stored"})' =>
                    /\ data'[req'[t].hash].form = req'[t].form
                    /\ data'[req'[t].hash].passcode = [secret |-> req'[t].hash, counter |-> 1]
               /\ Verified(t)' => Mailed(req[t].form, req[t].passcode)'
    BY <1>1, <1>2, <1>11 DEF Alone, Has, Verified, IInv, MailInv, Mailed
  <2>3. ~Has(s, {"stored"})' /\ ~Verified(s)'
    BY <1>2 DEF Has, Verified, Idle
  <2>4. ConfirmedByOwnMail'
    BY <1>1 DEF IInv, MailInv, ConfirmedByOwnMail, table
  <2> QED
    BY <2>1, <2>2, <2>3, <2>4 DEF MailInv
<1>14. UserInv'
  BY <1>1, <1>2, UserFrame DEF IInv, table, Idle
<1> QED
  BY <1>6, <1>7, <1>9, <1>12, <1>13, <1>14 DEF IInv

-----------------------------------------------------------------------------
(* confirmation *)

LEMMA ConfirmOtpSeenStep ==
  ASSUME IInv, NEW s \in Slots, NEW h \in returned, NEW mail \in mails,
         ConfirmOtpSeen(s, h, mail)
  PROVE  IInv'
<1> DEFINE r == [pc |-> "confirming", hash |-> h, passcode |-> mail.passcode]
<1>1. SetReq(s, r) /\ UNCHANGED <<cache, table, sent, session, now, faults>>
  BY DEF ConfirmOtpSeen
<1>2. r \in Request
  BY DEF IInv, TypeOK, Request, Mail
<1>3. req'[s] = r /\ Alone(s) /\ req' \in [Slots -> Request]
  BY <1>1, <1>2, SetReqFacts DEF IInv, Alone
<1>4. TypeOK'
  BY <1>1, <1>3 DEF IInv, TypeOK, cache, table, sent
<1>5. RoomInv'
  BY <1>1, <1>3, RoomKept DEF IInv, Alone, cache
<1>6. HashesInv'
  BY <1>1, <1>3, HashesFrame DEF IInv, cache, sent, Owns, Has
<1>7. CacheInv' /\ MailInv' /\ UserInv'
  BY <1>1, <1>3, CacheFrame, MailFrame, UserFrame
     DEF IInv, cache, sent, table, Verified, Has
<1> QED
  BY <1>4, <1>5, <1>6, <1>7 DEF IInv

(* The passcode that is valid for a registration was mailed with it. *)
LEMMA ConfirmReadStep ==
  ASSUME IInv, NEW s \in Slots, ConfirmRead(s)
  PROVE  IInv'
<1> DEFINE h == req[s].hash
           r == [pc |-> "verified", hash |-> h, form |-> data[h].form,
                 passcode |-> req[s].passcode]
<1>1. Has(s, {"confirming"}) /\ UNCHANGED <<cache, table, sent, session, now, faults>>
  BY DEF ConfirmRead, Has
<1>2. h \in Hashes /\ h \in returned /\ req[s].passcode \in Passcode
  BY <1>1, RequestFields DEF IInv, HashesInv, Presented, Has
<1>3. CASE SetReq(s, Idle)
  <2>1. /\ req' \in [Slots -> Request]
        /\ \A t \in Slots : req'[t] = req[t] \/ req'[t] = Idle
    BY <1>3, SetReqFacts DEF IInv, Request
  <2> QED
    BY <1>1, <2>1, EndStep DEF IInv, TypeOK
<1>4. CASE DataAlive(h) /\ Valid(h, req[s].passcode) /\ SetReq(s, r)
  <2>1. data[h] # NoData /\ data[h] \in Registered
    BY <1>2, <1>4 DEF IInv, TypeOK, DataAlive, NoData
  <2>2. Mailed(data[h].form, req[s].passcode)
    BY <1>2, <1>4, <2>1 DEF IInv, MailInv, Valid
  <2>3. r \in Request
    BY <1>2, <2>1 DEF Request, Registered
  <2>4. req'[s] = r /\ Alone(s) /\ req' \in [Slots -> Request]
    BY <1>4, <2>3, SetReqFacts DEF IInv, Alone
  <2>5. TypeOK'
    BY <1>1, <2>4 DEF IInv, TypeOK, cache, table, sent
  <2>6. RoomInv'
    BY <1>1, <2>4, RoomKept DEF IInv, Alone, cache
  <2>7. HashesInv'
    BY <1>1, <1>2, <2>4, HashesFrame DEF IInv, cache, sent, Owns, Has
  <2>8. CacheInv' /\ MailInv' /\ UserInv'
    BY <1>1, <2>2, <2>4, CacheFrame, MailFrame, UserFrame
       DEF IInv, cache, sent, table, Verified, Has
  <2> QED
    BY <2>5, <2>6, <2>7, <2>8 DEF IInv
<1> QED
  BY <1>3, <1>4 DEF ConfirmRead

(* The insert waits for the inserts it clashes with, and fails at a user it
   clashes with.                                                           *)
LEMMA ConfirmInsertStep ==
  ASSUME IInv, NEW s \in Slots, ConfirmInsert(s)
  PROVE  IInv'
<1> DEFINE form == req[s].form
           r == [pc |-> "inserted", hash |-> req[s].hash, form |-> form,
                 passcode |-> req[s].passcode, id |-> lastId + 1]
<1>1. Has(s, {"verified"}) /\ ~InsertLocked(s, form)
      /\ UNCHANGED <<cache, users, shown, sent, session, now, faults>>
  BY DEF ConfirmInsert, Has
<1>2. /\ req[s].hash \in Hashes /\ req[s].hash \in returned
      /\ req[s].passcode \in Passcode /\ form \in Form
      /\ Mailed(form, req[s].passcode)
  BY <1>1, RequestFields DEF IInv, HashesInv, MailInv, Presented, Verified, Has
<1>3. CASE SetReq(s, Idle) /\ lastId' = lastId
  <2>1. /\ req' \in [Slots -> Request]
        /\ \A t \in Slots : req'[t] = req[t] \/ req'[t] = Idle
    BY <1>3, SetReqFacts DEF IInv, Request
  <2> QED
    BY <1>1, <1>3, <2>1, EndStep DEF IInv, TypeOK, table
<1>4. CASE ~Taken(form) /\ lastId' = lastId + 1 /\ SetReq(s, r)
  <2>1. lastId \in Nat
    BY DEF IInv, TypeOK
  <2>2. r \in Request
    BY <1>2, <2>1 DEF Request
  <2>3. req'[s] = r /\ Alone(s) /\ req' \in [Slots -> Request]
    BY <1>4, <2>2, SetReqFacts DEF IInv, Alone
  <2>4. TypeOK'
    BY <1>1, <1>4, <2>1, <2>3 DEF IInv, TypeOK, cache, sent
  <2>5. RoomInv'
    BY <1>1, <2>3, RoomKept DEF IInv, Alone, cache
  <2>6. HashesInv'
    BY <1>1, <1>2, <2>3, HashesFrame DEF IInv, cache, sent, Owns, Has
  <2>7. CacheInv' /\ MailInv'
    BY <1>1, <1>2, <2>3, CacheFrame, MailFrame DEF IInv, cache, sent, Verified, Has
  <2>8. UserInv'
    <3>1. OneUserPerPerson' /\ TokenIsUsable'
      BY <1>1 DEF IInv, UserInv, OneUserPerPerson, TokenIsUsable, sent
    <3>2. \A t \in Slots \ {s} : Open(t) =>
            /\ ~Clashes(req[t].form, form) /\ ~Clashes(form, req[t].form)
            /\ req[t].id # lastId + 1
      BY <1>1, <2>1 DEF InsertLocked, Clashes, Open, Has, IInv, UserInv
    <3>3. lastId + 1 \in (1..lastId') \ DOMAIN users
      BY <1>4, <2>1 DEF IInv, TypeOK
    <3>4. Open(s)' /\ ~Has(s, {"loggedIn", "committed", "cleaning"})'
          /\ req'[s].form = form /\ req'[s].id = lastId + 1
      BY <2>3 DEF Open, Has
    <3>5. \A t \in Slots \ {s} : Open(t)' = Open(t) /\ req'[t] = req[t]
      BY <2>3 DEF Open, Has, Alone
    <3>6. ASSUME NEW t \in Slots
          PROVE  /\ Open(t)' => /\ ~Taken(req[t].form)'
                                /\ req'[t].id \in (1..lastId') \ DOMAIN users'
                 /\ Has(t, {"loggedIn", "committed", "cleaning"})' => req'[t].id \in session'
                 /\ Has(t, {"committed", "cleaning"})' => req'[t].id \in DOMAIN users'
      <4>1. CASE t = s
        BY <1>1, <1>4, <3>3, <3>4, <4>1 DEF Taken, Has
      <4>2. CASE t # s
        BY <1>1, <1>4, <2>1, <3>5, <4>2 DEF IInv, UserInv, Taken, Has, TypeOK
      <4> QED
        BY <4>1, <4>2
    <3>7. \A t, u \in Slots : Open(t)' /\ Open(u)' /\ t # u =>
            ~Clashes(req'[t].form, req'[u].form) /\ req'[t].id # req'[u].id
      BY <3>2, <3>4, <3>5 DEF IInv, UserInv
    <3> QED
      BY <3>1, <3>6, <3>7 DEF UserInv
  <2> QED
    BY <2>4, <2>5, <2>6, <2>7, <2>8 DEF IInv
<1> QED
  BY <1>3, <1>4 DEF ConfirmInsert

LEMMA ConfirmSessionStep ==
  ASSUME IInv, NEW s \in Slots, ConfirmSession(s)
  PROVE  IInv'
<1>1. Has(s, {"inserted"}) /\ GoTo(s, "loggedIn") /\ session' = session \cup {req[s].id}
      /\ UNCHANGED <<cache, table, sent, now, faults>>
  BY DEF ConfirmSession, Has
<1>2. /\ req'[s] = [pc |-> "loggedIn", hash |-> req[s].hash,
                    passcode |-> req[s].passcode, form |-> req[s].form, id |-> req[s].id]
      /\ Alone(s) /\ req' \in [Slots -> Request]
  BY <1>1, GoToConfirmed DEF IInv, Alone, Has
<1>3. /\ Open(s) /\ Verified(s) /\ Presented(s) /\ ~Taken(req[s].form)
      /\ req[s].id \in (1..lastId) \ DOMAIN users
      /\ Mailed(req[s].form, req[s].passcode)
  BY <1>1 DEF IInv, UserInv, MailInv, Open, Verified, Presented, Has
<1>10. /\ req'[s].pc = "loggedIn" /\ req'[s].form = req[s].form
       /\ req'[s].passcode = req[s].passcode /\ req'[s].id = req[s].id
  BY <1>2
<1>4. TypeOK'
  BY <1>1, <1>2, <1>3 DEF IInv, TypeOK, cache, table, sent
<1>5. RoomInv'
  BY <1>1, <1>2, RoomKept DEF IInv, Alone, cache
<1>6. HashesInv'
  BY <1>1, <1>2, <1>3, HashesFrame DEF IInv, HashesInv, cache, sent, Owns, Has
<1>7. CacheInv'
  BY <1>1, <1>2, CacheFrame DEF IInv, cache, sent
<1>8. MailInv'
  <2>1. Mailed(req'[s].form, req'[s].passcode)
    BY <1>3, <1>10
  <2> QED
    BY <1>1, <1>2, <2>1, MailFrame DEF IInv, cache, sent, table
<1>9. UserInv'
  <2>1. OneUserPerPerson' /\ TokenIsUsable'
    BY <1>1 DEF IInv, UserInv, OneUserPerPerson, TokenIsUsable, sent, table
  <2>2. \A t \in Slots : Open(t)' <=> Open(t)
    BY <1>2, <1>3 DEF Open, Has, Alone
  <2>3. ASSUME NEW t \in Slots
        PROVE  req'[t].form = req[t].form /\ req'[t].id = req[t].id
    BY <1>2, <1>10 DEF Alone
  <2>4. ASSUME NEW t \in Slots, Open(t)
        PROVE  ~Taken(req[t].form)' /\ req'[t].id \in (1..lastId') \ DOMAIN users'
    <3>1. ~Taken(req[t].form) /\ req[t].id \in (1..lastId) \ DOMAIN users
      BY <2>4 DEF IInv, UserInv
    <3>2. req'[t].form = req[t].form /\ req'[t].id = req[t].id
      BY <2>3
    <3> QED
      BY <1>1, <3>1, <3>2 DEF Taken, table
  <2>5. ASSUME NEW t \in Slots
        PROVE  /\ Has(t, {"loggedIn", "committed", "cleaning"})' => req'[t].id \in session'
               /\ Has(t, {"committed", "cleaning"})' => req'[t].id \in DOMAIN users'
    <3>1. CASE t = s
      BY <1>1, <1>10, <3>1 DEF Has
    <3>2. CASE t # s
      BY <1>1, <1>2, <3>2 DEF IInv, UserInv, Alone, Has, table
    <3> QED
      BY <3>1, <3>2
  <2>6. ASSUME NEW t \in Slots, NEW u \in Slots, Open(t), Open(u), t # u
        PROVE  ~Clashes(req[t].form, req[u].form)' /\ req'[t].id # req'[u].id
    <3>1. ~Clashes(req[t].form, req[u].form) /\ req[t].id # req[u].id
      BY <2>6 DEF IInv, UserInv
    <3>2. /\ req'[t].form = req[t].form /\ req'[t].id = req[t].id
          /\ req'[u].form = req[u].form /\ req'[u].id = req[u].id
      BY <2>3
    <3> QED
      BY <3>1, <3>2
  <2> QED
    BY <2>1, <2>2, <2>4, <2>5, <2>6 DEF UserInv
<1> QED
  BY <1>4, <1>5, <1>6, <1>7, <1>8, <1>9 DEF IInv

(* The commit makes a user of the open transaction's row, which clashes with
   nobody in the table and with no other open row.                         *)
LEMMA ConfirmCommitStep ==
  ASSUME IInv, NEW s \in Slots, ConfirmCommit(s)
  PROVE  IInv'
<1> DEFINE form == req[s].form
           id == req[s].id
<1>1. Has(s, {"loggedIn"}) /\ GoTo(s, "committed")
      /\ UNCHANGED <<cache, lastId, sent, session, now, faults>>
      /\ users' = Inserted(users, id, form) /\ shown' = Inserted(shown, id, req[s].passcode)
  BY DEF ConfirmCommit, Has
<1>2. /\ req'[s] = [pc |-> "committed", hash |-> req[s].hash,
                    passcode |-> req[s].passcode, form |-> form, id |-> id]
      /\ Alone(s) /\ req' \in [Slots -> Request]
  BY <1>1, GoToConfirmed DEF IInv, Alone, Has
<1>3. /\ Open(s) /\ Verified(s) /\ Presented(s) /\ id \in (1..lastId) \ DOMAIN users
      /\ ~Taken(form) /\ id \in session /\ Mailed(form, req[s].passcode)
  BY <1>1 DEF IInv, UserInv, MailInv, Open, Verified, Presented, Has
<1>4. form \in Form /\ req[s].passcode \in Passcode
  BY <1>1, RequestFields DEF IInv, Has
<1>5. /\ DOMAIN users' = DOMAIN users \cup {id} /\ users'[id] = form
      /\ \A i \in DOMAIN users : users'[i] = users[i]
      /\ DOMAIN shown' = DOMAIN users' /\ shown'[id] = req[s].passcode
      /\ \A i \in DOMAIN users : shown'[i] = shown[i]
  BY <1>1, <1>3 DEF Inserted, IInv, TypeOK
<1>6. users' \in [DOMAIN users' -> Form] /\ shown' \in [DOMAIN users' -> Passcode]
  BY <1>1, <1>3, <1>4 DEF Inserted, IInv, TypeOK
<1> HIDE DEF form, id
<1>7. TypeOK'
  BY <1>1, <1>2, <1>3, <1>5, <1>6 DEF IInv, TypeOK, cache, sent
<1>8. RoomInv'
  BY <1>1, <1>2, RoomKept DEF IInv, Alone, cache
<1>9. HashesInv'
  BY <1>1, <1>2, <1>3, HashesFrame DEF IInv, HashesInv, cache, sent, Owns, Has
<1>10. CacheInv'
  BY <1>1, <1>2, CacheFrame DEF IInv, cache, sent
<1>11. MailInv'
  <2>1. ConfirmedByOwnMail'
    BY <1>1, <1>3, <1>5 DEF IInv, MailInv, ConfirmedByOwnMail, Mailed, sent
  <2>2. ~Has(s, {"stored"})' /\ ~Verified(s)'
    BY <1>2 DEF Has, Verified
  <2> QED
    BY <1>1, <1>2, <2>1, <2>2 DEF IInv, MailInv, Alone, Has, Verified, Mailed, cache, sent
<1>12. UserInv'
  <2>1. OneUserPerPerson'
    BY <1>3, <1>5 DEF IInv, UserInv, OneUserPerPerson, Taken, Clashes
  <2>2. TokenIsUsable'
    BY <1>1, <1>5 DEF IInv, UserInv, TokenIsUsable, sent
  <2>3. ASSUME NEW t \in Slots \ {s}, Open(t)
        PROVE  ~Taken(req[t].form)' /\ req[t].id \in (1..lastId) \ DOMAIN users'
    <3>1. ~Clashes(form, req[t].form) /\ req[t].id # id
      BY <1>3, <2>3 DEF IInv, UserInv, form, id
    <3>2. ~Taken(req[t].form) /\ req[t].id \in (1..lastId) \ DOMAIN users
      BY <2>3 DEF IInv, UserInv
    <3>3. req'[t] = req[t]
      BY <1>2 DEF Alone
    <3> QED
      BY <1>5, <3>1, <3>2, <3>3 DEF Taken
  <2>4. ~Open(s)' /\ req'[s].id = id
    BY <1>2 DEF Open, Has
  <2>5. \A t \in Slots \ {s} : req'[t] = req[t] /\ Open(t)' = Open(t)
    BY <1>2 DEF Alone, Open, Has
  <2>6. ASSUME NEW t \in Slots
        PROVE  /\ Open(t)' => ~Taken(req[t].form)' /\ req'[t].id \in (1..lastId') \ DOMAIN users'
               /\ Has(t, {"loggedIn", "committed", "cleaning"})' => req'[t].id \in session'
               /\ Has(t, {"committed", "cleaning"})' => req'[t].id \in DOMAIN users'
    <3>1. CASE t = s
      BY <1>1, <1>3, <1>5, <2>4, <3>1
    <3>2. CASE t # s
      BY <1>1, <1>5, <2>3, <2>5, <3>2 DEF IInv, UserInv, Has
    <3> QED
      BY <3>1, <3>2
  <2>7. \A t, u \in Slots : Open(t)' /\ Open(u)' /\ t # u =>
          ~Clashes(req'[t].form, req'[u].form) /\ req'[t].id # req'[u].id
    BY <2>4, <2>5 DEF IInv, UserInv
  <2> QED
    BY <2>1, <2>2, <2>6, <2>7 DEF UserInv
<1> QED
  BY <1>7, <1>8, <1>9, <1>10, <1>11, <1>12 DEF IInv

LEMMA ConfirmRemoveOtpStep ==
  ASSUME IInv, NEW s \in Slots, ConfirmRemoveOtp(s)
  PROVE  IInv'
<1> DEFINE h == req[s].hash
<1>1. Has(s, {"committed"}) /\ GoTo(s, "cleaning") /\ otp' = [otp EXCEPT ![h] = 0]
      /\ UNCHANGED <<data, last, table, sent, session, now, faults>>
  BY DEF ConfirmRemoveOtp, Has, RemoveOtp
<1>2. /\ req'[s] = [pc |-> "cleaning", hash |-> h,
                    passcode |-> req[s].passcode, form |-> req[s].form, id |-> req[s].id]
      /\ Alone(s) /\ req' \in [Slots -> Request]
  BY <1>1, GoToConfirmed DEF IInv, Alone, Has
<1>3. h \in Hashes /\ h \in returned /\ Presented(s)
  BY <1>1, RequestFields DEF IInv, HashesInv, Presented, Has
<1>4. otp' \in [Hashes -> Nat] /\ otp'[h] = 0 /\ \A g \in Hashes \ {h} : otp'[g] = otp[g]
  BY <1>1, <1>3 DEF IInv, TypeOK
<1>5. TypeOK'
  BY <1>1, <1>2, <1>4 DEF IInv, TypeOK, table, sent
<1>6. RoomInv'
  BY <1>1, <1>2, RoomKept DEF IInv, Alone
<1>7. HashesInv'
  BY <1>1, <1>2, <1>3, HashesFrame DEF IInv, sent, Owns, Has
<1>8. CacheInv'
  <2>1. \A g \in returned : otp'[g] <= data'[g].expires
    <3>1. returned \subseteq Hashes /\ data[h].expires \in Nat
      BY <1>3 DEF IInv, TypeOK, Registered, NoData
    <3> QED
      BY <1>1, <1>4, <3>1 DEF IInv, CacheInv
  <2>2. ASSUME NEW t \in Slots \ {s}
        PROVE  /\ Has(t, {"stored"})' => now' + OtpExpires <= data'[req'[t].hash].expires
               /\ Has(t, {"reissued"})' => otp'[req'[t].new] <= now' + OtpExpires
               /\ Has(t, {"dropping", "cleaning"})' => otp'[req'[t].hash] = 0
    <3>1. CASE Has(t, {"stored"})
      BY <1>1, <1>2, <3>1 DEF Alone, Has, IInv, CacheInv
    <3>2. CASE Has(t, {"reissued"})
      <4>1. otp'[req[t].new] = otp[req[t].new]
        BY <1>3, <1>4, <3>2, OthersHashes DEF IInv
      <4> QED
        BY <1>1, <1>2, <3>2, <4>1 DEF Alone, Has, IInv, CacheInv
    <3>3. CASE Has(t, {"dropping", "cleaning"})
      <4>1. req[t].hash \in Hashes /\ otp[req[t].hash] = 0
        BY <3>3, RequestFields DEF Has, IInv, CacheInv
      <4> QED
        BY <1>2, <1>4, <3>3, <4>1 DEF Alone, Has
    <3> QED
      BY <1>2, <3>1, <3>2, <3>3 DEF Alone, Has
  <2> QED
    BY <1>1, <1>2, <1>4, <2>1, <2>2 DEF CacheInv, Has, sent
<1>9. MailInv'
  BY <1>1, <1>2, MailFrame DEF IInv, Verified, Has, sent, table
<1>10. UserInv'
  <2>1. OneUserPerPerson' /\ TokenIsUsable'
    BY <1>1 DEF IInv, UserInv, OneUserPerPerson, TokenIsUsable, sent, table
  <2>2. ~Open(s)' /\ req'[s].id = req[s].id
    BY <1>2 DEF Open, Has
  <2>3. \A t \in Slots \ {s} : req'[t] = req[t] /\ Open(t)' = Open(t)
    BY <1>2 DEF Alone, Open, Has
  <2>4. ASSUME NEW t \in Slots
        PROVE  /\ Open(t)' => /\ ~Taken(req[t].form)'
                              /\ req'[t].id \in (1..lastId') \ DOMAIN users'
               /\ Has(t, {"loggedIn", "committed", "cleaning"})' => req'[t].id \in session'
               /\ Has(t, {"committed", "cleaning"})' => req'[t].id \in DOMAIN users'
    <3>1. CASE t = s
      BY <1>1, <2>2, <3>1 DEF IInv, UserInv, Has, table
    <3>2. CASE t # s
      BY <1>1, <2>3, <3>2 DEF IInv, UserInv, Taken, Has, table
    <3> QED
      BY <3>1, <3>2
  <2>5. \A t, u \in Slots : Open(t)' /\ Open(u)' /\ t # u =>
          ~Clashes(req'[t].form, req'[u].form) /\ req'[t].id # req'[u].id
    BY <2>2, <2>3 DEF IInv, UserInv
  <2> QED
    BY <2>1, <2>4, <2>5 DEF UserInv
<1> QED
  BY <1>5, <1>6, <1>7, <1>8, <1>9, <1>10 DEF IInv

LEMMA ConfirmDoneStep ==
  ASSUME IInv, NEW s \in Slots, ConfirmDone(s)
  PROVE  IInv'
<1> DEFINE h == req[s].hash
<1>1. Has(s, {"cleaning"}) /\ SetReq(s, Idle) /\ data' = [data EXCEPT ![h] = NoData]
      /\ tokens' = tokens \cup {req[s].id}
      /\ UNCHANGED <<otp, last, table, mails, returned, session, now, faults>>
  BY DEF ConfirmDone, Has, RemoveData
<1>2. req'[s] = Idle /\ Alone(s) /\ req' \in [Slots -> Request]
  BY <1>1, SetReqFacts DEF IInv, Alone, Request
<1>3. h \in Hashes /\ h \in returned /\ Presented(s) /\ otp[h] = 0
      /\ req[s].id \in session /\ req[s].id \in DOMAIN users
  BY <1>1, RequestFields DEF IInv, HashesInv, CacheInv, UserInv, Presented, Has
<1>4. /\ data' \in [Hashes -> Registered \cup {NoData}] /\ data'[h] = NoData
      /\ \A g \in Hashes \ {h} : data'[g] = data[g]
  BY <1>1, <1>3 DEF IInv, TypeOK
<1>5. TypeOK'
  BY <1>1, <1>2, <1>3, <1>4 DEF IInv, TypeOK, table
<1>6. RoomInv'
  BY <1>1, <1>2, RoomKept DEF IInv, Alone, Idle
<1>7. HashesInv'
  BY <1>1, <1>2, HashesFrame DEF IInv, Owns, Presented, Has, Idle
<1>8. ASSUME NEW t \in Slots \ {s}, Has(t, {"stored"})
      PROVE  data'[req[t].hash] = data[req[t].hash]
  BY <1>3, <1>4, <1>8, OthersHashes DEF IInv
<1>9. CacheInv'
  <2>1. \A g \in returned : otp'[g] <= data'[g].expires
    BY <1>1, <1>3, <1>4 DEF IInv, TypeOK, CacheInv, NoData
  <2>2. \A t \in Slots \ {s} :
          /\ Has(t, {"stored"})' => now' + OtpExpires <= data'[req'[t].hash].expires
          /\ Has(t, {"reissued"})' => otp'[req'[t].new] <= now' + OtpExpires
          /\ Has(t, {"dropping", "cleaning"})' => otp'[req'[t].hash] = 0
    BY <1>1, <1>2, <1>8 DEF Alone, Has, IInv, CacheInv
  <2> QED
    BY <1>1, <1>2, <2>1, <2>2 DEF CacheInv, Has, Idle
<1>10. MailInv'
  <2>1. \A g \in returned : data'[g] # NoData =>
          data'[g] = data[g] /\ Mailed(data[g].form, data[g].passcode)
    BY <1>3, <1>4 DEF IInv, TypeOK, MailInv
  <2>2. ~Has(s, {"stored"})' /\ ~Verified(s)'
    BY <1>2 DEF Has, Verified, Idle
  <2>3. ConfirmedByOwnMail'
    BY <1>1 DEF IInv, MailInv, ConfirmedByOwnMail, table
  <2>4. \A t \in Slots \ {s} :
          /\ Has(t, {"stored"})' =>
               /\ data'[req'[t].hash].form = req'[t].form
               /\ data'[req'[t].hash].passcode = [secret |-> req'[t].hash, counter |-> 1]
          /\ Verified(t)' => Mailed(req'[t].form, req'[t].passcode)
    BY <1>2, <1>8 DEF IInv, MailInv, Alone, Has, Verified
  <2> QED
    BY <1>1, <2>1, <2>2, <2>3, <2>4 DEF MailInv, Mailed
<1>11. UserInv'
  <2>1. OneUserPerPerson' /\ TokenIsUsable'
    BY <1>1, <1>3 DEF IInv, UserInv, OneUserPerPerson, TokenIsUsable, table
  <2>2. ~Open(s)' /\ ~Has(s, {"loggedIn", "committed", "cleaning"})'
    BY <1>2 DEF Open, Has, Idle
  <2> QED
    BY <1>1, <1>2, <2>1, <2>2 DEF IInv, UserInv, Alone, Open, Has, Taken, table
<1> QED
  BY <1>5, <1>6, <1>7, <1>9, <1>10, <1>11 DEF IInv

-----------------------------------------------------------------------------
LEMMA TickStep == ASSUME IInv, Tick PROVE IInv'
<1>1. now' = now + 1 /\ UNCHANGED <<cache, table, sent, session, req, faults>>
      /\ \A s \in Slots : Has(s, {"stored"}) => now + OtpExpires < data[req[s].hash].expires
  BY DEF Tick, Has
<1>2. TypeOK'
  BY <1>1 DEF IInv, TypeOK, cache, table, sent
<1>3. RoomInv'
  BY <1>1, RoomKept DEF IInv, cache
<1>4. HashesInv'
  BY <1>1 DEF IInv, HashesInv, Owns, Own, Presented, Has, cache, sent
<1>5. CacheInv'
  <2>1. ASSUME NEW s \in Slots, Has(s, {"stored"})
        PROVE  now' + OtpExpires <= data[req[s].hash].expires
    <3>1. req[s].hash \in Hashes
      BY <2>1, RequestFields DEF IInv, Has
    <3>2. data[req[s].hash].expires \in Nat
      BY <3>1 DEF IInv, TypeOK, Registered, NoData
    <3> QED
      BY <1>1, <2>1, <3>2, ExpiryAssumption DEF IInv, TypeOK
  <2>2. ASSUME NEW s \in Slots, Has(s, {"reissued"})
        PROVE  otp[req[s].new] <= now' + OtpExpires
    <3>1. req[s].new \in Hashes
      BY <2>2, RequestFields DEF IInv, Has
    <3> QED
      BY <1>1, <2>2, <3>1, ExpiryAssumption DEF IInv, TypeOK, CacheInv
  <2> QED
    BY <1>1, <2>1, <2>2 DEF IInv, CacheInv, Has, cache, sent
<1>6. MailInv'
  BY <1>1 DEF IInv, MailInv, Mailed, Verified, Has, ConfirmedByOwnMail, cache, table, sent
<1>7. UserInv'
  BY <1>1 DEF IInv, UserInv, Open, Has, Taken, OneUserPerPerson, TokenIsUsable, table, sent
<1> QED
  BY <1>2, <1>3, <1>4, <1>5, <1>6, <1>7 DEF IInv

LEMMA FaultSteps ==
  ASSUME IInv, (\E s \in Slots : Fails(s)) \/ Crash \/ UNCHANGED vars
  PROVE  IInv'
<1>1. UNCHANGED <<cache, table, sent, session, now>> /\ faults' \in Nat
  BY DEF Fails, Crash, Fault, vars, IInv, TypeOK
<1>2. /\ req' \in [Slots -> Request]
      /\ \A t \in Slots : req'[t] = req[t] \/ req'[t] = Idle
  <2>1. ASSUME NEW s \in Slots, SetReq(s, Idle)
        PROVE  /\ req' \in [Slots -> Request]
               /\ \A t \in Slots : req'[t] = req[t] \/ req'[t] = Idle
    BY <2>1, SetReqFacts DEF IInv, Request
  <2> QED
    BY <2>1 DEF Fails, Crash, vars, IInv, TypeOK, Request
<1> QED
  BY <1>1, <1>2, EndStep

LEMMA InitIInv == Init => IInv
<1> SUFFICES ASSUME Init PROVE IInv
  OBVIOUS
<1>1. TypeOK
  BY BoundAssumption DEF Init, TypeOK, Request, Hashes
<1>2. RoomInv
  <2>1. Resending = {}
    BY DEF Init, Resending, Idle
  <2> QED
    BY <2>1, FS_EmptySet, BoundAssumption DEF RoomInv, Init
<1>3. HashesInv /\ CacheInv
  BY DEF Init, HashesInv, CacheInv, Owns, Presented, Has, Idle
<1>4. MailInv /\ UserInv
  BY DEF Init, MailInv, UserInv, Verified, Open, Has, Idle, ConfirmedByOwnMail,
         OneUserPerPerson, TokenIsUsable
<1> QED
  BY <1>1, <1>2, <1>3, <1>4 DEF IInv

LEMMA NextIInv == ASSUME IInv, [Next]_vars PROVE IInv'
<1>1. ASSUME NEW s \in Slots, Register(s) PROVE IInv'
  BY <1>1, RegisterCheckStep, RegisterDataStep, RegisterOtpStep DEF Register
<1>2. ASSUME NEW s \in Slots, Resend(s) PROVE IInv'
  <2>1. CASE \E h \in returned : ResendRefuse(s, h)
    BY <2>1, FaultSteps DEF ResendRefuse
  <2> QED
    BY <1>2, <2>1, ResendOtpSeenStep, ResendReadStep, ResendMoves, ResendSetDataStep
       DEF Resend
<1>3. ASSUME NEW s \in Slots, Confirm(s) PROVE IInv'
  BY <1>3, ConfirmOtpSeenStep, ConfirmReadStep, ConfirmInsertStep, ConfirmSessionStep,
     ConfirmCommitStep, ConfirmRemoveOtpStep, ConfirmDoneStep DEF Confirm
<1> QED
  BY <1>1, <1>2, <1>3, TickStep, FaultSteps DEF Next

LEMMA Invariance == Spec => []IInv
<1>1. IInv /\ [Next]_vars => IInv'
  BY NextIInv
<1> QED
  BY InitIInv, <1>1, PTL DEF Spec

-----------------------------------------------------------------------------
(* Types of the cache, the table, the handlers' state and what was sent: the
   bound on hashes never stops a resend half way.                          *)
THEOREM RegistrationTypes == Spec => []TypeOK
<1>1. IInv => TypeOK
  BY DEF IInv
<1> QED
  BY Invariance, <1>1, PTL

(* Whoever finds its OTP key finds its registration: register and resendOTP
   write the key that lives longer first, or last under a hash nobody was
   given yet; resendOTP and confirmation remove the OTP key first.         *)
THEOREM OtpKeysHaveData == Spec => []OtpHasData
<1>1. IInv => OtpHasData
  <2> SUFFICES ASSUME IInv, NEW h \in returned, OtpAlive(h) PROVE DataAlive(h)
    BY DEF OtpHasData
  <2>1. otp[h] \in Nat /\ data[h].expires \in Nat /\ now \in Nat
    BY DEF IInv, TypeOK, Registered, NoData
  <2> QED
    BY <2>1 DEF IInv, CacheInv, OtpAlive, DataAlive
<1> QED
  BY Invariance, <1>1, PTL

(* A user is confirmed with a passcode that was mailed to the own address. *)
THEOREM UsersConfirmedByOwnMail == Spec => []ConfirmedByOwnMail
<1>1. IInv => ConfirmedByOwnMail
  BY DEF IInv, MailInv
<1> QED
  BY Invariance, <1>1, PTL

(* No two users share an e-mail or a phone. *)
THEOREM UsersDiffer == Spec => []OneUserPerPerson
<1>1. IInv => OneUserPerPerson
  BY DEF IInv, UserInv
<1> QED
  BY Invariance, <1>1, PTL

(* A returned token has its user and its session. *)
THEOREM TokensAreUsable == Spec => []TokenIsUsable
<1>1. IInv => TokenIsUsable
  BY DEF IInv, UserInv
<1> QED
  BY Invariance, <1>1, PTL
-----------------------------------------------------------------------------
(* A user once committed is neither changed nor removed, and stays confirmed
   with the passcode that was shown.                                       *)
UsersStay ==
  \A id \in DOMAIN users :
    id \in DOMAIN users' /\ users'[id] = users[id] /\ shown'[id] = shown[id]

LEMMA UsersStayStep == ASSUME IInv, [Next]_vars PROVE UsersStay
<1>1. CASE UNCHANGED <<users, shown>>
  BY <1>1 DEF UsersStay
<1>2. ASSUME NEW s \in Slots, ConfirmCommit(s) PROVE UsersStay
  <2>1. req[s].id \notin DOMAIN users /\ DOMAIN shown = DOMAIN users
    BY <1>2 DEF ConfirmCommit, Open, Has, IInv, UserInv, TypeOK
  <2> QED
    BY <1>2, <2>1 DEF ConfirmCommit, Inserted, UsersStay
<1>3. ASSUME NEW s \in Slots, Register(s) \/ Resend(s) \/ Fails(s)
      PROVE  UNCHANGED <<users, shown>>
  BY <1>3 DEF Register, RegisterCheck, RegisterData, RegisterOtp, Resend, ResendRefuse,
              ResendOtpSeen, ResendRead, ResendRemoveOtp, ResendRemoveData,
              ResendSetOtp, ResendSetData, Fails, table, vars
<1>4. ASSUME NEW s \in Slots, Confirm(s), ~ConfirmCommit(s)
      PROVE  UNCHANGED <<users, shown>>
  BY <1>4 DEF Confirm, ConfirmOtpSeen, ConfirmRead, ConfirmInsert, ConfirmSession,
              ConfirmRemoveOtp, ConfirmDone, table
<1>5. Tick \/ Crash \/ UNCHANGED vars => UNCHANGED <<users, shown>>
  BY DEF Tick, Crash, table, vars
<1> QED
  BY <1>1, <1>2, <1>3, <1>4, <1>5 DEF Next

(* No confirmation commits over a user: the id it was given before its commit
   is still nobody else's, whatever was rolled back or committed meanwhile. *)
THEOREM UsersStayAsConfirmed == Spec => [][UsersStay]_vars
<1>1. IInv /\ [Next]_vars => [UsersStay]_vars
  BY UsersStayStep
<1> QED
  BY <1>1, Invariance, PTL DEF Spec
=============================================================================
