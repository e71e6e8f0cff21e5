---------------------------- MODULE Registration ----------------------------
(***************************************************************************)
(* Registering a user: AuthUserService.register, resendOTP, confirmation.  *)
(*                                                                         *)
(* A registration waits in the cache (Redis) under two keys of one random  *)
(* hash: AUTH:OTP:<hash>, that a passcode is out, and AUTH:USER:<hash>,    *)
(* the registration itself.  Both expire, each on its own.  The client     *)
(* gets the hash in the response and the passcode by e-mail; confirmation  *)
(* takes both and inserts the user.                                        *)
(*                                                                         *)
(* A handler runs in a slot; every access to the cache or the database is  *)
(* an await, and an action of its own.  A cache or database call that      *)
(* rejects is Fails, a restart of the process is Crash.                    *)
(***************************************************************************)
EXTENDS Naturals, FiniteSets

CONSTANTS
  Slots,         \* handlers that run at the same time
  Emails, Phones,
  OtpExpires,    \* lifetime of the OTP key, and of both keys after a resend
  UserExpires,   \* lifetime of the registration that register writes
  MaxHashes,     \* bound: hashes ever generated
  MaxTime,       \* bound: ticks of the clock
  MaxFaults      \* bound: rejected calls and restarts

(* 3600 s is in the code, otpExpires is configured (.env.example: 900 s).  *)
ASSUME ExpiryAssumption == /\ OtpExpires \in Nat \ {0}
                           /\ UserExpires \in Nat
                           /\ OtpExpires <= UserExpires
ASSUME SlotsAssumption  == IsFiniteSet(Slots)
ASSUME BoundAssumption  == MaxHashes \in Nat /\ MaxTime \in Nat /\ MaxFaults \in Nat

VARIABLES
  otp,     \* when the OTP key of a hash expires; 0 when it is not there
  data,    \* the registration of a hash, when it expires; NoData if removed
  last,    \* the last hash that was generated
  users,   \* the committed rows of the users table, by id
  lastId,  \* the last id the table has given out
  session, \* the ids with a session key in the cache
  req,     \* what each slot's handler holds between two awaits
  now,     \* the clock of the cache
  faults   \* rejected calls and restarts so far

(* What clients have been sent. *)
VARIABLES
  mails,    \* the OTP e-mails
  returned, \* the hashes
  tokens    \* the ids for which confirmation returned a token

(* History, read by the properties only. *)
VARIABLE shown  \* for every user id, the passcode it was confirmed with

cache == <<otp, data, last>>
table == <<users, lastId, shown>>
sent  == <<mails, returned, tokens>>
vars  == <<cache, table, sent, session, req, now, faults>>

-----------------------------------------------------------------------------
Hashes == 1..MaxHashes

(* What two registrations must not share; the other fields follow along. *)
Form == [email : Emails, phone : Phones]

(* Hotp.generatePasscode: a secret and a counter determine the passcode.  A
   secret is named by the hash that was generated with it.                 *)
Passcode == [secret : Hashes, counter : Nat]

Registered == [form : Form, passcode : Passcode, expires : Nat]
NoData == [expires |-> 0]

Mail == [to : Emails, passcode : Passcode]

Idle == [pc |-> "idle"]

(* register: "accepted", then "stored" with the registration in the cache.
   resendOTP: "resending" has seen the OTP key; "renewing" has read the
   registration and has a new hash, "dropping" removed the old OTP key,
   "moving" both old keys, "reissued" has set the new OTP key.
   confirmation: "confirming" has seen the OTP key; "verified" has read the
   registration and validated the passcode; "inserted" and "loggedIn" have
   an open transaction; "committed" and "cleaning" remove the keys.        *)
Request ==
       {Idle}
  \cup [pc : {"accepted", "stored"}, hash : Hashes, form : Form]
  \cup [pc : {"resending"}, hash : Hashes]
  \cup [pc : {"renewing", "dropping", "moving", "reissued"}, hash : Hashes,
        new : Hashes, old : Registered]
  \cup [pc : {"confirming"}, hash : Hashes, passcode : Passcode]
  \cup [pc : {"verified"}, hash : Hashes, passcode : Passcode, form : Form]
  \cup [pc : {"inserted", "loggedIn", "committed", "cleaning"}, hash : Hashes,
        passcode : Passcode, form : Form, id : Nat]

SetReq(s, r) == req' = [req EXCEPT ![s] = r]
GoTo(s, pc) == req' = [req EXCEPT ![s].pc = pc]

OtpAlive(h) == now < otp[h]
DataAlive(h) == now < data[h].expires

SetOtp(h) == otp' = [otp EXCEPT ![h] = now + OtpExpires]
SetData(h, form, passcode, ttl) ==
  data' = [data EXCEPT ![h] = [form |-> form, passcode |-> passcode,
                               expires |-> now + ttl]]
RemoveOtp(h) == otp' = [otp EXCEPT ![h] = 0]
RemoveData(h) == data' = [data EXCEPT ![h] = NoData]

Clashes(f, g) == f.email = g.email \/ f.phone = g.phone

(* The uncommitted inserts of other confirmations: an insert with one of
   their e-mails or phones waits for them to end.                          *)
InsertLocked(s, form) ==
  \E t \in Slots \ {s} : /\ req[t].pc \in {"inserted", "loggedIn"}
                         /\ Clashes(req[t].form, form)

\* Mutant: the table has no unique index.
NeverTaken(form) == FALSE
Taken(form) == \E id \in DOMAIN users : Clashes(users[id], form)

(* The client's e-mail and phone are the same person's at every e-mail. *)
SendOtp(h, form, passcode) ==
  /\ mails' = mails \cup {[to |-> form.email, passcode |-> passcode]}
  /\ returned' = returned \cup {h}
  /\ UNCHANGED tokens

(* Bound: a request starts only while it, and every resendOTP that runs,
   could still generate a hash.                                            *)
Room == last + Cardinality({s \in Slots : req[s].pc = "resending"}) < MaxHashes

-----------------------------------------------------------------------------
(* register *)

(* Neither the phone nor the e-mail has a user yet. *)
RegisterCheck(s) ==
  /\ req[s] = Idle
  /\ Room
  /\ \E form \in Form : /\ ~Taken(form)
                        /\ SetReq(s, [pc |-> "accepted", hash |-> last + 1,
                                      form |-> form])
  /\ last' = last + 1
  /\ UNCHANGED <<otp, data, table, sent, session, now, faults>>

RegisterData(s) ==
  /\ req[s].pc = "accepted"
  /\ SetData(req[s].hash, req[s].form,
             [secret |-> req[s].hash, counter |-> 1], UserExpires)
  /\ GoTo(s, "stored")
  /\ UNCHANGED <<otp, last, table, sent, session, now, faults>>

RegisterOtp(s) ==
  /\ req[s].pc = "stored"
  /\ SetOtp(req[s].hash)
  /\ SendOtp(req[s].hash, req[s].form, [secret |-> req[s].hash, counter |-> 1])
  /\ SetReq(s, Idle)
  /\ UNCHANGED <<data, last, table, session, now, faults>>

-----------------------------------------------------------------------------
(* resendOTP *)

(* "The provided token has expired.", also while the registration itself is
   still there: the request ends and has changed nothing.                  *)
ResendRefuse(s, h) ==
  /\ req[s] = Idle
  /\ h \in returned
  /\ ~OtpAlive(h)
  /\ UNCHANGED vars

ResendOtpSeen(s, h) ==
  /\ req[s] = Idle
  /\ Room
  /\ h \in returned
  /\ OtpAlive(h)
  /\ SetReq(s, [pc |-> "resending", hash |-> h])
  /\ UNCHANGED <<cache, table, sent, session, now, faults>>

(* "Data is invalid.", or the registration as it is now and a new hash. *)
ResendRead(s) ==
  /\ req[s].pc = "resending"
  /\ \/ /\ ~DataAlive(req[s].hash)
        /\ SetReq(s, Idle)
        /\ UNCHANGED last
     \/ /\ DataAlive(req[s].hash)
        /\ last' = last + 1
        /\ SetReq(s, [pc |-> "renewing", hash |-> req[s].hash,
                      new |-> last + 1, old |-> data[req[s].hash]])
  /\ UNCHANGED <<otp, data, table, sent, session, now, faults>>

\* Mutant: the registration goes before its OTP key.
ResendRemoveDataFirst(s) ==
  /\ req[s].pc = "renewing"
  /\ RemoveData(req[s].hash)
  /\ GoTo(s, "dropping")
  /\ UNCHANGED <<otp, last, table, sent, session, now, faults>>

ResendRemoveOtp(s) ==
  /\ req[s].pc = "renewing"
  /\ RemoveOtp(req[s].hash)
  /\ GoTo(s, "dropping")
  /\ UNCHANGED <<data, last, table, sent, session, now, faults>>

ResendRemoveData(s) ==
  /\ req[s].pc = "dropping"
  /\ RemoveData(req[s].hash)
  /\ GoTo(s, "moving")
  /\ UNCHANGED <<otp, last, table, sent, session, now, faults>>

ResendSetOtp(s) ==
  /\ req[s].pc = "moving"
  /\ SetOtp(req[s].new)
  /\ GoTo(s, "reissued")
  /\ UNCHANGED <<data, last, table, sent, session, now, faults>>

\* Mutant: the counter is not read from the registration.
NextPasscodeUncounted(passcode) == [secret |-> passcode.secret]

NextPasscode(passcode) == [passcode EXCEPT !.counter = @ + 1]

ResendSetData(s) ==
  /\ req[s].pc = "reissued"
  /\ LET old == req[s].old
         passcode == NextPasscode(old.passcode)
     IN  /\ SetData(req[s].new, old.form, passcode, OtpExpires)
         /\ SendOtp(req[s].new, old.form, passcode)
  /\ SetReq(s, Idle)
  /\ UNCHANGED <<otp, last, table, session, now, faults>>

-----------------------------------------------------------------------------
(* confirmation *)

(* Whoever confirms presents a hash it was given and a passcode it was sent;
   without the OTP key it is told to resend.                               *)
ConfirmOtpSeen(s, h, mail) ==
  /\ req[s] = Idle
  /\ h \in returned /\ mail \in mails
  /\ OtpAlive(h)
  /\ SetReq(s, [pc |-> "confirming", hash |-> h, passcode |-> mail.passcode])
  /\ UNCHANGED <<cache, table, sent, session, now, faults>>

\* Mutant: Hotp.validate does not get this registration's secret.
ValidWithAnySecret(h, passcode) == data[h].passcode.counter = passcode.counter
Valid(h, passcode) == data[h].passcode = passcode

(* "Data is invalid.", "OTP is invalid", or on to the transaction. *)
ConfirmRead(s) ==
  /\ req[s].pc = "confirming"
  /\ LET h == req[s].hash
         ok == DataAlive(h) /\ Valid(h, req[s].passcode)
     IN  \/ /\ ~ok
            /\ SetReq(s, Idle)
         \/ /\ ok
            /\ SetReq(s, [pc |-> "verified", hash |-> h, form |-> data[h].form,
                          passcode |-> req[s].passcode])
  /\ UNCHANGED <<cache, table, sent, session, now, faults>>

(* The insert fails at the unique e-mail or phone: a 500.  Otherwise it takes
   the next id, which a rollback does not give back.                       *)
ConfirmInsert(s) ==
  /\ req[s].pc = "verified"
  /\ ~InsertLocked(s, req[s].form)
  /\ \/ /\ Taken(req[s].form)
        /\ SetReq(s, Idle)
        /\ UNCHANGED lastId
     \/ /\ ~Taken(req[s].form)
        /\ lastId' = lastId + 1
        /\ SetReq(s, [pc |-> "inserted", hash |-> req[s].hash,
                      form |-> req[s].form, passcode |-> req[s].passcode,
                      id |-> lastId + 1])
  /\ UNCHANGED <<cache, users, shown, sent, session, now, faults>>

\* Mutant: nothing waits for the cache, and the session is not set.
ConfirmSessionLost(s) ==
  /\ req[s].pc = "inserted"
  /\ GoTo(s, "loggedIn")
  /\ UNCHANGED <<cache, table, sent, session, now, faults>>

(* The session is in the cache before the user is committed. *)
ConfirmSession(s) ==
  /\ req[s].pc = "inserted"
  /\ session' = session \cup {req[s].id}
  /\ GoTo(s, "loggedIn")
  /\ UNCHANGED <<cache, table, sent, now, faults>>

Inserted(f, id, v) == [i \in DOMAIN f \cup {id} |-> IF i = id THEN v ELSE f[i]]

ConfirmCommit(s) ==
  /\ req[s].pc = "loggedIn"
  /\ users' = Inserted(users, req[s].id, req[s].form)
  /\ shown' = Inserted(shown, req[s].id, req[s].passcode)
  /\ GoTo(s, "committed")
  /\ UNCHANGED <<cache, lastId, sent, session, now, faults>>

ConfirmRemoveOtp(s) ==
  /\ req[s].pc = "committed"
  /\ RemoveOtp(req[s].hash)
  /\ GoTo(s, "cleaning")
  /\ UNCHANGED <<data, last, table, sent, session, now, faults>>

ConfirmDone(s) ==
  /\ req[s].pc = "cleaning"
  /\ RemoveData(req[s].hash)
  /\ tokens' = tokens \cup {req[s].id}
  /\ SetReq(s, Idle)
  /\ UNCHANGED <<otp, last, table, mails, returned, session, now, faults>>

-----------------------------------------------------------------------------
(* Time and faults *)

(* Register takes less time from one key to the other than the first lives
   longer than the second: with the expiries of the code, 45 minutes.
   Bound: the clock stops at MaxTime.                                      *)
Tick ==
  /\ now < MaxTime
  /\ \A s \in Slots :
       req[s].pc = "stored" => now + OtpExpires < data[req[s].hash].expires
  /\ now' = now + 1
  /\ UNCHANGED <<cache, table, sent, session, req, faults>>

Fault == /\ faults < MaxFaults
         /\ faults' = faults + 1

(* A call to the cache or the database rejects and the request ends in a 500:
   an open transaction is rolled back, cache keys stay as they are.        *)
Fails(s) ==
  /\ Fault
  /\ req[s] # Idle
  /\ SetReq(s, Idle)
  /\ UNCHANGED <<cache, table, sent, session, now>>

Crash ==
  /\ Fault
  /\ \E s \in Slots : req[s] # Idle
  /\ req' = [s \in Slots |-> Idle]
  /\ UNCHANGED <<cache, table, sent, session, now>>

-----------------------------------------------------------------------------
Init ==
  /\ otp = [h \in Hashes |-> 0]
  /\ data = [h \in Hashes |-> NoData]
  /\ last = 0
  /\ users = [id \in {} |-> 0]
  /\ shown = [id \in {} |-> 0]
  /\ lastId = 0
  /\ session = {} /\ mails = {} /\ returned = {} /\ tokens = {}
  /\ req = [s \in Slots |-> Idle]
  /\ now = 0
  /\ faults = 0

Register(s) == RegisterCheck(s) \/ RegisterData(s) \/ RegisterOtp(s)

Resend(s) ==
  \/ \E h \in returned : ResendRefuse(s, h) \/ ResendOtpSeen(s, h)
  \/ ResendRead(s) \/ ResendRemoveOtp(s) \/ ResendRemoveData(s)
  \/ ResendSetOtp(s) \/ ResendSetData(s)

Confirm(s) ==
  \/ \E h \in returned, mail \in mails : ConfirmOtpSeen(s, h, mail)
  \/ ConfirmRead(s) \/ ConfirmInsert(s) \/ ConfirmSession(s) \/ ConfirmCommit(s)
  \/ ConfirmRemoveOtp(s) \/ ConfirmDone(s)

Next ==
  \/ \E s \in Slots : Register(s) \/ Resend(s) \/ Confirm(s) \/ Fails(s)
  \/ Tick
  \/ Crash

Spec == Init /\ [][Next]_vars

-----------------------------------------------------------------------------
(* Properties *)

(* Types of the cache, the table, the handlers' state and what was sent. *)
TypeOK ==
  /\ otp \in [Hashes -> Nat]
  /\ data \in [Hashes -> Registered \cup {NoData}]
  /\ last \in 0..MaxHashes
  /\ DOMAIN users \subseteq 1..lastId /\ users \in [DOMAIN users -> Form]
  /\ DOMAIN shown = DOMAIN users /\ shown \in [DOMAIN users -> Passcode]
  /\ lastId \in Nat
  /\ session \subseteq 1..lastId
  /\ req \in [Slots -> Request]
  /\ mails \subseteq Mail
  /\ returned \subseteq Hashes
  /\ tokens \subseteq 1..lastId
  /\ now \in Nat /\ faults \in Nat

(* The two keys of a registration are written, removed and expire one after
   the other, but a client that finds its OTP key alive finds the
   registration too: "Data is invalid" (confirmation, resendOTP) is only for
   a request that another one overtook.                                    *)
OtpHasData == \A h \in returned : OtpAlive(h) => DataAlive(h)

(* Every user was confirmed with a passcode that was mailed to the user's own
   address, whatever hashes and passcodes clients combine and however often
   the registration moved to another hash.                                 *)
ConfirmedByOwnMail ==
  \A id \in DOMAIN users :
    [to |-> users[id].email, passcode |-> shown[id]] \in mails

(* register looks for the e-mail and the phone up to an hour before
   confirmation inserts them, and two confirmations of one registration can
   run at once: still no two users share either.                           *)
OneUserPerPerson ==
  \A i, j \in DOMAIN users : i # j => ~Clashes(users[i], users[j])

(* A token that confirmation returned is that of a committed user with a
   session, although the session is set before the commit and the keys are
   removed after it, and any of these can fail.                            *)
TokenIsUsable == tokens \subseteq DOMAIN users \cap session
=============================================================================
