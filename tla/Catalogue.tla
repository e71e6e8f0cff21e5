----------------------------- MODULE Catalogue -----------------------------
(***************************************************************************)
(* The backoffice's payment gateways and schools: rows that handlers load, *)
(* change and save as whole entities, or delete.  A gateway's row names    *)
(* the file of its logo, which the handlers remove with unlink.            *)
(*                                                                         *)
(* Nothing locks, and no transaction spans two of the steps below.  save   *)
(* compares the entity with its row and then updates the columns that      *)
(* differ, or inserts the entity when it found no row.  Foreign keys keep  *)
(* the rows that payments, participants and users refer to.                *)
(***************************************************************************)
EXTENDS Naturals, FiniteSets

CONSTANTS
  Slots,      \* handlers that run at the same time
  Gateways,   \* ids the gateways' table gives out
  Schools,    \* ids the schools' table gives out
  Codes,      \* payment codes; a unique index allows each once
  Logos,      \* names of logos; multer gives each to one upload
  SeedLogo,   \* the logo the seed's gateway names, which is no file
  MaxFaults   \* bound: failed statements and process restarts

ASSUME IdsAssumption == Gateways \cap Schools = {} /\ Codes \cap Schools = {}
ASSUME SeedAssumption == SeedLogo \in Logos
ASSUME BoundsAssumption == MaxFaults \in Nat

VARIABLES
  rows,       \* the two tables by id
  files,      \* the logos on disk
  named,      \* the names given so far, the seed's among them
  referenced, \* codes of payments, schools of participants and users
  req,        \* what each slot's handler holds between two awaits
  faults      \* failed statements and restarts so far

(* History, read by the properties only. *)
VARIABLES
  deleted,    \* ids a delete has removed
  raced,      \* ids that two handlers held at the same time
  ends        \* the ids and logos on which a handler has ended the process

vars == <<rows, files, named, referenced, req, faults, deleted, raced, ends>>

-----------------------------------------------------------------------------
Unused == [state |-> "unused"]
Gone == [state |-> "gone"]

Gateway == [state : {"live"}, code : Codes, logo : Logos]
School == [state : {"live"}, accepted : BOOLEAN]
Accepted == [state |-> "live", accepted |-> TRUE]

Live(id) == rows[id].state = "live"

Idle == [pc |-> "idle"]

(* A gateway's create has "checked" the code.  update has "loaded" the entity,
   its old logo and its upload (the set is empty without one), and "compared"
   it with the row; after the save it is "unlinking" the old logo.  delete
   holds the logo it has "fetched".  acceptSchool has "found" the school and
   "matched" it with its row.                                              *)
Request ==
       {Idle}
  \cup [pc : {"checked"}, code : Codes, logo : Logos]
  \cup [pc : {"loaded"}, id : Gateways, entity : Gateway, old : Logos,
        upload : SUBSET Logos]
  \cup [pc : {"compared"}, id : Gateways, entity : Gateway, old : Logos,
        upload : SUBSET Logos, row : Gateway \cup {Unused, Gone}]
  \cup [pc : {"fetched", "unlinking"}, id : Gateways, old : Logos]
  \cup [pc : {"found"}, id : Schools]
  \cup [pc : {"matched"}, id : Schools, row : School \cup {Unused, Gone}]

Holding(id) ==
  {s \in Slots : req[s].pc \notin {"idle", "checked"} /\ req[s].id = id}

SetReq(s, r) == req' = [req EXCEPT ![s] = r]

(* A handler that begins to hold a row another one holds races it. *)
Hold(id) == raced' = IF Holding(id) = {} THEN raced ELSE raced \cup {id}

CodeTaken(code, id) ==
  \E g \in Gateways \ {id} : Live(g) /\ rows[g].code = code

(* The unique code, and the payments that refer to the code a row gives up. *)
Refused(id, code) ==
  \/ CodeTaken(code, id)
  \/ Live(id) /\ rows[id].code # code /\ rows[id].code \in referenced

Rest == UNCHANGED <<rows, referenced, deleted, ends>>

(* multer stores an upload before the handler runs. *)
Upload(logos) ==
  /\ logos \subseteq Logos \ named
  /\ named' = named \cup logos
  /\ files' = files \cup logos

-----------------------------------------------------------------------------
(* Gateways: create *)

(* A create with a code of its group, or an update of a row that is gone or to
   a code of its group, stops here; the upload stays.                      *)
RefusedUpload ==
  /\ \E logo \in Logos : Upload({logo})
  /\ Rest
  /\ UNCHANGED <<req, raced, faults>>

\* Mutant: an upload is not asked for.
CreateCheckNoLogo(s) ==
  /\ req[s] = Idle
  /\ \E code \in Codes :
       SetReq(s, [pc |-> "checked", code |-> code, logo |-> "undefined"])
  /\ Rest
  /\ UNCHANGED <<files, named, raced, faults>>

(* A code that another group has passes the check and fails at the index. *)
CreateCheck(s) ==
  /\ req[s] = Idle
  /\ \E code \in Codes, logo \in Logos :
       /\ Upload({logo})
       /\ SetReq(s, [pc |-> "checked", code |-> code, logo |-> logo])
  /\ Rest
  /\ UNCHANGED <<raced, faults>>

CreateSave(s) ==
  /\ req[s].pc = "checked"
  /\ \E id \in Gateways :
       /\ rows[id] = Unused
       /\ rows' = IF CodeTaken(req[s].code, id)
                  THEN rows
                  ELSE [rows EXCEPT ![id] = [state |-> "live", code |-> req[s].code,
                                             logo |-> req[s].logo]]
  /\ SetReq(s, Idle)
  /\ UNCHANGED <<files, named, referenced, faults, deleted, raced, ends>>

-----------------------------------------------------------------------------
(* Gateways: update *)

(* The entity keeps its logo, or gets the upload. *)
UpdateLoad(s, id) ==
  /\ req[s] = Idle
  /\ Live(id)
  /\ \E code \in Codes, upload \in {{}} \cup {{l} : l \in Logos} :
       /\ Upload(upload)
       /\ \E logo \in Logos :
            /\ logo \in upload \/ (upload = {} /\ logo = rows[id].logo)
            /\ SetReq(s, [pc |-> "loaded", id |-> id, old |-> rows[id].logo,
                          upload |-> upload,
                          entity |-> [state |-> "live", code |-> code, logo |-> logo]])
  /\ Hold(id)
  /\ Rest
  /\ UNCHANGED faults

UpdateCompare(s) ==
  /\ req[s].pc = "loaded"
  /\ SetReq(s, [pc |-> "compared", id |-> req[s].id, entity |-> req[s].entity,
                old |-> req[s].old, upload |-> req[s].upload,
                row |-> rows[req[s].id]])
  /\ Rest
  /\ UNCHANGED <<files, named, faults, raced>>

(* The row once the columns that differed when it was compared are written;
   an UPDATE of a row that is gone changes nothing.                        *)
SavedGateway(r) ==
  IF r.row.state # "live" THEN r.entity
  ELSE IF ~Live(r.id) THEN rows[r.id]
  ELSE [state |-> "live",
        code |-> IF r.entity.code = r.row.code THEN rows[r.id].code
                                               ELSE r.entity.code,
        logo |-> IF r.entity.logo = r.row.logo THEN rows[r.id].logo
                                               ELSE r.entity.logo]

SaveRefused(r) ==
  \/ r.row.state # "live" /\ Live(r.id)
  \/ SavedGateway(r).state = "live" /\ Refused(r.id, SavedGateway(r).code)

AfterSave(r) == IF r.upload = {} THEN Idle
                ELSE [pc |-> "unlinking", id |-> r.id, old |-> r.old]

UpdateSave(s) ==
  /\ req[s].pc = "compared"
  /\ LET r == req[s]
     IN  IF SaveRefused(r)
         THEN SetReq(s, Idle) /\ UNCHANGED rows
         ELSE /\ rows' = [rows EXCEPT ![r.id] = SavedGateway(r)]
              /\ SetReq(s, AfterSave(r))
  /\ UNCHANGED <<files, named, referenced, faults, deleted, raced, ends>>

\* Mutant: the file is unlinked twice.
UnlinkTwice(s) ==
  /\ req[s].pc = "unlinking"
  /\ IF req[s].old \in files
     THEN /\ files' = files \ {req[s].old}
          /\ UNCHANGED <<req, ends>>
     ELSE /\ req' = [t \in Slots |-> Idle]
          /\ ends' = ends \cup {[id |-> req[s].id, logo |-> req[s].old]}
          /\ UNCHANGED files
  /\ UNCHANGED <<rows, named, referenced, faults, deleted, raced>>

(* unlink's callback throws when there is no such file, and nothing catches
   what a callback throws: the process ends.                               *)
Unlink(s) ==
  /\ req[s].pc = "unlinking"
  /\ IF req[s].old \in files
     THEN /\ files' = files \ {req[s].old}
          /\ SetReq(s, Idle)
          /\ UNCHANGED ends
     ELSE /\ req' = [t \in Slots |-> Idle]
          /\ ends' = ends \cup {[id |-> req[s].id, logo |-> req[s].old]}
          /\ UNCHANGED files
  /\ UNCHANGED <<rows, named, referenced, faults, deleted, raced>>

-----------------------------------------------------------------------------
(* Gateways: delete *)

DeleteFetch(s, id) ==
  /\ req[s] = Idle
  /\ Live(id)
  /\ SetReq(s, [pc |-> "fetched", id |-> id, old |-> rows[id].logo])
  /\ Hold(id)
  /\ Rest
  /\ UNCHANGED <<files, named, faults>>

\* Mutant: the refusal of the foreign key is caught, and the file unlinked.
DeleteRowCaught(s) ==
  /\ req[s].pc = "fetched"
  /\ LET id == req[s].id
     IN  IF Live(id) /\ rows[id].code \in referenced
         THEN UNCHANGED <<rows, deleted>>
         ELSE rows' = [rows EXCEPT ![id] = Gone] /\ deleted' = deleted \cup {id}
  /\ SetReq(s, [req[s] EXCEPT !.pc = "unlinking"])
  /\ UNCHANGED <<files, named, referenced, faults, raced, ends>>

(* A gateway whose code payments have stays, with its logo. *)
DeleteRow(s) ==
  /\ req[s].pc = "fetched"
  /\ LET id == req[s].id
     IN  IF Live(id) /\ rows[id].code \in referenced
         THEN SetReq(s, Idle) /\ UNCHANGED <<rows, deleted>>
         ELSE /\ rows' = [rows EXCEPT ![id] = Gone]
              /\ deleted' = deleted \cup {id}
              /\ SetReq(s, [req[s] EXCEPT !.pc = "unlinking"])
  /\ UNCHANGED <<files, named, referenced, faults, raced, ends>>

-----------------------------------------------------------------------------
(* Schools *)

(* A client's request, or the backoffice's own school. *)
SchoolCreate(id) ==
  /\ rows[id] = Unused
  /\ \E accepted \in BOOLEAN :
       rows' = [rows EXCEPT ![id] = [state |-> "live", accepted |-> accepted]]
  /\ UNCHANGED <<files, named, referenced, req, faults, deleted, raced, ends>>

\* Mutant: accept does not look the school up before it saves it.
AcceptFindAny(s, id) ==
  /\ req[s] = Idle
  /\ rows[id] # Unused
  /\ SetReq(s, [pc |-> "found", id |-> id])
  /\ Hold(id)
  /\ Rest
  /\ UNCHANGED <<files, named, faults>>

AcceptFind(s, id) ==
  /\ req[s] = Idle
  /\ Live(id)
  /\ SetReq(s, [pc |-> "found", id |-> id])
  /\ Hold(id)
  /\ Rest
  /\ UNCHANGED <<files, named, faults>>

(* The save goes on after the answer, which does not wait for it. *)
AcceptMatch(s) ==
  /\ req[s].pc = "found"
  /\ SetReq(s, [pc |-> "matched", id |-> req[s].id, row |-> rows[req[s].id]])
  /\ Rest
  /\ UNCHANGED <<files, named, faults, raced>>

(* save inserts an entity whose row it does not find. *)
Inserts(r) == r.row.state # "live"

(* A school that a delete removed is inserted again, unless another accept has
   done so: then the insert is refused, and nobody catches that.           *)
AcceptSave(s) ==
  /\ req[s].pc = "matched"
  /\ LET r == req[s]
     IN  IF Inserts(r) /\ Live(r.id)
         THEN /\ req' = [t \in Slots |-> Idle]
              /\ ends' = ends \cup {[id |-> r.id, logo |-> "none"]}
              /\ UNCHANGED rows
         ELSE /\ rows' = IF Inserts(r) \/ Live(r.id)
                         THEN [rows EXCEPT ![r.id] = Accepted]
                         ELSE rows
              /\ SetReq(s, Idle)
              /\ UNCHANGED ends
  /\ UNCHANGED <<files, named, referenced, faults, deleted, raced>>

(* One statement, whether or not an accept holds the school. *)
SchoolDelete(id) ==
  /\ Live(id)
  /\ id \notin referenced
  /\ rows' = [rows EXCEPT ![id] = Gone]
  /\ deleted' = deleted \cup {id}
  /\ Hold(id)
  /\ UNCHANGED <<files, named, referenced, req, faults, ends>>

-----------------------------------------------------------------------------
(* Payments, participants, faults *)

(* A payment with the gateway's code, or somebody of the school. *)
Refer(id) ==
  /\ Live(id)
  /\ referenced' = referenced \cup {IF id \in Gateways THEN rows[id].code ELSE id}
  /\ UNCHANGED <<rows, files, named, req, faults, deleted, raced, ends>>

Fault == faults < MaxFaults /\ faults' = faults + 1

(* A statement fails.  Nobody awaits the save of an accepted school: when a
   statement of it fails, the process ends (Crash).                        *)
Fails(s) ==
  /\ Fault
  /\ req[s].pc \in {"checked", "loaded", "compared", "fetched"}
  /\ SetReq(s, Idle)
  /\ Rest
  /\ UNCHANGED <<files, named, raced>>

Crash ==
  /\ Fault
  /\ \E s \in Slots : req[s] # Idle
  /\ req' = [s \in Slots |-> Idle]
  /\ Rest
  /\ UNCHANGED <<files, named, raced>>

NoRows == [id \in Gateways \cup Schools |-> Unused]

(* With or without the seed's gateway.  Its logo is in no upload's directory. *)
Init ==
  /\ \/ rows = NoRows
     \/ \E g \in Gateways, code \in Codes :
          rows = [NoRows EXCEPT ![g] = [state |-> "live", code |-> code,
                                        logo |-> SeedLogo]]
  /\ files = {}
  /\ named = {SeedLogo}
  /\ referenced = {}
  /\ req = [s \in Slots |-> Idle]
  /\ faults = 0
  /\ deleted = {}
  /\ raced = {}
  /\ ends = {}

GatewayStep(s) ==
  \/ CreateCheck(s) \/ CreateSave(s)
  \/ UpdateCompare(s) \/ UpdateSave(s) \/ Unlink(s) \/ DeleteRow(s)
  \/ \E id \in Gateways : UpdateLoad(s, id) \/ DeleteFetch(s, id)

SchoolStep(s) ==
  \/ \E id \in Schools : AcceptFind(s, id)
  \/ AcceptMatch(s) \/ AcceptSave(s)

Next ==
  \/ \E s \in Slots : GatewayStep(s) \/ SchoolStep(s) \/ Fails(s)
  \/ \E id \in Schools : SchoolCreate(id) \/ SchoolDelete(id)
  \/ \E id \in Gateways \cup Schools : Refer(id)
  \/ RefusedUpload \/ Crash

Spec == Init /\ [][Next]_vars

-----------------------------------------------------------------------------
(* Properties *)

(* Types of the tables, the files and the handlers' state. *)
TypeOK ==
  /\ \A g \in Gateways : rows[g] \in Gateway \cup {Unused, Gone}
  /\ \A k \in Schools : rows[k] \in School \cup {Unused, Gone}
  /\ files \subseteq named /\ named \subseteq Logos
  /\ referenced \subseteq Codes \cup Schools
  /\ req \in [Slots -> Request]

(* An uploaded logo is on disk as long as a gateway's row names it, wherever an
   update or a delete fails, is refused or is cut off: the file goes after the
   row has let go of it.  Only two handlers that hold one gateway at once can
   break this: the later save writes the other's old logo back.  The seed's
   gateway names a file that nobody uploaded.                              *)
LogoExists ==
  \A g \in Gateways \ raced :
    Live(g) => rows[g].logo \in files \cup {SeedLogo}

(* unlink's callback throws when it does not find its file, and a save that is
   not awaited when it is refused; both end the process.  With rows that were
   uploaded it takes two handlers that held one at once; the seed's gateway
   does it alone, with the first update of its image or with its delete.   *)
EndsByRaceOrSeed == \A e \in ends : e.id \in raced \/ e.logo = SeedLogo

(* A row that was deleted comes back only through a save that had loaded it
   before: the updates and accepts that begin after the delete are refused.
   A school that comes back is accepted, never a request again.  A row that
   payments or participants refer to does not go.                          *)
DeletedStaysDeleted ==
  /\ \A id \in deleted \ raced : rows[id] = Gone
  /\ \A id \in deleted \cap Schools : rows[id] \in {Gone, Accepted}
  /\ \A id \in referenced \cap Schools : Live(id)
  /\ \A code \in referenced \cap Codes : \E g \in Gateways : Live(g) /\ rows[g].code = code
=============================================================================
