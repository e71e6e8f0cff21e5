--------------------------- MODULE CatalogueProofs ---------------------------
(***************************************************************************)
(* What TLAPS proves about Catalogue, for any number of handlers,          *)
(* gateways, schools, logos and faults.                                    *)
(*                                                                         *)
(* A logo's name is given once, so that it stays with the handlers of one  *)
(* gateway (LogosInv).  Unless two handlers held a row at once, the row is *)
(* what its one handler believes it is, and the file it is to unlink is no *)
(* row's any more, and there unless it is the seed's (HeldInv).            *)
(***************************************************************************)
EXTENDS Catalogue, TLAPS

Has(s, pcs) == req[s].pc \in pcs

Ids == Gateways \cup Schools

RowsInv == rows \in [Ids -> Gateway \cup School \cup {Unused, Gone}]

(* Who holds a row, and who knows a logo of it. *)
Holder(s) == ~Has(s, {"idle", "checked"})

Knows(s) ==
       (IF Has(s, {"checked"}) THEN {req[s].logo} ELSE {})
  \cup (IF Has(s, {"loaded", "compared", "fetched", "unlinking"})
        THEN {req[s].old} ELSE {})
  \cup (IF Has(s, {"loaded", "compared"}) THEN req[s].upload ELSE {})

Uploads(r) == \/ r.upload = {} /\ r.entity.logo = r.old
              \/ r.upload = {r.entity.logo} /\ r.entity.logo # r.old

Together(s, t) == Holder(s) /\ Holder(t) /\ req[s].id = req[t].id

LogosInv ==
  /\ \A g \in Gateways : Live(g) => rows[g].logo \in named
  /\ \A g, h \in Gateways : Live(g) /\ Live(h) /\ g # h => rows[g].logo # rows[h].logo
  /\ \A s \in Slots :
       /\ Knows(s) \subseteq named
       /\ Has(s, {"loaded", "compared"}) => Uploads(req[s])
       /\ Has(s, {"checked"}) => req[s].logo \in files
       /\ \A g \in Gateways : Live(g) /\ rows[g].logo \in Knows(s) =>
                                Holder(s) /\ req[s].id = g
  /\ \A s, t \in Slots : \A logo \in Knows(s) \cap Knows(t) : s # t => Together(s, t)

RacedInv == \A s, t \in Slots : s # t /\ Together(s, t) => req[s].id \in raced

Held(s) ==
  LET id == req[s].id
  IN  /\ Has(s, {"loaded", "compared", "fetched"}) =>
           Live(id) /\ rows[id].logo = req[s].old
      /\ Has(s, {"loaded", "compared"}) => req[s].upload \subseteq files
      /\ Has(s, {"compared", "matched"}) => req[s].row = rows[id]
      /\ Has(s, {"found", "matched"}) => Live(id)
      /\ Has(s, {"unlinking"}) =>
           /\ req[s].old \in files \cup {SeedLogo}
           /\ Live(id) => rows[id].logo # req[s].old

HeldInv == \A s \in Slots : Holder(s) /\ req[s].id \notin raced => Held(s)

IInv == /\ TypeOK /\ RowsInv /\ LogosInv /\ RacedInv /\ HeldInv
        /\ LogoExists /\ EndsByRaceOrSeed /\ DeletedStaysDeleted

-----------------------------------------------------------------------------
(* What a handler's record holds, by where the handler is. *)
LEMMA RequestFields ==
  ASSUME TypeOK, NEW s \in Slots
  PROVE  /\ Has(s, {"checked"}) =>
              req[s] \in [pc : {"checked"}, code : Codes, logo : Logos]
         /\ Has(s, {"loaded"}) =>
              req[s] \in [pc : {"loaded"}, id : Gateways, entity : Gateway, old : Logos,
                          upload : SUBSET Logos]
         /\ Has(s, {"compared"}) =>
              req[s] \in [pc : {"compared"}, id : Gateways, entity : Gateway, old : Logos,
                          upload : SUBSET Logos, row : Gateway \cup {Unused, Gone}]
         /\ Has(s, {"fetched", "unlinking"}) =>
              req[s] \in [pc : {"fetched", "unlinking"}, id : Gateways, old : Logos]
         /\ Has(s, {"found"}) => req[s] \in [pc : {"found"}, id : Schools]
         /\ Has(s, {"matched"}) =>
              req[s] \in [pc : {"matched"}, id : Schools, row : School \cup {Unused, Gone}]
BY DEF TypeOK, Request, Idle, Has

LEMMA HolderIds ==
  ASSUME TypeOK, NEW s \in Slots, Holder(s)
  PROVE  /\ req[s].id \in Ids
         /\ req[s].id \in Gateways <=> Has(s, {"loaded", "compared", "fetched", "unlinking"})
         /\ req[s].id \in Schools <=> Has(s, {"found", "matched"})
<1>1. Has(s, {"loaded", "compared", "fetched", "unlinking"}) => req[s].id \in Gateways
  BY RequestFields DEF Has
<1>2. Has(s, {"found", "matched"}) => req[s].id \in Schools
  BY RequestFields DEF Has
<1>3. Has(s, {"loaded", "compared", "fetched", "unlinking", "found", "matched"})
  BY DEF TypeOK, Request, Holder, Has, Idle
<1> QED
  BY <1>1, <1>2, <1>3, IdsAssumption DEF Ids, Has

LEMMA SetReqFacts ==
  ASSUME TypeOK, NEW s \in Slots, NEW r, SetReq(s, r)
  PROVE  /\ req'[s] = r
         /\ \A t \in Slots \ {s} : req'[t] = req[t]
         /\ r \in Request => req' \in [Slots -> Request]
BY DEF TypeOK, SetReq

Alone(s) == \A t \in Slots \ {s} : req'[t] = req[t]

(* What the other handlers hold is as it was. *)
LEMMA Others ==
  ASSUME NEW s \in Slots, Alone(s), NEW t \in Slots \ {s}
  PROVE  /\ req'[t] = req[t] /\ Knows(t)' = Knows(t)
         /\ Holder(t)' <=> Holder(t)
         /\ \A pcs : Has(t, pcs)' <=> Has(t, pcs)
BY DEF Alone, Knows, Holder, Has

LEMMA Begins ==
  ASSUME TypeOK, NEW id \in Ids, Hold(id)
  PROVE  /\ raced \subseteq raced'
         /\ \A t \in Slots : Holder(t) /\ req[t].id = id => id \in raced'
<1>1. ASSUME NEW t \in Slots, Holder(t), req[t].id = id PROVE t \in Holding(id)
  BY <1>1 DEF Holding, Holder, Has
<1> QED
  BY <1>1 DEF Hold

-----------------------------------------------------------------------------
(* Steps that end handlers and change nothing else. *)
LEMMA EndStep ==
  ASSUME IInv,
         UNCHANGED <<rows, files, named, referenced, deleted, raced, ends>>,
         req' \in [Slots -> Request],
         \A t \in Slots : req'[t] = req[t] \/ req'[t] = Idle
  PROVE  IInv'
<1>1. TypeOK' /\ RowsInv'
  BY DEF IInv, TypeOK, RowsInv
<1>2. \A t \in Slots : \/ req'[t] = req[t] /\ Knows(t)' = Knows(t)
                       \/ req'[t].pc = "idle" /\ Knows(t)' = {}
  BY DEF Knows, Has, Idle
<1>3. LogosInv'
  BY <1>2 DEF IInv, LogosInv, Live, Together, Holder, Has
<1>4. RacedInv' /\ HeldInv'
  BY <1>2 DEF IInv, RacedInv, Together, HeldInv, Held, Live, Holder, Has
<1>5. LogoExists' /\ EndsByRaceOrSeed' /\ DeletedStaysDeleted'
  BY DEF IInv, LogoExists, EndsByRaceOrSeed, DeletedStaysDeleted, Live
<1> QED
  BY <1>1, <1>3, <1>4, <1>5 DEF IInv

LEMMA EndOne ==
  ASSUME IInv, NEW s \in Slots, SetReq(s, Idle),
         UNCHANGED <<rows, files, named, referenced, deleted, raced, ends>>
  PROVE  IInv'
BY SetReqFacts, EndStep DEF IInv, Request

(* Steps of one handler that leave the rows alone and remove no file. *)
LEMMA SlotStep ==
  ASSUME IInv, NEW s \in Slots, Alone(s), req' \in [Slots -> Request],
         UNCHANGED <<rows, referenced, deleted, ends>>,
         raced \subseteq raced', files \subseteq files', files' \subseteq named',
         named \subseteq named', named' \subseteq Logos,
         Knows(s)' \subseteq named',
         \A logo \in Knows(s)' :
            \/ logo \notin named
            \/ logo \in Knows(s) /\ Holder(s) /\ Holder(s)' /\ req'[s].id = req[s].id
            \/ /\ Holder(s)' /\ req'[s].id \in Gateways
               /\ Live(req'[s].id) /\ rows[req'[s].id].logo = logo,
         Has(s, {"loaded", "compared"})' => Uploads(req'[s]),
         Has(s, {"checked"})' => req'[s].logo \in files',
         Holder(s)' => \A t \in Slots \ {s} :
            Holder(t) /\ req[t].id = req'[s].id => req'[s].id \in raced',
         Holder(s)' /\ req'[s].id \notin raced' => Held(s)'
  PROVE  IInv'
<1>1. TypeOK' /\ RowsInv'
  BY DEF IInv, TypeOK, RowsInv
<1>2. \A id : Live(id)' <=> Live(id)
  BY DEF Live
<1>3. LogosInv'
  <2>1. /\ \A g \in Gateways : Live(g)' => rows'[g].logo \in named'
        /\ \A g, h \in Gateways : Live(g)' /\ Live(h)' /\ g # h =>
                                    rows'[g].logo # rows'[h].logo
    BY <1>2 DEF IInv, LogosInv
  <2>2. ASSUME NEW t \in Slots
        PROVE  /\ Knows(t)' \subseteq named'
               /\ Has(t, {"loaded", "compared"})' => Uploads(req'[t])
               /\ Has(t, {"checked"})' => req'[t].logo \in files'
    <3>1. CASE t = s
      BY <3>1
    <3>2. CASE t # s
      <4>1. Knows(t) \subseteq named
        BY DEF IInv, LogosInv
      <4>2. /\ Has(t, {"loaded", "compared"}) => Uploads(req[t])
            /\ Has(t, {"checked"}) => req[t].logo \in files
        BY DEF IInv, LogosInv
      <4> QED
        BY <3>2, <4>1, <4>2, Others
    <3> QED
      BY <3>1, <3>2
  <2>3. ASSUME NEW t \in Slots, NEW g \in Gateways, Live(g), rows[g].logo \in Knows(t)'
        PROVE  Holder(t)' /\ req'[t].id = g
    <3>1. CASE t = s
      BY <2>3, <3>1 DEF IInv, LogosInv
    <3>2. CASE t # s
      BY <2>3, <3>2, Others DEF IInv, LogosInv
    <3> QED
      BY <3>1, <3>2
  <2>4. ASSUME NEW t \in Slots \ {s}, NEW logo \in Knows(s)' \cap Knows(t)'
        PROVE  Holder(s)' /\ Holder(t)' /\ req'[s].id = req'[t].id
    <3>1. logo \in Knows(t) /\ req'[t] = req[t] /\ (Holder(t)' <=> Holder(t))
      BY <2>4, Others
    <3>2. logo \in named
      BY <3>1 DEF IInv, LogosInv
    <3>3. CASE logo \in Knows(s) /\ Holder(s) /\ Holder(s)' /\ req'[s].id = req[s].id
      BY <3>1, <3>3 DEF IInv, LogosInv, Together
    <3>4. CASE /\ Holder(s)' /\ req'[s].id \in Gateways
               /\ Live(req'[s].id) /\ rows[req'[s].id].logo = logo
      BY <3>1, <3>4 DEF IInv, LogosInv
    <3> QED
      BY <2>4, <3>2, <3>3, <3>4
  <2>5. ASSUME NEW t \in Slots \ {s}, NEW u \in Slots \ {s}, t # u,
               NEW logo \in Knows(t)' \cap Knows(u)'
        PROVE  Holder(t)' /\ Holder(u)' /\ req'[t].id = req'[u].id
    <3>1. logo \in Knows(t) \cap Knows(u)
      BY <2>5, Others
    <3>2. Together(t, u)
      BY <2>5, <3>1 DEF IInv, LogosInv
    <3> QED
      BY <3>2, Others DEF Together
  <2>6. \A t, u \in Slots : \A logo \in Knows(t)' \cap Knows(u)' : t # u => Together(t, u)'
    BY <2>4, <2>5 DEF Together
  <2> QED
    BY <1>2, <2>1, <2>2, <2>3, <2>6 DEF LogosInv
<1>4. RacedInv'
  <2>1. ASSUME NEW t \in Slots \ {s}, Together(s, t)' PROVE req'[s].id \in raced'
    BY <2>1, Others DEF Together
  <2>2. ASSUME NEW t \in Slots \ {s}, NEW u \in Slots \ {s}, t # u, Together(t, u)'
        PROVE  req'[t].id \in raced'
    <3>1. Together(t, u)
      BY <2>2, Others DEF Together
    <3> QED
      BY <2>2, <3>1, Others DEF IInv, RacedInv
  <2> QED
    BY <2>1, <2>2 DEF RacedInv, Together
<1>5. HeldInv'
  <2>1. ASSUME NEW t \in Slots \ {s}, Holder(t)', req'[t].id \notin raced' PROVE Held(t)'
    <3>1. Holder(t) /\ req'[t] = req[t] /\ req[t].id \notin raced
      BY <2>1, Others
    <3>2. Held(t)
      BY <3>1 DEF IInv, HeldInv
    <3> QED
      BY <3>1, <3>2 DEF Held, Has, Live
  <2> QED
    BY <2>1 DEF HeldInv
<1>6. LogoExists' /\ EndsByRaceOrSeed' /\ DeletedStaysDeleted'
  BY <1>2 DEF IInv, LogoExists, EndsByRaceOrSeed, DeletedStaysDeleted
<1> QED
  BY <1>1, <1>3, <1>4, <1>5, <1>6 DEF IInv

-----------------------------------------------------------------------------
(* Gateways *)

LEMMA RefusedUploadStep == ASSUME IInv, RefusedUpload PROVE IInv'
<1>1. PICK logo \in Logos : Upload({logo})
  BY DEF RefusedUpload
<1>2. UNCHANGED <<rows, referenced, deleted, ends, req, raced>>
  BY DEF RefusedUpload, Rest
<1>3. /\ files \subseteq files' /\ files' \subseteq named'
      /\ named \subseteq named' /\ named' \subseteq Logos
  BY <1>1 DEF Upload, IInv, TypeOK
<1>4. TypeOK' /\ RowsInv'
  BY <1>2, <1>3 DEF IInv, TypeOK, RowsInv
<1>5. LogosInv'
  BY <1>2, <1>3 DEF IInv, LogosInv, Live, Knows, Holder, Has, Together, Uploads
<1>6. RacedInv' /\ HeldInv'
  BY <1>2, <1>3 DEF IInv, RacedInv, Together, HeldInv, Held, Live, Holder, Has
<1>7. LogoExists' /\ EndsByRaceOrSeed' /\ DeletedStaysDeleted'
  BY <1>2, <1>3 DEF IInv, LogoExists, EndsByRaceOrSeed, DeletedStaysDeleted, Live
<1> QED
  BY <1>4, <1>5, <1>6, <1>7 DEF IInv

LEMMA CreateCheckStep ==
  ASSUME IInv, NEW s \in Slots, CreateCheck(s)
  PROVE  IInv'
<1>1. PICK code \in Codes, logo \in Logos :
        /\ Upload({logo})
        /\ SetReq(s, [pc |-> "checked", code |-> code, logo |-> logo])
  BY DEF CreateCheck
<1> DEFINE r == [pc |-> "checked", code |-> code, logo |-> logo]
<1>2. UNCHANGED <<rows, referenced, deleted, ends, raced>>
  BY DEF CreateCheck, Rest
<1>3. req'[s] = r /\ Alone(s) /\ req' \in [Slots -> Request]
  BY <1>1, SetReqFacts DEF IInv, Request, Alone
<1>4. req'[s].pc = "checked" /\ req'[s].logo = logo
  BY <1>3
<1>5. ~Holder(s)' /\ Knows(s)' = {logo} /\ ~Has(s, {"loaded", "compared"})'
  BY <1>4 DEF Holder, Knows, Has
<1>6. /\ files \subseteq files' /\ files' \subseteq named' /\ logo \in files'
      /\ named \subseteq named' /\ named' \subseteq Logos /\ logo \notin named
  BY <1>1 DEF Upload, IInv, TypeOK
<1> QED
  BY <1>2, <1>3, <1>4, <1>5, <1>6, SlotStep

(* The new row has the logo that only its handler knew. *)
LEMMA CreateSaveStep ==
  ASSUME IInv, NEW s \in Slots, CreateSave(s)
  PROVE  IInv'
<1> DEFINE logo == req[s].logo
           code == req[s].code
           row == [state |-> "live", code |-> code, logo |-> logo]
<1>1. PICK id \in Gateways :
        /\ rows[id] = Unused
        /\ rows' = rows \/ rows' = [rows EXCEPT ![id] = row]
  BY DEF CreateSave
<1>2. /\ Has(s, {"checked"}) /\ SetReq(s, Idle)
      /\ UNCHANGED <<files, named, referenced, deleted, raced, ends>>
  BY DEF CreateSave, Has
<1>3. CASE rows' = rows
  BY <1>2, <1>3, EndOne
<1>4. CASE rows' = [rows EXCEPT ![id] = row]
  <2>1. code \in Codes /\ logo \in Logos
    BY <1>2, RequestFields DEF IInv, Has
  <2>2. /\ row \in Gateway /\ row.state = "live" /\ row.logo = logo /\ row.code = code
    BY <2>1 DEF Gateway
  <2> HIDE DEF row
  <2>3. /\ rows'[id] = row /\ \A x \in Ids \ {id} : rows'[x] = rows[x]
        /\ id \in Ids /\ rows' \in [Ids -> Gateway \cup School \cup {Unused, Gone}]
    BY <1>4, <2>2 DEF IInv, RowsInv, Ids
  <2>4. /\ Live(id)' /\ ~Live(id) /\ rows'[id].logo = logo
        /\ \A x \in Ids \ {id} : Live(x)' <=> Live(x)
    BY <1>1, <2>2, <2>3 DEF Live, Unused
  <2>5. /\ req'[s] = Idle /\ Alone(s) /\ req' \in [Slots -> Request]
    BY <1>2, SetReqFacts DEF IInv, Request, Alone
  <2>6. ~Holder(s)' /\ Knows(s)' = {} /\ ~Has(s, {"loaded", "compared", "checked"})'
    BY <2>5 DEF Holder, Knows, Has, Idle
  <2>7. ~Holder(s) /\ logo \in Knows(s) /\ logo \in files /\ logo \in named
    BY <1>2 DEF Holder, Knows, Has, IInv, LogosInv, TypeOK
  <2> HIDE DEF logo, code
  <2>8. TypeOK' /\ RowsInv'
    BY <1>2, <2>2, <2>3, <2>5, IdsAssumption DEF IInv, TypeOK, RowsInv, Ids
  <2>9. \A g \in Gateways : Live(g) => rows[g].logo # logo
    BY <2>7 DEF IInv, LogosInv
  <2>10. \A t \in Slots \ {s} : logo \notin Knows(t)
    BY <2>7 DEF IInv, LogosInv, Together
  <2>11. LogosInv'
    <3>1. \A g \in Gateways : Live(g)' => rows'[g].logo \in named'
      BY <1>2, <2>3, <2>4, <2>7 DEF IInv, LogosInv, Ids
    <3>2. \A g, h \in Gateways : Live(g)' /\ Live(h)' /\ g # h =>
                                   rows'[g].logo # rows'[h].logo
      BY <2>3, <2>4, <2>9 DEF IInv, LogosInv, Ids
    <3>3. \A t \in Slots \ {s}, g \in Gateways :
            Live(g)' /\ rows'[g].logo \in Knows(t) => Holder(t) /\ req[t].id = g
      BY <2>3, <2>4, <2>10 DEF IInv, LogosInv, Ids
    <3>4. \A t \in Slots : \A g \in Gateways :
            Live(g)' /\ rows'[g].logo \in Knows(t)' => Holder(t)' /\ req'[t].id = g
      BY <2>5, <2>6, <3>3, Others
    <3>5. \A t \in Slots :
            /\ Knows(t)' \subseteq named'
            /\ Has(t, {"loaded", "compared"})' => Uploads(req'[t])
            /\ Has(t, {"checked"})' => req'[t].logo \in files'
      BY <1>2, <2>5, <2>6, Others DEF IInv, LogosInv, Has
    <3>6. \A t, u \in Slots : \A l \in Knows(t)' \cap Knows(u)' : t # u => Together(t, u)'
      BY <2>5, <2>6, Others DEF IInv, LogosInv, Together
    <3> QED
      BY <3>1, <3>2, <3>4, <3>5, <3>6 DEF LogosInv
  <2>12. RacedInv'
    BY <1>2, <2>5, <2>6, Others DEF IInv, RacedInv, Together
  <2>13. HeldInv'
    <3>1. ASSUME NEW t \in Slots \ {s}, Holder(t), req[t].id \notin raced PROVE Held(t)'
      <4>1. Held(t) /\ req'[t] = req[t] /\ req[t].id \in Ids
        BY <2>5, <3>1, Others, HolderIds DEF IInv, HeldInv
      <4>2. CASE req[t].id = id
        <5>1. Has(t, {"unlinking"})
          BY <2>4, <3>1, <4>1, <4>2, HolderIds DEF IInv, Held, Has
        <5>2. req[t].old \in Knows(t)
          BY <5>1 DEF Knows, Has
        <5> QED
          BY <1>2, <2>4, <2>10, <4>1, <4>2, <5>1, <5>2 DEF Held, Has
      <4>3. CASE req[t].id # id
        BY <1>2, <2>3, <2>4, <4>1, <4>3 DEF Held, Has
      <4> QED
        BY <4>2, <4>3
    <3> QED
      BY <1>2, <2>5, <2>6, <3>1, Others DEF HeldInv
  <2>14. LogoExists' /\ EndsByRaceOrSeed'
    BY <1>2, <2>3, <2>4, <2>7 DEF IInv, LogoExists, EndsByRaceOrSeed, Ids
  <2>15. DeletedStaysDeleted'
    <3>1. \A x \in deleted \ raced : x # id
      BY <1>1 DEF IInv, DeletedStaysDeleted, Unused, Gone
    <3>2. \A x \in referenced \cap Schools : Live(x)'
      BY <2>3, <2>4 DEF IInv, DeletedStaysDeleted, Ids
    <3>3. \A c \in referenced \cap Codes : \E g \in Gateways : Live(g)' /\ rows'[g].code = c
      <4> SUFFICES ASSUME NEW c \in referenced \cap Codes
                   PROVE  \E g \in Gateways : Live(g)' /\ rows'[g].code = c
        OBVIOUS
      <4>1. PICK g \in Gateways : Live(g) /\ rows[g].code = c
        BY DEF IInv, DeletedStaysDeleted
      <4> QED
        BY <2>3, <2>4, <4>1 DEF Ids
    <3>4. \A x \in deleted \ raced : rows'[x] = Gone
      <4>1. \A x \in deleted \ raced : rows[x] = Gone
        BY DEF IInv, DeletedStaysDeleted
      <4> QED
        BY <1>4, <3>1, <4>1 DEF IInv, RowsInv
    <3>5. \A x \in deleted \cap Schools : rows'[x] = rows[x]
      BY <1>1, <2>3, IdsAssumption DEF Ids
    <3> QED
      BY <1>2, <3>2, <3>3, <3>4, <3>5 DEF DeletedStaysDeleted, IInv
  <2> QED
    BY <2>8, <2>11, <2>12, <2>13, <2>14, <2>15 DEF IInv
<1> QED
  BY <1>1, <1>3, <1>4

LEMMA UpdateLoadStep ==
  ASSUME IInv, NEW s \in Slots, NEW id \in Gateways, UpdateLoad(s, id)
  PROVE  IInv'
<1>1. PICK code \in Codes, upload \in {{}} \cup {{l} : l \in Logos}, logo \in Logos :
        /\ Upload(upload)
        /\ logo \in upload \/ (upload = {} /\ logo = rows[id].logo)
        /\ SetReq(s, [pc |-> "loaded", id |-> id, old |-> rows[id].logo,
                      upload |-> upload,
                      entity |-> [state |-> "live", code |-> code, logo |-> logo]])
  BY DEF UpdateLoad
<1> DEFINE e == [state |-> "live", code |-> code, logo |-> logo]
           old == rows[id].logo
           r == [pc |-> "loaded", id |-> id, old |-> old, upload |-> upload, entity |-> e]
<1>2. /\ req[s] = Idle /\ Live(id) /\ Hold(id)
      /\ UNCHANGED <<rows, referenced, deleted, ends>>
  BY DEF UpdateLoad, Rest
<1>3. e \in Gateway /\ e.logo = logo
  BY DEF Gateway
<1>4. old \in Logos /\ old \in named
  BY <1>2 DEF IInv, LogosInv, TypeOK
<1> HIDE DEF e, old
<1>5. r \in Request
  BY <1>1, <1>3, <1>4 DEF Request
<1>6. req'[s] = r /\ Alone(s) /\ req' \in [Slots -> Request]
  BY <1>1, <1>5, SetReqFacts DEF IInv, Alone, e, old
<1>7. /\ req'[s].pc = "loaded" /\ req'[s].id = id /\ req'[s].old = old
      /\ req'[s].upload = upload /\ req'[s].entity = e
  BY <1>6
<1>8. /\ files \subseteq files' /\ files' \subseteq named' /\ upload \subseteq files'
      /\ named \subseteq named' /\ named' \subseteq Logos
      /\ \A l \in upload : l \notin named
  BY <1>1 DEF Upload, IInv, TypeOK
<1>9. Knows(s)' = {old} \cup upload /\ Holder(s)' /\ ~Has(s, {"checked"})'
  BY <1>7 DEF Knows, Has, Holder
<1>10. Uploads(req'[s])
  <2>1. CASE upload = {}
    BY <1>1, <1>3, <1>7, <2>1 DEF Uploads, old
  <2>2. CASE upload # {}
    <3>1. upload = {logo}
      BY <1>1, <2>2
    <3> QED
      BY <1>3, <1>4, <1>7, <1>8, <3>1 DEF Uploads
  <2> QED
    BY <2>1, <2>2
<1>11. /\ raced \subseteq raced'
       /\ \A t \in Slots : Holder(t) /\ req[t].id = id => id \in raced'
  BY <1>2, Begins DEF IInv, Ids
<1>12. Held(s)'
  BY <1>2, <1>7, <1>8 DEF Held, Has, Live, old
<1>13. \A l \in Knows(s)' :
         \/ l \notin named
         \/ Live(req'[s].id) /\ rows[req'[s].id].logo = l
  <2> SUFFICES ASSUME NEW l \in Knows(s)'
               PROVE  \/ l \notin named
                      \/ Live(req'[s].id) /\ rows[req'[s].id].logo = l
    OBVIOUS
  <2>1. CASE l \in upload
    BY <1>8, <2>1
  <2>2. CASE l = old
    <3>1. Live(req'[s].id)
      BY <1>2, <1>7
    <3>2. rows[req'[s].id].logo = l
      BY <1>7, <2>2 DEF old
    <3> QED
      BY <3>1, <3>2
  <2> QED
    BY <1>9, <2>1, <2>2
<1> QED
  BY <1>2, <1>4, <1>6, <1>7, <1>8, <1>9, <1>10, <1>11, <1>12, <1>13, SlotStep

LEMMA UpdateCompareStep ==
  ASSUME IInv, NEW s \in Slots, UpdateCompare(s)
  PROVE  IInv'
<1> DEFINE q == req[s]
           r == [pc |-> "compared", id |-> q.id, entity |-> q.entity, old |-> q.old,
                 upload |-> q.upload, row |-> rows[q.id]]
<1>1. /\ Has(s, {"loaded"}) /\ SetReq(s, r)
      /\ UNCHANGED <<rows, referenced, deleted, ends, files, named, raced>>
  BY DEF UpdateCompare, Rest, Has
<1>2. q.id \in Gateways /\ q.entity \in Gateway /\ q.old \in Logos /\ q.upload \subseteq Logos
  BY <1>1, RequestFields DEF IInv, Has
<1>3. rows[q.id] \in Gateway \cup {Unused, Gone}
  BY <1>2 DEF IInv, TypeOK
<1>4. r \in Request
  BY <1>2, <1>3 DEF Request
<1>5. req'[s] = r /\ Alone(s) /\ req' \in [Slots -> Request]
  BY <1>1, <1>4, SetReqFacts DEF IInv, Alone
<1>6. /\ req'[s].pc = "compared" /\ req'[s].id = q.id /\ req'[s].old = q.old
      /\ req'[s].upload = q.upload /\ req'[s].entity = q.entity /\ req'[s].row = rows[q.id]
  BY <1>5
<1>7. /\ Knows(s)' = Knows(s) /\ Holder(s) /\ Holder(s)' /\ ~Has(s, {"checked"})'
      /\ Uploads(req[s]) /\ Knows(s) \subseteq named
  BY <1>1, <1>6 DEF Knows, Has, Holder, IInv, LogosInv
<1>8. Uploads(req'[s])
  BY <1>6, <1>7 DEF Uploads
<1>9. \A t \in Slots \ {s} : Holder(t) /\ req[t].id = q.id => q.id \in raced
  BY <1>7 DEF IInv, RacedInv, Together
<1>10. q.id \notin raced => Held(s)'
  <2> SUFFICES ASSUME q.id \notin raced PROVE Held(s)'
    OBVIOUS
  <2>1. Held(s)
    BY <1>7 DEF IInv, HeldInv
  <2> QED
    BY <1>1, <1>6, <2>1 DEF Held, Has, Live
<1>11. files \subseteq named /\ named \subseteq Logos
  BY DEF IInv, TypeOK
<1> QED
  BY <1>1, <1>5, <1>6, <1>7, <1>8, <1>9, <1>10, <1>11, SlotStep

-----------------------------------------------------------------------------
(* Steps of a row's handler that write the row: what the others hold. *)
LEMMA OthersHeld ==
  ASSUME IInv, NEW s \in Slots, Alone(s), Holder(s), NEW id, id = req[s].id,
         \A x \in Ids \ {id} : rows'[x] = rows[x],
         raced' = raced, files' = files
  PROVE  \A t \in Slots \ {s} : Holder(t)' /\ req'[t].id \notin raced' => Held(t)'
<1> SUFFICES ASSUME NEW t \in Slots \ {s}, Holder(t), req[t].id \notin raced
             PROVE  Held(t)'
  BY Others
<1>1. Held(t) /\ req'[t] = req[t] /\ req[t].id \in Ids
  BY Others, HolderIds DEF IInv, HeldInv
<1>2. req[t].id # id
  BY DEF IInv, RacedInv, Together
<1> QED
  BY <1>1, <1>2 DEF Held, Has, Live

LEMMA RacedKept ==
  ASSUME IInv, NEW s \in Slots, Alone(s), Holder(s), raced' = raced,
         Holder(s)' => req'[s].id = req[s].id
  PROVE  RacedInv'
<1>1. \A t \in Slots : Holder(t)' => Holder(t) /\ req'[t].id = req[t].id
  BY Others
<1> QED
  BY <1>1 DEF IInv, RacedInv, Together

(* The logos, when a handler of a gateway gives its row a logo it knows, or
   the row keeps its own, or goes.                                         *)
LEMMA LogosMove ==
  ASSUME IInv, NEW s \in Slots, Alone(s), Holder(s), NEW id \in Gateways, id = req[s].id,
         \A x \in Ids \ {id} : rows'[x] = rows[x],
         Live(id)' => \/ rows'[id].logo \in Knows(s)
                      \/ Live(id) /\ rows'[id].logo = rows[id].logo,
         named' = named, files' = files,
         \/ Knows(s)' = {}
         \/ Knows(s)' \subseteq Knows(s) /\ Holder(s)' /\ req'[s].id = id,
         ~Has(s, {"loaded", "compared", "checked"})'
  PROVE  LogosInv'
<1>1. \A g \in Gateways \ {id} : (Live(g)' <=> Live(g)) /\ rows'[g] = rows[g]
  BY DEF Live, Ids
<1>2. Knows(s) \subseteq named /\ Knows(s)' \subseteq named
  BY DEF IInv, LogosInv
<1>3. \A g \in Gateways : Live(g)' => rows'[g].logo \in named'
  BY <1>1, <1>2 DEF IInv, LogosInv
<1>4. \A g \in Gateways \ {id} : Live(g) /\ Live(id)' => rows[g].logo # rows'[id].logo
  BY DEF IInv, LogosInv
<1>5. \A g, h \in Gateways : Live(g)' /\ Live(h)' /\ g # h => rows'[g].logo # rows'[h].logo
  BY <1>1, <1>4 DEF IInv, LogosInv
<1>6. ASSUME NEW t \in Slots
      PROVE  /\ Knows(t)' \subseteq named'
             /\ Has(t, {"loaded", "compared"})' => Uploads(req'[t])
             /\ Has(t, {"checked"})' => req'[t].logo \in files'
  <2>1. CASE t = s
    BY <1>2, <2>1 DEF Has
  <2>2. CASE t # s
    BY <2>2, Others DEF IInv, LogosInv
  <2> QED
    BY <2>1, <2>2
<1>7. ASSUME NEW t \in Slots, NEW g \in Gateways, Live(g)', rows'[g].logo \in Knows(t)'
      PROVE  Holder(t)' /\ req'[t].id = g
  <2>1. CASE t = s
    BY <1>1, <1>7, <2>1 DEF IInv, LogosInv
  <2>2. CASE t # s
    <3>1. rows'[g].logo \in Knows(t) /\ req'[t] = req[t] /\ (Holder(t)' <=> Holder(t))
      BY <1>7, <2>2, Others
    <3>2. CASE g = id /\ rows'[id].logo \in Knows(s)
      BY <2>2, <3>1, <3>2 DEF IInv, LogosInv, Together
    <3>3. CASE g = id /\ Live(id) /\ rows'[id].logo = rows[id].logo
      BY <3>1, <3>3 DEF IInv, LogosInv
    <3>4. CASE g # id
      BY <1>1, <1>7, <3>1, <3>4 DEF IInv, LogosInv
    <3> QED
      BY <1>7, <3>2, <3>3, <3>4
  <2> QED
    BY <2>1, <2>2
<1>8. ASSUME NEW t \in Slots, NEW u \in Slots, t # u, NEW l \in Knows(t)' \cap Knows(u)'
      PROVE  Together(t, u)'
  <2>1. /\ l \in Knows(t) /\ l \in Knows(u)
        /\ Holder(t) => Holder(t)' /\ req'[t].id = req[t].id
        /\ Holder(u) => Holder(u)' /\ req'[u].id = req[u].id
    BY <1>8, Others
  <2>2. Together(t, u)
    BY <1>8, <2>1 DEF IInv, LogosInv
  <2> QED
    BY <2>1, <2>2 DEF Together
<1> QED
  BY <1>3, <1>5, <1>6, <1>7, <1>8 DEF LogosInv

(* Whoever refers to a school or a code, when one gateway's row is written. *)
LEMMA ReferencesKept ==
  ASSUME IInv, NEW id \in Gateways,
         \A x \in Ids \ {id} : rows'[x] = rows[x],
         referenced' = referenced,
         Live(id) /\ rows[id].code \in referenced => Live(id)' /\ rows'[id].code = rows[id].code
  PROVE  /\ \A x \in Schools : rows'[x] = rows[x]
         /\ \A x \in referenced' \cap Schools : Live(x)'
         /\ \A c \in referenced' \cap Codes :
              \E g \in Gateways : Live(g)' /\ rows'[g].code = c
<1>1. \A x \in Ids \ {id} : (Live(x)' <=> Live(x)) /\ rows'[x] = rows[x]
  BY DEF Live
<1>2. \A x \in referenced' \cap Schools : Live(x)'
  BY <1>1, IdsAssumption DEF IInv, DeletedStaysDeleted, Ids
<1>3. ASSUME NEW c \in referenced \cap Codes
      PROVE  \E g \in Gateways : Live(g)' /\ rows'[g].code = c
  <2>1. PICK g \in Gateways : Live(g) /\ rows[g].code = c
    BY DEF IInv, DeletedStaysDeleted
  <2> QED
    BY <1>1, <2>1 DEF Ids
<1>4. \A x \in Schools : rows'[x] = rows[x]
  BY IdsAssumption DEF Ids
<1> QED
  BY <1>2, <1>3, <1>4

(* The row takes over the entity's logo or keeps its own; its code, too, unless
   a payment refers to it.  If nobody else held the gateway, the logo the
   handler unlinks is not the row's any more.                              *)
LEMMA UpdateSaveStep ==
  ASSUME IInv, NEW s \in Slots, NEW id, id = req[s].id, UpdateSave(s)
  PROVE  IInv'
<1> DEFINE r == req[s]
           w == SavedGateway(r)
<1>1. /\ Has(s, {"compared"})
      /\ UNCHANGED <<files, named, referenced, deleted, raced, ends>>
      /\ \/ SetReq(s, Idle) /\ rows' = rows
         \/ /\ ~SaveRefused(r) /\ rows' = [rows EXCEPT ![id] = w]
            /\ SetReq(s, AfterSave(r))
  BY DEF UpdateSave, Has
<1>2. CASE SetReq(s, Idle) /\ rows' = rows
  BY <1>1, <1>2, EndOne
<1>3. CASE ~SaveRefused(r) /\ rows' = [rows EXCEPT ![id] = w] /\ SetReq(s, AfterSave(r))
  <2>1. /\ id \in Gateways /\ id \in Ids /\ r.entity \in Gateway /\ r.old \in Logos
        /\ r.upload \subseteq Logos /\ r.row \in Gateway \cup {Unused, Gone}
    BY <1>1, RequestFields DEF IInv, Has, Ids
  <2>2. rows[id] \in Gateway \cup {Unused, Gone}
    BY <2>1 DEF IInv, TypeOK
  <2>3. /\ r.entity.state = "live" /\ r.entity.code \in Codes /\ r.entity.logo \in Logos
        /\ Live(id) => rows[id].code \in Codes /\ rows[id].logo \in Logos
    BY <2>1, <2>2 DEF Gateway, Live, Unused, Gone
  <2>4. /\ w \in Gateway \cup {Unused, Gone}
        /\ w.state = "live" => \/ w.logo = r.entity.logo
                               \/ Live(id) /\ w.logo = rows[id].logo
        /\ Live(id) => w.state = "live"
    BY <2>1, <2>2, <2>3 DEF SavedGateway, Gateway, Live
  <2>5. Uploads(r) /\ Holder(s) /\ Knows(s) = {r.old} \cup r.upload
    BY <1>1 DEF IInv, LogosInv, Holder, Knows, Has
  <2>6. r.entity.logo \in Knows(s)
    BY <2>5 DEF Uploads
  <2>7. id \notin raced =>
          /\ Live(id) /\ rows[id].logo = r.old /\ r.row = rows[id]
          /\ r.upload \subseteq files /\ r.old \in files \cup {SeedLogo}
    <3> SUFFICES ASSUME id \notin raced
                 PROVE  /\ Live(id) /\ rows[id].logo = r.old /\ r.row = rows[id]
                        /\ r.upload \subseteq files /\ r.old \in files \cup {SeedLogo}
      OBVIOUS
    <3>1. Held(s)
      BY <2>5 DEF IInv, HeldInv
    <3>2. Live(id) /\ rows[id].logo = r.old /\ r.row = rows[id] /\ r.upload \subseteq files
      BY <1>1, <3>1 DEF Held, Has
    <3> QED
      BY <2>1, <3>2 DEF IInv, LogoExists
  <2>8. id \notin raced => w.logo = r.entity.logo
    BY <2>7 DEF SavedGateway, Live
  <2>9. Live(id) /\ rows[id].code \in referenced => w.code = rows[id].code
    BY <1>3, <2>4 DEF SaveRefused, Refused
  <2>10. AfterSave(r) \in Request
    BY <2>1 DEF AfterSave, Request
  <2>11. req'[s] = AfterSave(r) /\ Alone(s) /\ req' \in [Slots -> Request]
    BY <1>3, <2>10, SetReqFacts DEF IInv, Alone
  <2>12. \/ r.upload = {} /\ req'[s] = Idle /\ req'[s].pc = "idle"
         \/ /\ r.upload # {} /\ req'[s].pc = "unlinking" /\ req'[s].id = id
            /\ req'[s].old = r.old
    BY <2>11 DEF AfterSave, Idle
  <2>13. /\ ~Has(s, {"loaded", "compared", "checked"})'
         /\ Holder(s)' => r.upload # {} /\ Has(s, {"unlinking"})' /\ req'[s].id = id
                          /\ req'[s].old = r.old
         /\ Knows(s)' = {} \/ (Knows(s)' = {r.old} /\ Holder(s)')
    BY <2>12 DEF Has, Holder, Knows
  <2>14. /\ rows'[id] = w /\ \A x \in Ids \ {id} : rows'[x] = rows[x]
         /\ rows' \in [Ids -> Gateway \cup School \cup {Unused, Gone}]
    BY <1>3, <2>1, <2>4 DEF IInv, RowsInv
  <2>15. Live(id)' <=> w.state = "live"
    BY <2>14 DEF Live
  <2> HIDE DEF w
  <2>16. TypeOK' /\ RowsInv'
    <3>1. \A g \in Gateways : rows'[g] \in Gateway \cup {Unused, Gone}
      BY <2>4, <2>14 DEF IInv, TypeOK, Ids
    <3>2. \A k \in Schools : rows'[k] \in School \cup {Unused, Gone}
      BY <2>1, <2>14, IdsAssumption DEF IInv, TypeOK, Ids
    <3> QED
      BY <1>1, <2>11, <2>14, <3>1, <3>2 DEF IInv, TypeOK, RowsInv
  <2>17. LogosInv'
    BY <1>1, <2>1, <2>4, <2>5, <2>6, <2>11, <2>13, <2>14, <2>15, LogosMove
  <2>18. RacedInv'
    BY <1>1, <2>5, <2>11, <2>13, RacedKept
  <2>19. HeldInv'
    <3>1. Holder(s)' /\ req'[s].id \notin raced' => Held(s)'
      <4> SUFFICES ASSUME Holder(s)', req'[s].id \notin raced' PROVE Held(s)'
        OBVIOUS
      <4>1. id \notin raced /\ r.upload # {}
        BY <1>1, <2>13
      <4>2. r.entity.logo # r.old /\ w.logo # r.old
        BY <2>5, <2>8, <4>1 DEF Uploads
      <4> QED
        BY <1>1, <2>7, <2>12, <2>13, <2>14, <4>1, <4>2 DEF Held, Has
    <3> QED
      BY <1>1, <2>5, <2>11, <2>14, <3>1, OthersHeld DEF HeldInv
  <2>20. LogoExists'
    <3>1. id \notin raced => w.logo \in files \cup {SeedLogo}
      BY <2>5, <2>7, <2>8 DEF Uploads
    <3> QED
      BY <1>1, <2>14, <3>1 DEF IInv, LogoExists, Live, Ids
  <2>21. DeletedStaysDeleted'
    <3>1. \A x \in deleted \ raced : rows[x] = Gone /\ x # id
      BY <2>7 DEF IInv, DeletedStaysDeleted, Live, Gone
    <3>2. \A x \in deleted \ raced : rows'[x] = Gone
      BY <1>3, <3>1 DEF IInv, RowsInv
    <3> QED
      BY <1>1, <2>1, <2>4, <2>9, <2>14, <2>15, <3>2, ReferencesKept
         DEF DeletedStaysDeleted, IInv
  <2>22. EndsByRaceOrSeed'
    BY <1>1 DEF IInv, EndsByRaceOrSeed
  <2> QED
    BY <2>16, <2>17, <2>18, <2>19, <2>20, <2>21, <2>22 DEF IInv
<1> QED
  BY <1>1, <1>2, <1>3

(* The file that goes is no row's, or two handlers have held the gateway. *)
LEMMA UnlinkStep ==
  ASSUME IInv, NEW s \in Slots, Unlink(s)
  PROVE  IInv'
<1> DEFINE old == req[s].old
           id == req[s].id
<1>1. /\ Has(s, {"unlinking"})
      /\ UNCHANGED <<rows, named, referenced, deleted, raced>>
  BY DEF Unlink, Has
<1>2. id \in Gateways /\ Holder(s) /\ old \in Knows(s)
  BY <1>1, RequestFields DEF IInv, Has, Holder, Knows
<1>3. id \notin raced => Held(s)
  BY <1>2 DEF IInv, HeldInv
<1>4. CASE old \in files
  <2>1. files' = files \ {old} /\ SetReq(s, Idle) /\ ends' = ends
    BY <1>4 DEF Unlink
  <2>2. req'[s] = Idle /\ Alone(s) /\ req' \in [Slots -> Request]
    BY <2>1, SetReqFacts DEF IInv, Request, Alone
  <2>3. ~Holder(s)' /\ Knows(s)' = {} /\ ~Has(s, {"loaded", "compared", "checked"})'
    BY <2>2 DEF Holder, Knows, Has, Idle
  <2>4. \A t \in Slots \ {s} : old \in Knows(t) => Holder(t) /\ req[t].id = id /\ id \in raced
    BY <1>2 DEF IInv, LogosInv, RacedInv, Together
  <2>5. \A g \in Gateways \ raced : Live(g) => rows[g].logo # old
    <3> SUFFICES ASSUME NEW g \in Gateways \ raced, Live(g), rows[g].logo = old
                 PROVE  FALSE
      OBVIOUS
    <3>1. g = id
      BY <1>2 DEF IInv, LogosInv
    <3> QED
      BY <1>1, <1>3, <3>1 DEF Held
  <2> HIDE DEF old, id
  <2>6. \A x : Live(x)' <=> Live(x)
    BY <1>1 DEF Live
  <2>7. TypeOK' /\ RowsInv'
    BY <1>1, <2>1, <2>2 DEF IInv, TypeOK, RowsInv
  <2>8. LogosInv'
    <3>1. \A t \in Slots \ {s} :
            Knows(t)' = Knows(t) /\ req'[t] = req[t] /\ (Holder(t)' <=> Holder(t))
      BY <2>2, Others
    <3>2. ASSUME NEW t \in Slots
          PROVE  /\ Knows(t)' \subseteq named'
                 /\ Has(t, {"loaded", "compared"})' => Uploads(req'[t])
                 /\ Has(t, {"checked"})' => req'[t].logo \in files'
      <4>1. CASE t = s
        BY <2>3, <4>1 DEF Has
      <4>2. CASE t # s
        <5>1. Has(t, {"checked"}) => req[t].logo \in files /\ req[t].logo \in Knows(t)
                                     /\ ~Holder(t)
          BY DEF IInv, LogosInv, Knows, Has, Holder
        <5>2. Has(t, {"checked"}) => req[t].logo # old
          BY <2>4, <4>2, <5>1
        <5>3. /\ Knows(t) \subseteq named
              /\ Has(t, {"loaded", "compared"}) => Uploads(req[t])
          BY DEF IInv, LogosInv
        <5> QED
          BY <1>1, <2>1, <2>2, <4>2, <5>1, <5>2, <5>3, Others
      <4> QED
        BY <4>1, <4>2
    <3>3. \A t \in Slots, g \in Gateways :
            Live(g)' /\ rows'[g].logo \in Knows(t)' => Holder(t)' /\ req'[t].id = g
      BY <1>1, <2>3, <2>6, <3>1 DEF IInv, LogosInv
    <3>4. \A t, u \in Slots : \A l \in Knows(t)' \cap Knows(u)' : t # u => Together(t, u)'
      BY <2>3, <3>1 DEF IInv, LogosInv, Together
    <3> QED
      BY <1>1, <2>6, <3>2, <3>3, <3>4 DEF IInv, LogosInv
  <2>9. RacedInv'
    BY <1>1, <1>2, <2>2, <2>3, RacedKept
  <2>10. HeldInv'
    <3>1. ASSUME NEW t \in Slots \ {s}, Holder(t), req[t].id \notin raced PROVE Held(t)'
      <4>1. Held(t) /\ req'[t] = req[t] /\ old \notin Knows(t)
        BY <2>2, <2>4, <3>1, Others DEF IInv, HeldInv
      <4>2. /\ Has(t, {"loaded", "compared"}) => old \notin req[t].upload
            /\ Has(t, {"unlinking"}) => req[t].old # old
        BY <4>1 DEF Knows, Has
      <4> QED
        BY <1>1, <2>1, <2>6, <4>1, <4>2 DEF Held, Has
    <3> QED
      BY <1>1, <2>2, <2>3, <3>1, Others DEF HeldInv
  <2>11. LogoExists' /\ EndsByRaceOrSeed' /\ DeletedStaysDeleted'
    BY <1>1, <2>1, <2>5, <2>6 DEF IInv, LogoExists, EndsByRaceOrSeed, DeletedStaysDeleted
  <2> QED
    BY <2>7, <2>8, <2>9, <2>10, <2>11 DEF IInv
<1>5. CASE old \notin files
  <2>1. /\ req' = [t \in Slots |-> Idle] /\ files' = files
        /\ ends' = ends \cup {[id |-> id, logo |-> old]}
    BY <1>5 DEF Unlink
  <2>2. id \in raced \/ old = SeedLogo
    BY <1>1, <1>3, <1>5 DEF Held
  <2>3. \A t \in Slots : req'[t].pc = "idle" /\ Knows(t)' = {} /\ ~Holder(t)'
    BY <2>1 DEF Knows, Holder, Has, Idle
  <2>4. TypeOK' /\ RowsInv'
    BY <1>1, <2>1 DEF IInv, TypeOK, RowsInv, Request
  <2>5. LogosInv'
    BY <1>1, <2>1, <2>3 DEF IInv, LogosInv, Live, Has
  <2>6. RacedInv' /\ HeldInv'
    BY <2>3 DEF RacedInv, HeldInv, Together
  <2>7. LogoExists' /\ EndsByRaceOrSeed' /\ DeletedStaysDeleted'
    BY <1>1, <2>1, <2>2 DEF IInv, LogoExists, EndsByRaceOrSeed, DeletedStaysDeleted, Live
  <2> QED
    BY <2>4, <2>5, <2>6, <2>7 DEF IInv
<1> QED
  BY <1>4, <1>5

LEMMA DeleteFetchStep ==
  ASSUME IInv, NEW s \in Slots, NEW id \in Gateways, DeleteFetch(s, id)
  PROVE  IInv'
<1> DEFINE old == rows[id].logo
           r == [pc |-> "fetched", id |-> id, old |-> old]
<1>1. /\ Live(id) /\ Hold(id) /\ SetReq(s, r)
      /\ UNCHANGED <<rows, referenced, deleted, ends, files, named>>
  BY DEF DeleteFetch, Rest
<1>2. old \in Logos /\ old \in named
  BY <1>1 DEF IInv, LogosInv, TypeOK
<1>3. req'[s] = r /\ Alone(s) /\ req' \in [Slots -> Request]
  BY <1>1, <1>2, SetReqFacts DEF IInv, Request, Alone
<1>4. req'[s].pc = "fetched" /\ req'[s].id = id /\ req'[s].old = old
  BY <1>3
<1>5. /\ Knows(s)' = {old} /\ Holder(s)' /\ ~Has(s, {"checked"})'
      /\ ~Has(s, {"loaded", "compared"})'
  BY <1>4 DEF Knows, Has, Holder
<1>6. /\ raced \subseteq raced'
      /\ \A t \in Slots : Holder(t) /\ req[t].id = id => id \in raced'
  BY <1>1, Begins DEF IInv, Ids
<1>7. Held(s)'
  BY <1>1, <1>4 DEF Held, Has, Live
<1>8. files \subseteq named /\ named \subseteq Logos
  BY DEF IInv, TypeOK
<1> QED
  BY <1>1, <1>2, <1>3, <1>4, <1>5, <1>6, <1>7, <1>8, SlotStep

LEMMA DeleteRowStep ==
  ASSUME IInv, NEW s \in Slots, NEW id, id = req[s].id, DeleteRow(s)
  PROVE  IInv'
<1> DEFINE old == req[s].old
           r == [req[s] EXCEPT !.pc = "unlinking"]
<1>1. /\ Has(s, {"fetched"})
      /\ UNCHANGED <<files, named, referenced, raced, ends>>
      /\ \/ SetReq(s, Idle) /\ UNCHANGED <<rows, deleted>>
         \/ /\ ~(Live(id) /\ rows[id].code \in referenced)
            /\ rows' = [rows EXCEPT ![id] = Gone] /\ deleted' = deleted \cup {id}
            /\ SetReq(s, r)
  BY DEF DeleteRow, Has
<1>2. CASE SetReq(s, Idle) /\ UNCHANGED <<rows, deleted>>
  BY <1>1, <1>2, EndOne
<1>3. CASE /\ ~(Live(id) /\ rows[id].code \in referenced)
           /\ rows' = [rows EXCEPT ![id] = Gone] /\ deleted' = deleted \cup {id}
           /\ SetReq(s, r)
  <2>1. /\ req[s] \in [pc : {"fetched", "unlinking"}, id : Gateways, old : Logos]
        /\ id \in Gateways /\ id \in Ids /\ old \in Logos
    BY <1>1, RequestFields DEF IInv, Has, Ids
  <2>2. r = [pc |-> "unlinking", id |-> id, old |-> old]
    BY <2>1
  <2>3. r \in Request
    BY <2>1, <2>2 DEF Request
  <2>4. req'[s] = r /\ Alone(s) /\ req' \in [Slots -> Request]
    BY <1>3, <2>3, SetReqFacts DEF IInv, Alone
  <2>5. req'[s].pc = "unlinking" /\ req'[s].id = id /\ req'[s].old = old
    BY <2>2, <2>4
  <2>6. /\ Holder(s) /\ Holder(s)' /\ Knows(s) = {old} /\ Knows(s)' = {old}
        /\ ~Has(s, {"loaded", "compared", "checked"})'
    BY <1>1, <2>5 DEF Has, Holder, Knows
  <2>7. /\ rows'[id] = Gone /\ \A x \in Ids \ {id} : rows'[x] = rows[x]
        /\ rows' \in [Ids -> Gateway \cup School \cup {Unused, Gone}]
    BY <1>3, <2>1 DEF IInv, RowsInv
  <2>8. ~Live(id)'
    BY <2>7 DEF Live, Gone
  <2>9. id \notin raced => old \in files \cup {SeedLogo}
    <3> SUFFICES ASSUME id \notin raced PROVE old \in files \cup {SeedLogo}
      OBVIOUS
    <3>1. Held(s)
      BY <2>6 DEF IInv, HeldInv
    <3> QED
      BY <1>1, <2>1, <3>1 DEF Held, Has, IInv, LogoExists
  <2> HIDE DEF old, r
  <2>10. TypeOK' /\ RowsInv'
    <3>1. \A g \in Gateways : rows'[g] \in Gateway \cup {Unused, Gone}
      BY <2>7 DEF IInv, TypeOK, Ids
    <3>2. \A k \in Schools : rows'[k] \in School \cup {Unused, Gone}
      BY <2>7 DEF IInv, TypeOK, Ids
    <3> QED
      BY <1>1, <2>4, <2>7, <3>1, <3>2 DEF IInv, TypeOK, RowsInv
  <2>11. LogosInv'
    BY <1>1, <2>1, <2>4, <2>5, <2>6, <2>7, <2>8, LogosMove
  <2>12. RacedInv'
    BY <1>1, <2>4, <2>5, <2>6, RacedKept
  <2>13. HeldInv'
    <3>1. id \notin raced => Held(s)'
      BY <1>1, <2>5, <2>8, <2>9 DEF Held, Has
    <3> QED
      BY <1>1, <2>4, <2>5, <2>6, <2>7, <3>1, OthersHeld DEF HeldInv
  <2>14. LogoExists' /\ EndsByRaceOrSeed'
    BY <1>1, <2>7, <2>8 DEF IInv, LogoExists, EndsByRaceOrSeed, Live, Ids
  <2>15. DeletedStaysDeleted'
    <3>1. \A x \in deleted' \ raced' : rows'[x] = Gone
      <4>1. \A x \in deleted \ raced : rows[x] = Gone
        BY DEF IInv, DeletedStaysDeleted
      <4> QED
        BY <1>1, <1>3, <2>7, <4>1 DEF IInv, RowsInv
    <3>2. \A x \in deleted' \cap Schools : x \in deleted \cap Schools
      BY <1>3, <2>1, IdsAssumption
    <3> QED
      BY <1>1, <1>3, <2>1, <2>7, <3>1, <3>2, ReferencesKept DEF DeletedStaysDeleted, IInv
  <2> QED
    BY <2>10, <2>11, <2>12, <2>13, <2>14, <2>15 DEF IInv
<1> QED
  BY <1>1, <1>2, <1>3

-----------------------------------------------------------------------------
(* Schools *)

LEMMA AcceptFindStep ==
  ASSUME IInv, NEW s \in Slots, NEW id \in Schools, AcceptFind(s, id)
  PROVE  IInv'
<1> DEFINE r == [pc |-> "found", id |-> id]
<1>1. /\ Live(id) /\ Hold(id) /\ SetReq(s, r)
      /\ UNCHANGED <<rows, referenced, deleted, ends, files, named>>
  BY DEF AcceptFind, Rest
<1>2. req'[s] = r /\ Alone(s) /\ req' \in [Slots -> Request]
  BY <1>1, SetReqFacts DEF IInv, Request, Alone
<1>3. req'[s].pc = "found" /\ req'[s].id = id
  BY <1>2
<1>4. /\ Knows(s)' = {} /\ ~Has(s, {"checked"})' /\ ~Has(s, {"loaded", "compared"})'
  BY <1>3 DEF Knows, Has
<1>5. /\ raced \subseteq raced'
      /\ \A t \in Slots : Holder(t) /\ req[t].id = id => id \in raced'
  BY <1>1, Begins DEF IInv, Ids
<1>6. Held(s)'
  BY <1>1, <1>3 DEF Held, Has, Live
<1>7. files \subseteq named /\ named \subseteq Logos
  BY DEF IInv, TypeOK
<1> QED
  BY <1>1, <1>2, <1>3, <1>4, <1>5, <1>6, <1>7, SlotStep

LEMMA AcceptMatchStep ==
  ASSUME IInv, NEW s \in Slots, AcceptMatch(s)
  PROVE  IInv'
<1> DEFINE id == req[s].id
           r == [pc |-> "matched", id |-> id, row |-> rows[id]]
<1>1. /\ Has(s, {"found"}) /\ SetReq(s, r)
      /\ UNCHANGED <<rows, referenced, deleted, ends, files, named, raced>>
  BY DEF AcceptMatch, Rest, Has
<1>2. id \in Schools
  BY <1>1, RequestFields DEF IInv, Has
<1>3. r \in Request
  BY <1>2 DEF IInv, TypeOK, Request
<1>4. req'[s] = r /\ Alone(s) /\ req' \in [Slots -> Request]
  BY <1>1, <1>3, SetReqFacts DEF IInv, Alone
<1>5. req'[s].pc = "matched" /\ req'[s].id = id /\ req'[s].row = rows[id]
  BY <1>4
<1>6. /\ Knows(s)' = {} /\ ~Has(s, {"checked"})' /\ ~Has(s, {"loaded", "compared"})'
      /\ Holder(s)
  BY <1>1, <1>5 DEF Knows, Has, Holder
<1>7. \A t \in Slots \ {s} : Holder(t) /\ req[t].id = id => id \in raced
  BY <1>6 DEF IInv, RacedInv, Together
<1>8. id \notin raced => Held(s)'
  <2> SUFFICES ASSUME id \notin raced PROVE Held(s)'
    OBVIOUS
  <2>1. Held(s)
    BY <1>6 DEF IInv, HeldInv
  <2> QED
    BY <1>1, <1>5, <2>1 DEF Held, Has, Live
<1>9. files \subseteq named /\ named \subseteq Logos
  BY DEF IInv, TypeOK
<1> QED
  BY <1>1, <1>4, <1>5, <1>6, <1>7, <1>8, <1>9, SlotStep

(* The gateways' side of the invariant does not read the schools' rows. *)
LEMMA SchoolWritten ==
  ASSUME IInv, NEW id \in Schools,
         rows' \in [Ids -> Gateway \cup School \cup {Unused, Gone}],
         \A x \in Ids \ {id} : rows'[x] = rows[x],
         rows'[id] \in School \cup {Unused, Gone},
         UNCHANGED <<files, named, referenced>>, raced \subseteq raced',
         ends' = ends \/ \E logo : ends' = ends \cup {[id |-> id, logo |-> logo]} /\ id \in raced,
         req' \in [Slots -> Request],
         \A t \in Slots : req'[t] = req[t] \/ req'[t] = Idle,
         \A t \in Slots : Holder(t)' /\ req'[t].id = id => id \in raced',
         \A x \in deleted' \ raced' : rows'[x] = Gone,
         deleted' \ {id} \subseteq deleted,
         id \in deleted' => rows'[id] \in {Gone, Accepted},
         id \in referenced => Live(id)'
  PROVE  IInv'
<1>1. \A x \in Ids \ {id} : Live(x)' <=> Live(x)
  BY DEF Live
<1>2. \A g \in Gateways : g \in Ids \ {id}
  BY IdsAssumption DEF Ids
<1>3. \A t \in Slots : \/ req'[t] = req[t] /\ Knows(t)' = Knows(t)
                       \/ req'[t].pc = "idle" /\ Knows(t)' = {}
  BY DEF Knows, Has, Idle
<1>4. TypeOK' /\ RowsInv'
  <2>1. \A g \in Gateways : rows'[g] \in Gateway \cup {Unused, Gone}
    BY <1>2 DEF IInv, TypeOK
  <2>2. \A k \in Schools : rows'[k] \in School \cup {Unused, Gone}
    BY DEF IInv, TypeOK, Ids
  <2> QED
    BY <2>1, <2>2 DEF IInv, TypeOK, RowsInv
<1>5. LogosInv'
  <2>1. \A g \in Gateways : (Live(g)' <=> Live(g)) /\ rows'[g] = rows[g]
    BY <1>1, <1>2
  <2> QED
    BY <1>3, <2>1 DEF IInv, LogosInv, Together, Holder, Has
<1>6. RacedInv'
  BY <1>3 DEF IInv, RacedInv, Together, Holder, Has
<1>7. HeldInv'
  <2>1. ASSUME NEW t \in Slots, Holder(t)', req'[t].id \notin raced' PROVE Held(t)'
    <3>1. req'[t] = req[t] /\ Holder(t)
      BY <1>3, <2>1 DEF Holder, Has
    <3>2. req[t].id \in Ids \ {id} /\ Held(t)
      BY <2>1, <3>1, HolderIds DEF IInv, HeldInv
    <3> QED
      BY <1>1, <3>1, <3>2 DEF Held, Has
  <2> QED
    BY <2>1 DEF HeldInv
<1>8. LogoExists' /\ EndsByRaceOrSeed'
  BY <1>1, <1>2 DEF IInv, LogoExists, EndsByRaceOrSeed
<1>9. DeletedStaysDeleted'
  <2>1. \A x \in referenced' \cap Schools : Live(x)'
    BY <1>1 DEF IInv, DeletedStaysDeleted, Ids
  <2>2. ASSUME NEW c \in referenced \cap Codes
        PROVE  \E g \in Gateways : Live(g)' /\ rows'[g].code = c
    <3>1. PICK g \in Gateways : Live(g) /\ rows[g].code = c
      BY DEF IInv, DeletedStaysDeleted
    <3> QED
      BY <1>1, <1>2, <3>1
  <2>3. ASSUME NEW x \in deleted' \cap Schools PROVE rows'[x] \in {Gone, Accepted}
    BY <2>3 DEF IInv, DeletedStaysDeleted, Ids
  <2> QED
    BY <2>1, <2>2, <2>3 DEF DeletedStaysDeleted
<1> QED
  BY <1>4, <1>5, <1>6, <1>7, <1>8, <1>9 DEF IInv

(* A save that finds the school again accepts it; one that does not has been
   raced by a delete.                                                      *)
LEMMA AcceptSaveStep ==
  ASSUME IInv, NEW s \in Slots, NEW id, id = req[s].id, AcceptSave(s)
  PROVE  IInv'
<1>1. /\ Has(s, {"matched"})
      /\ UNCHANGED <<files, named, referenced, deleted, raced>>
      /\ \/ /\ req[s].row.state # "live" /\ Live(id) /\ rows' = rows
            /\ req' = [t \in Slots |-> Idle]
            /\ ends' = ends \cup {[id |-> id, logo |-> "none"]}
         \/ /\ SetReq(s, Idle) /\ ends' = ends
            /\ rows' = rows \/ rows' = [rows EXCEPT ![id] = Accepted]
  BY DEF AcceptSave, Inserts, Has
<1>2. CASE rows' = rows /\ SetReq(s, Idle) /\ ends' = ends
  BY <1>1, <1>2, EndOne
<1>3. id \in Schools /\ id \in Ids /\ Holder(s)
  BY <1>1, RequestFields DEF IInv, Has, Ids, Holder
<1>4. CASE /\ req[s].row.state # "live" /\ Live(id) /\ rows' = rows
           /\ req' = [t \in Slots |-> Idle]
           /\ ends' = ends \cup {[id |-> id, logo |-> "none"]}
  <2>1. id \in raced
    BY <1>1, <1>3, <1>4 DEF IInv, HeldInv, Held, Has, Live
  <2>2. /\ \A t \in Slots : req'[t] = Idle /\ ~Holder(t)'
        /\ req' \in [Slots -> Request]
    BY <1>4 DEF Holder, Has, Idle, Request
  <2>3. /\ rows' \in [Ids -> Gateway \cup School \cup {Unused, Gone}]
        /\ rows'[id] \in School \cup {Unused, Gone}
    BY <1>3, <1>4 DEF IInv, RowsInv, TypeOK
  <2>4. /\ \A x \in deleted' \ raced' : rows'[x] = Gone
        /\ id \in deleted' => rows'[id] \in {Gone, Accepted}
        /\ id \in referenced => Live(id)'
    BY <1>1, <1>3, <1>4 DEF IInv, DeletedStaysDeleted, Live
  <2> QED
    BY <1>1, <1>3, <1>4, <2>1, <2>2, <2>3, <2>4, SchoolWritten
<1>5. CASE rows' = [rows EXCEPT ![id] = Accepted] /\ SetReq(s, Idle) /\ ends' = ends
  <2>2. Accepted \in School /\ Accepted.state = "live"
    BY DEF School, Accepted
  <2>3. /\ rows'[id] = Accepted /\ \A x \in Ids \ {id} : rows'[x] = rows[x]
        /\ rows' \in [Ids -> Gateway \cup School \cup {Unused, Gone}]
    BY <1>3, <1>5, <2>2 DEF IInv, RowsInv
  <2>4. /\ req'[s] = Idle /\ req' \in [Slots -> Request]
        /\ \A t \in Slots \ {s} : req'[t] = req[t]
    BY <1>5, SetReqFacts DEF IInv, Request
  <2>5. \A t \in Slots : Holder(t)' /\ req'[t].id = id => id \in raced'
    BY <1>1, <1>3, <2>4 DEF IInv, RacedInv, Together, Holder, Has, Idle
  <2>6. Live(id)'
    BY <2>2, <2>3 DEF Live
  <2>7. \A x \in deleted' \ raced' : rows'[x] = Gone
    <3>1. id \notin raced => Live(id)
      BY <1>1, <1>3 DEF IInv, HeldInv, Held, Has
    <3>2. \A x \in deleted \ raced : rows[x] = Gone /\ x # id
      BY <3>1 DEF IInv, DeletedStaysDeleted, Live, Gone
    <3> QED
      BY <1>1, <1>5, <3>2 DEF IInv, RowsInv
  <2> QED
    BY <1>1, <1>3, <1>5, <2>2, <2>3, <2>4, <2>5, <2>6, <2>7, SchoolWritten
<1> QED
  BY <1>1, <1>2, <1>4, <1>5

LEMMA SchoolCreateStep ==
  ASSUME IInv, NEW id \in Schools, SchoolCreate(id)
  PROVE  IInv'
<1>1. PICK accepted \in BOOLEAN :
        rows' = [rows EXCEPT ![id] = [state |-> "live", accepted |-> accepted]]
  BY DEF SchoolCreate
<1> DEFINE w == [state |-> "live", accepted |-> accepted]
<1>2. /\ rows[id] = Unused
      /\ UNCHANGED <<files, named, referenced, req, deleted, raced, ends>>
  BY DEF SchoolCreate
<1>3. w \in School /\ w.state = "live"
  BY DEF School
<1> HIDE DEF w
<1>4. /\ rows'[id] = w /\ \A x \in Ids \ {id} : rows'[x] = rows[x]
      /\ rows' \in [Ids -> Gateway \cup School \cup {Unused, Gone}]
  BY <1>1, <1>3 DEF IInv, RowsInv, Ids, w
<1>5. Live(id)' /\ ~Live(id)
  BY <1>2, <1>3, <1>4 DEF Live, Unused
<1>6. \A t \in Slots : Holder(t)' /\ req'[t].id = id => id \in raced'
  <2> SUFFICES ASSUME NEW t \in Slots, Holder(t), req[t].id = id, id \notin raced
               PROVE  FALSE
    BY <1>2 DEF Holder, Has
  <2>1. Has(t, {"found", "matched"}) /\ Held(t)
    BY HolderIds DEF IInv, HeldInv
  <2> QED
    BY <1>5, <2>1 DEF Held
<1>7. \A x \in deleted' \ raced' : rows'[x] = Gone
  <2>1. \A x \in deleted \ raced : rows[x] = Gone /\ x # id
    BY <1>2 DEF IInv, DeletedStaysDeleted, Unused, Gone
  <2> QED
    BY <1>1, <1>2, <2>1 DEF IInv, RowsInv
<1>8. req' \in [Slots -> Request]
  BY <1>2 DEF IInv, TypeOK
<1>9. id \notin deleted
  BY <1>2 DEF IInv, DeletedStaysDeleted, Unused, Gone, Accepted
<1> QED
  BY <1>2, <1>3, <1>4, <1>5, <1>6, <1>7, <1>8, <1>9, SchoolWritten

LEMMA SchoolDeleteStep ==
  ASSUME IInv, NEW id \in Schools, SchoolDelete(id)
  PROVE  IInv'
<1>1. /\ id \notin referenced /\ Hold(id) /\ deleted' = deleted \cup {id}
      /\ rows' = [rows EXCEPT ![id] = Gone]
      /\ UNCHANGED <<files, named, referenced, req, ends>>
  BY DEF SchoolDelete
<1>2. /\ rows'[id] = Gone /\ \A x \in Ids \ {id} : rows'[x] = rows[x]
      /\ rows' \in [Ids -> Gateway \cup School \cup {Unused, Gone}]
  BY <1>1 DEF IInv, RowsInv, Ids
<1>3. /\ raced \subseteq raced'
      /\ \A t \in Slots : Holder(t) /\ req[t].id = id => id \in raced'
  BY <1>1, Begins DEF IInv, Ids
<1>4. \A t \in Slots : Holder(t)' /\ req'[t].id = id => id \in raced'
  BY <1>1, <1>3 DEF Holder, Has
<1>5. \A x \in deleted' \ raced' : rows'[x] = Gone
  <2>1. \A x \in deleted \ raced : rows[x] = Gone
    BY DEF IInv, DeletedStaysDeleted
  <2> QED
    BY <1>1, <1>2, <1>3, <2>1 DEF IInv, RowsInv
<1>6. req' \in [Slots -> Request]
  BY <1>1 DEF IInv, TypeOK
<1> QED
  BY <1>1, <1>2, <1>3, <1>4, <1>5, <1>6, SchoolWritten

-----------------------------------------------------------------------------
LEMMA ReferStep == ASSUME IInv, NEW id \in Ids, Refer(id) PROVE IInv'
<1>1. /\ Live(id) /\ UNCHANGED <<rows, files, named, req, deleted, raced, ends>>
      /\ referenced' = referenced \cup {IF id \in Gateways THEN rows[id].code ELSE id}
  BY DEF Refer
<1>2. id \in Gateways => rows[id].code \in Codes
  BY <1>1 DEF IInv, TypeOK, Gateway, Unused, Gone, Live
<1>3. TypeOK' /\ RowsInv'
  BY <1>1, <1>2 DEF IInv, TypeOK, RowsInv, Ids
<1>4. LogosInv'
  BY <1>1 DEF IInv, LogosInv, Live, Knows, Holder, Has, Together, Uploads
<1>5. RacedInv' /\ HeldInv'
  BY <1>1 DEF IInv, RacedInv, Together, HeldInv, Held, Live, Holder, Has
<1>6. LogoExists' /\ EndsByRaceOrSeed'
  BY <1>1 DEF IInv, LogoExists, EndsByRaceOrSeed, Live
<1>7. DeletedStaysDeleted'
  <2>1. CASE id \in Gateways
    BY <1>1, <1>2, <2>1, IdsAssumption DEF IInv, DeletedStaysDeleted, Live
  <2>2. CASE id \notin Gateways
    BY <1>1, <2>2, IdsAssumption DEF IInv, DeletedStaysDeleted, Live, Ids
  <2> QED
    BY <2>1, <2>2
<1> QED
  BY <1>3, <1>4, <1>5, <1>6, <1>7 DEF IInv

LEMMA FaultSteps ==
  ASSUME IInv, (\E s \in Slots : Fails(s)) \/ Crash \/ UNCHANGED vars
  PROVE  IInv'
<1>1. UNCHANGED <<rows, files, named, referenced, deleted, raced, ends>>
  BY DEF Fails, Crash, Rest, vars
<1>2. /\ req' \in [Slots -> Request]
      /\ \A t \in Slots : req'[t] = req[t] \/ req'[t] = Idle
  <2>1. ASSUME NEW s \in Slots, SetReq(s, Idle)
        PROVE  /\ req' \in [Slots -> Request]
               /\ \A t \in Slots : req'[t] = req[t] \/ req'[t] = Idle
    BY <2>1, SetReqFacts DEF IInv, Request
  <2> QED
    BY <2>1 DEF Fails, Crash, vars, IInv, TypeOK, Request
<1> QED
  BY <1>1, <1>2, EndStep

(* The seed's gateway is alone, and its logo is taken. *)
LEMMA InitIInv == Init => IInv
<1> SUFFICES ASSUME Init PROVE IInv
  OBVIOUS
<1>1. \A s \in Slots : req[s] = Idle /\ ~Holder(s) /\ Knows(s) = {} /\ ~Has(s, {"checked"})
                       /\ ~Has(s, {"loaded", "compared"})
  BY DEF Init, Holder, Knows, Has, Idle
<1>2. rows \in [Ids -> {Unused}] \/ \E g \in Gateways :
        /\ rows[g] \in Gateway /\ rows[g].logo = SeedLogo
        /\ rows \in [Ids -> Gateway \cup {Unused}]
        /\ \A x \in Ids \ {g} : rows[x] = Unused
  <2>1. CASE rows = NoRows
    BY <2>1 DEF NoRows, Ids
  <2>2. ASSUME NEW g \in Gateways, NEW code \in Codes,
               rows = [NoRows EXCEPT ![g] = [state |-> "live", code |-> code,
                                             logo |-> SeedLogo]]
        PROVE  /\ rows[g] \in Gateway /\ rows[g].logo = SeedLogo
               /\ rows \in [Ids -> Gateway \cup {Unused}]
               /\ \A x \in Ids \ {g} : rows[x] = Unused
    <3> DEFINE w == [state |-> "live", code |-> code, logo |-> SeedLogo]
    <3>1. w \in Gateway /\ w.logo = SeedLogo
      BY SeedAssumption DEF Gateway
    <3> HIDE DEF w
    <3>2. rows = [NoRows EXCEPT ![g] = w]
      BY <2>2 DEF w
    <3> QED
      BY <3>1, <3>2 DEF NoRows, Ids
  <2> QED
    BY <2>1, <2>2 DEF Init
<1>3. TypeOK /\ RowsInv
  <2>1. req \in [Slots -> Request]
    BY DEF Init, Request
  <2>2. /\ \A g \in Gateways : rows[g] \in Gateway \cup {Unused, Gone}
        /\ \A k \in Schools : rows[k] \in School \cup {Unused, Gone}
        /\ RowsInv
    BY <1>2, IdsAssumption DEF Ids, RowsInv
  <2> QED
    BY <2>1, <2>2, SeedAssumption DEF Init, TypeOK
<1>4. /\ \A g \in Gateways : Live(g) => rows[g].logo = SeedLogo
      /\ \A g, h \in Gateways : Live(g) /\ Live(h) => g = h
  BY <1>2 DEF Live, Unused, Ids
<1>5. LogosInv
  BY <1>1, <1>4 DEF LogosInv, Init
<1>6. RacedInv /\ HeldInv
  BY <1>1 DEF RacedInv, Together, HeldInv
<1>7. LogoExists /\ EndsByRaceOrSeed /\ DeletedStaysDeleted
  BY <1>4 DEF Init, LogoExists, EndsByRaceOrSeed, DeletedStaysDeleted
<1> QED
  BY <1>3, <1>5, <1>6, <1>7 DEF IInv

LEMMA Invariance == Spec => []IInv
<1>1. ASSUME IInv, [Next]_vars PROVE IInv'
  <2>1. ASSUME NEW s \in Slots, GatewayStep(s) PROVE IInv'
    BY <1>1, <2>1, CreateCheckStep, CreateSaveStep, UpdateLoadStep, UpdateCompareStep,
       UpdateSaveStep, UnlinkStep, DeleteFetchStep, DeleteRowStep DEF GatewayStep
  <2>2. ASSUME NEW s \in Slots, SchoolStep(s) PROVE IInv'
    BY <1>1, <2>2, AcceptFindStep, AcceptMatchStep, AcceptSaveStep DEF SchoolStep
  <2>3. ASSUME NEW id \in Schools, SchoolCreate(id) \/ SchoolDelete(id) PROVE IInv'
    BY <1>1, <2>3, SchoolCreateStep, SchoolDeleteStep
  <2> QED
    BY <1>1, <2>1, <2>2, <2>3, ReferStep, RefusedUploadStep, FaultSteps DEF Next, Ids
<1> QED
  BY InitIInv, <1>1, PTL DEF Spec

-----------------------------------------------------------------------------
(* Types of the tables, the files and the handlers' state. *)
THEOREM CatalogueTypes == Spec => []TypeOK
<1>1. IInv => TypeOK
  BY DEF IInv
<1> QED
  BY Invariance, <1>1, PTL

(* An uploaded logo is on disk as long as a gateway's row names it, unless two
   handlers held the gateway at once.                                      *)
THEOREM LogosExist == Spec => []LogoExists
<1>1. IInv => LogoExists
  BY DEF IInv
<1> QED
  BY Invariance, <1>1, PTL

(* A handler ends the process only on a row that two held at once, or on the
   logo of the seed's gateway, which was never uploaded.                   *)
THEOREM EndsByRacesOrSeed == Spec => []EndsByRaceOrSeed
<1>1. IInv => EndsByRaceOrSeed
  BY DEF IInv
<1> QED
  BY Invariance, <1>1, PTL

(* What was deleted stays deleted unless a handler held it, and what is
   referred to stays; a school that comes back is accepted.                *)
THEOREM DeletedRowsStayDeleted == Spec => []DeletedStaysDeleted
<1>1. IInv => DeletedStaysDeleted
  BY DEF IInv
<1> QED
  BY Invariance, <1>1, PTL
=============================================================================
