------------------------- MODULE SettingCacheProofs -------------------------
(***************************************************************************)
(* What TLAPS proves about SettingCache, for any number of handlers, saves *)
(* and faults.                                                             *)
(*                                                                         *)
(* The inductive invariant IInv says why the copy is the row unless a find *)
(* and a save overlapped: without an overlap no find runs beside a save,   *)
(* so what a find has read is still the row when it fills the cache, and a *)
(* save that removed the copy finds it still gone when it writes.          *)
(***************************************************************************)
EXTENDS SettingCache, TLAPS

(* A find has seen the row, and the one it is about to cache. *)
FindsSee ==
  \A s \in Slots :
    /\ Finding(s) => row \in req[s].seen
    /\ req[s].pc = "filling" => req[s].value \in req[s].seen

Apart ==
  ~overlapped =>
    /\ ~(SomeFind /\ SomeSave)
    /\ cache \in {None, row}
    /\ \A s \in Slots : /\ req[s].pc = "filling" => req[s].value = row
                        /\ req[s].pc = "removed" => cache = None

IInv ==
  /\ TypeOK
  /\ FindsSee
  /\ Apart
  /\ TokenCheckIsCurrent
  /\ KilledOnlyWithoutSetting

-----------------------------------------------------------------------------
(* What a handler's record holds, by where the handler is. *)
LEMMA RequestFields ==
  ASSUME TypeOK, NEW s \in Slots
  PROVE  /\ req[s].pc = "missed" =>
              req[s] \in [pc : {"missed"}, token : Tokens, seen : SUBSET Tokens]
         /\ req[s].pc = "filling" =>
              req[s] \in [pc : {"filling"}, token : Tokens, seen : SUBSET Tokens,
                          value : Values]
         /\ Saving(s) =>
              req[s] \in [pc : {"looked", "removed"}, value : Values,
                          exists : BOOLEAN]
BY DEF TypeOK, Request, Idle, Saving

LEMMA SetReqFacts ==
  ASSUME TypeOK, NEW s \in Slots, NEW r, SetReq(s, r)
  PROVE  /\ req'[s] = r
         /\ \A t \in Slots \ {s} : req'[t] = req[t]
         /\ r \in Request => req' \in [Slots -> Request]
BY DEF TypeOK, SetReq

LEMMA IdleIsRequest == Idle \in Request
BY DEF Request

(* Handlers that end leave nothing to show, and the rest as it is. *)
LEMMA EndStep ==
  ASSUME IInv, UNCHANGED <<row, cache, verdict, killed>>, overlapped' = overlapped,
         req' \in [Slots -> Request],
         \A t \in Slots : req'[t] = req[t] \/ req'[t] = Idle
  PROVE  IInv'
<1>1. TypeOK'
  BY DEF IInv, TypeOK
<1>2. FindsSee'
  BY DEF IInv, FindsSee, Finding, Idle
<1>3. Apart'
  BY DEF IInv, Apart, SomeFind, SomeSave, Finding, Saving, Idle
<1>4. TokenCheckIsCurrent' /\ KilledOnlyWithoutSetting'
  BY DEF IInv, TokenCheckIsCurrent, KilledOnlyWithoutSetting
<1> QED
  BY <1>1, <1>2, <1>3, <1>4 DEF IInv

(* A find that ends without a setting. *)
LEMMA NotFoundStep ==
  ASSUME IInv, NEW s \in Slots, NEW r, NEW failed, NotFound(s, r, failed),
         failed \/ None \in r.seen, UNCHANGED <<row, cache, overlapped>>
  PROVE  IInv'
<1>1. /\ req' \in [Slots -> Request]
      /\ \A t \in Slots : req'[t] = req[t] \/ req'[t] = Idle
  <2>1. CASE r.token = None
    BY <2>1, SetReqFacts, IdleIsRequest DEF NotFound, IInv
  <2>2. CASE r.token # None
    BY <2>2, IdleIsRequest DEF NotFound
  <2> QED
    BY <2>1, <2>2
<1>2. KilledOnlyWithoutSetting'
  BY DEF NotFound, IInv, KilledOnlyWithoutSetting
<1>3. TypeOK'
  BY <1>1 DEF IInv, TypeOK
<1>4. FindsSee'
  BY <1>1 DEF IInv, FindsSee, Finding, Idle
<1>5. Apart'
  BY <1>1 DEF IInv, Apart, SomeFind, SomeSave, Finding, Saving, Idle
<1>6. TokenCheckIsCurrent'
  BY DEF IInv, TokenCheckIsCurrent, NotFound
<1> QED
  BY <1>2, <1>3, <1>4, <1>5, <1>6 DEF IInv

(* A webhook is judged by a setting it has seen. *)
LEMMA JudgeStep ==
  ASSUME IInv, NEW r, NEW value, Judge(r, value),
         ~overlapped => value \in r.seen
  PROVE  TokenCheckIsCurrent'
<1>1. CASE r.token = None
  BY <1>1 DEF Judge, IInv, TokenCheckIsCurrent
<1>2. CASE r.token # None
  BY <1>2 DEF Judge, TokenCheckIsCurrent
<1> QED
  BY <1>1, <1>2

-----------------------------------------------------------------------------
LEMMA HitStep ==
  ASSUME IInv, NEW s \in Slots, NEW token \in Tokens, FindHit(s, token)
  PROVE  IInv'
<1> DEFINE r == [token |-> token, seen |-> {row}]
<1>1. Judge(r, cache) /\ SetReq(s, Idle)
      /\ UNCHANGED <<row, cache, overlapped, killed>> /\ cache # None
  BY DEF FindHit, Found
<1>2. ~overlapped => cache \in r.seen
  BY <1>1 DEF IInv, Apart
<1> HIDE DEF r
<1>3. TokenCheckIsCurrent'
  BY <1>1, <1>2, JudgeStep
<1>4. /\ req' \in [Slots -> Request]
      /\ \A t \in Slots : req'[t] = req[t] \/ req'[t] = Idle
  BY <1>1, SetReqFacts, IdleIsRequest DEF IInv
<1>5. TypeOK' /\ KilledOnlyWithoutSetting'
  BY <1>1, <1>4 DEF IInv, TypeOK, KilledOnlyWithoutSetting
<1>6. FindsSee'
  BY <1>1, <1>4 DEF IInv, FindsSee, Finding, Idle
<1>7. Apart'
  BY <1>1, <1>4 DEF IInv, Apart, SomeFind, SomeSave, Finding, Saving, Idle
<1> QED
  BY <1>3, <1>5, <1>6, <1>7 DEF IInv

LEMMA MissStep ==
  ASSUME IInv, NEW s \in Slots, NEW token \in Tokens, FindMiss(s, token)
  PROVE  IInv'
<1> DEFINE r == [pc |-> "missed", token |-> token, seen |-> {row}]
<1>1. /\ SetReq(s, r) /\ req[s] = Idle /\ cache = None
      /\ overlapped' = (overlapped \/ SomeSave)
      /\ UNCHANGED <<row, cache, verdict, killed>>
  BY DEF FindMiss
<1>2. r \in Request
  BY DEF IInv, TypeOK, Request, Tokens
<1>3. /\ req'[s] = r /\ \A t \in Slots \ {s} : req'[t] = req[t]
      /\ req' \in [Slots -> Request]
  BY <1>1, <1>2, SetReqFacts DEF IInv
<1>4. TypeOK' /\ TokenCheckIsCurrent' /\ KilledOnlyWithoutSetting'
  BY <1>1, <1>3 DEF IInv, TypeOK, TokenCheckIsCurrent, KilledOnlyWithoutSetting
<1>5. FindsSee'
  BY <1>1, <1>3 DEF IInv, FindsSee, Finding
<1>6. Apart'
  <2>1. SomeSave' <=> SomeSave
    BY <1>1, <1>3 DEF SomeFind, SomeSave, Finding, Saving, Idle
  <2>2. ~overlapped' => /\ ~SomeSave /\ cache \in {None, row}
                        /\ \A t \in Slots : /\ req[t].pc = "filling" => req[t].value = row
                                            /\ req[t].pc = "removed" => cache = None
    BY <1>1 DEF IInv, Apart
  <2>3. \A t \in Slots : /\ req'[t].pc = "filling" => req'[t] = req[t]
                         /\ req'[t].pc = "removed" => req'[t] = req[t]
    BY <1>1, <1>3
  <2>4. UNCHANGED <<row, cache>>
    BY <1>1
  <2> SUFFICES ASSUME ~overlapped'
               PROVE  /\ ~(SomeFind' /\ SomeSave')
                      /\ cache' \in {None, row'}
                      /\ \A t \in Slots :
                           /\ req'[t].pc = "filling" => req'[t].value = row'
                           /\ req'[t].pc = "removed" => cache' = None
    BY DEF Apart
  <2>5. ~(SomeFind' /\ SomeSave')
    BY <2>1, <2>2
  <2>6. \A t \in Slots : /\ req'[t].pc = "filling" => req'[t].value = row'
                         /\ req'[t].pc = "removed" => cache' = None
    BY <2>2, <2>3, <2>4
  <2>7. cache' \in {None, row'}
    BY <2>2, <2>4
  <2> QED
    BY <2>5, <2>6, <2>7
<1> QED
  BY <1>4, <1>5, <1>6 DEF IInv

LEMMA ReadStep ==
  ASSUME IInv, NEW s \in Slots, FindRead(s)
  PROVE  IInv'
<1>1. CASE row = None
  <2>1. NotFound(s, req[s], FALSE) /\ None \in req[s].seen
    BY <1>1 DEF FindRead, IInv, FindsSee, Finding
  <2> QED
    BY <2>1, NotFoundStep DEF FindRead
<1>2. CASE row # None
  <2> DEFINE r == [pc |-> "filling", token |-> req[s].token,
                   seen |-> req[s].seen, value |-> row]
  <2>1. /\ SetReq(s, r) /\ req[s].pc = "missed"
        /\ UNCHANGED <<row, cache, overlapped, verdict, killed>>
    BY <1>2 DEF FindRead
  <2>2. req[s] \in [pc : {"missed"}, token : Tokens, seen : SUBSET Tokens]
        /\ row \in req[s].seen
    BY <2>1, RequestFields DEF IInv, FindsSee, Finding
  <2>3. r \in Request
    BY <1>2, <2>2 DEF IInv, TypeOK, Request
  <2>4. /\ req'[s] = r /\ \A t \in Slots \ {s} : req'[t] = req[t]
        /\ req' \in [Slots -> Request]
    BY <2>1, <2>3, SetReqFacts DEF IInv
  <2>5. TypeOK' /\ TokenCheckIsCurrent' /\ KilledOnlyWithoutSetting'
    BY <2>1, <2>4 DEF IInv, TypeOK, TokenCheckIsCurrent, KilledOnlyWithoutSetting
  <2>6. FindsSee'
    BY <2>1, <2>2, <2>4 DEF IInv, FindsSee, Finding
  <2>7. Apart'
    BY <2>1, <2>4 DEF IInv, Apart, SomeFind, SomeSave, Finding, Saving
  <2> QED
    BY <2>5, <2>6, <2>7 DEF IInv
<1> QED
  BY <1>1, <1>2

(* The find ends with what it read, which is the row unless a save ran. *)
LEMMA FillStep ==
  ASSUME IInv, NEW s \in Slots, FindFill(s)
  PROVE  IInv'
<1>1. /\ req[s].pc = "filling" /\ cache' = req[s].value /\ SetReq(s, Idle)
      /\ Judge(req[s], req[s].value) /\ UNCHANGED <<row, overlapped, killed>>
  BY DEF FindFill, Found
<1>2. req[s].value \in Values /\ req[s].value \in req[s].seen
  BY <1>1, RequestFields DEF IInv, FindsSee
<1>3. TokenCheckIsCurrent'
  BY <1>1, <1>2, JudgeStep
<1>4. /\ req'[s] = Idle /\ \A t \in Slots \ {s} : req'[t] = req[t]
      /\ req' \in [Slots -> Request]
  BY <1>1, SetReqFacts, IdleIsRequest DEF IInv
<1>5. TypeOK' /\ KilledOnlyWithoutSetting'
  BY <1>1, <1>2, <1>4 DEF IInv, TypeOK, KilledOnlyWithoutSetting
<1>6. FindsSee'
  BY <1>1, <1>4 DEF IInv, FindsSee, Finding, Idle
<1>7. Apart'
  BY <1>1, <1>4 DEF IInv, Apart, SomeFind, SomeSave, Finding, Saving, Idle
<1> QED
  BY <1>3, <1>5, <1>6, <1>7 DEF IInv

LEMMA LookStep ==
  ASSUME IInv, NEW s \in Slots, NEW value \in Values, SaveLook(s, value)
  PROVE  IInv'
<1> DEFINE r == [pc |-> "looked", value |-> value, exists |-> row # None]
<1>1. /\ SetReq(s, r) /\ req[s] = Idle
      /\ overlapped' = (overlapped \/ SomeFind)
      /\ UNCHANGED <<row, cache, verdict, killed>>
  BY DEF SaveLook
<1>2. r \in Request
  BY DEF Request
<1>3. /\ req'[s] = r /\ \A t \in Slots \ {s} : req'[t] = req[t]
      /\ req' \in [Slots -> Request]
  BY <1>1, <1>2, SetReqFacts DEF IInv
<1>4. TypeOK' /\ TokenCheckIsCurrent' /\ KilledOnlyWithoutSetting'
  BY <1>1, <1>3 DEF IInv, TypeOK, TokenCheckIsCurrent, KilledOnlyWithoutSetting
<1>5. FindsSee'
  BY <1>1, <1>3 DEF IInv, FindsSee, Finding
<1>6. Apart'
  <2>1. SomeFind' <=> SomeFind
    BY <1>1, <1>3 DEF SomeFind, SomeSave, Finding, Saving, Idle
  <2>2. ~overlapped' => /\ ~SomeFind /\ cache \in {None, row}
                        /\ \A t \in Slots : /\ req[t].pc = "filling" => req[t].value = row
                                            /\ req[t].pc = "removed" => cache = None
    BY <1>1 DEF IInv, Apart
  <2>3. \A t \in Slots : /\ req'[t].pc = "filling" => req'[t] = req[t]
                         /\ req'[t].pc = "removed" => req'[t] = req[t]
    BY <1>1, <1>3
  <2>4. UNCHANGED <<row, cache>>
    BY <1>1
  <2> SUFFICES ASSUME ~overlapped'
               PROVE  /\ ~(SomeFind' /\ SomeSave')
                      /\ cache' \in {None, row'}
                      /\ \A t \in Slots :
                           /\ req'[t].pc = "filling" => req'[t].value = row'
                           /\ req'[t].pc = "removed" => cache' = None
    BY DEF Apart
  <2>5. ~(SomeFind' /\ SomeSave')
    BY <2>1, <2>2
  <2>6. \A t \in Slots : /\ req'[t].pc = "filling" => req'[t].value = row'
                         /\ req'[t].pc = "removed" => cache' = None
    BY <2>2, <2>3, <2>4
  <2>7. cache' \in {None, row'}
    BY <2>2, <2>4
  <2> QED
    BY <2>5, <2>6, <2>7
<1> QED
  BY <1>4, <1>5, <1>6 DEF IInv

(* With no find running, the cache without the copy is as good as new. *)
LEMMA RemoveStep ==
  ASSUME IInv, NEW s \in Slots, SaveRemove(s)
  PROVE  IInv'
<1> DEFINE r == [req[s] EXCEPT !.pc = "removed"]
<1>1. /\ SetReq(s, r) /\ req[s].pc = "looked" /\ cache' = None
      /\ overlapped' = (overlapped /\ SomeFind)
      /\ UNCHANGED <<row, verdict, killed>>
  BY DEF SaveRemove
<1>2. r \in Request /\ r.pc = "removed"
  BY <1>1, RequestFields DEF IInv, Saving, Request
<1> HIDE DEF r
<1>3. /\ req'[s] = r /\ \A t \in Slots \ {s} : req'[t] = req[t]
      /\ req' \in [Slots -> Request]
  BY <1>1, <1>2, SetReqFacts DEF IInv
<1>4. TypeOK' /\ TokenCheckIsCurrent' /\ KilledOnlyWithoutSetting'
  BY <1>1, <1>3 DEF IInv, TypeOK, TokenCheckIsCurrent, KilledOnlyWithoutSetting
<1>5. FindsSee'
  BY <1>1, <1>2, <1>3 DEF IInv, FindsSee, Finding
<1>6. Apart'
  <2>1. SomeSave /\ (SomeFind' <=> SomeFind)
    BY <1>1, <1>2, <1>3 DEF SomeFind, SomeSave, Finding, Saving
  <2>2. ~overlapped' => ~SomeFind
    BY <1>1, <2>1 DEF IInv, Apart
  <2> QED
    BY <1>1, <1>2, <1>3, <2>1, <2>2 DEF Apart, SomeFind, Finding
<1> QED
  BY <1>4, <1>5, <1>6 DEF IInv

LEMMA WriteStep ==
  ASSUME IInv, NEW s \in Slots, SaveWrite(s)
  PROVE  IInv'
<1>1. CASE SetReq(s, Idle) /\ UNCHANGED row
  <2>1. /\ req' \in [Slots -> Request]
        /\ \A t \in Slots : req'[t] = req[t] \/ req'[t] = Idle
    BY <1>1, SetReqFacts, IdleIsRequest DEF IInv
  <2> QED
    BY <1>1, <2>1, EndStep DEF SaveWrite
<1>2. CASE /\ row' = req[s].value
           /\ req' = [Witnessed(req[s].value) EXCEPT ![s] = Idle]
  <2>1. /\ req[s].pc = "removed" /\ Saving(s) /\ req[s].value \in Values
        /\ UNCHANGED <<cache, overlapped, verdict, killed>>
    BY RequestFields DEF SaveWrite, Saving, IInv
  <2>2. req'[s] = Idle
    BY <1>2 DEF Witnessed
  <2>3. ASSUME NEW t \in Slots \ {s}
        PROVE  /\ req'[t] \in Request /\ req'[t].pc = req[t].pc
               /\ ~Finding(t) => req'[t] = req[t]
               /\ Finding(t) => /\ row' \in req'[t].seen
                                /\ req[t].seen \subseteq req'[t].seen
               /\ req[t].pc = "filling" => req'[t].value = req[t].value
    <3>1. CASE Finding(t)
      <4>1. req'[t] = [req[t] EXCEPT !.seen = @ \cup {req[s].value}]
        BY <1>2, <3>1 DEF Witnessed
      <4>2. CASE req[t].pc = "missed"
        BY <1>2, <2>1, <3>1, <4>1, <4>2, RequestFields DEF IInv, Request, Tokens
      <4>3. CASE req[t].pc = "filling"
        BY <1>2, <2>1, <3>1, <4>1, <4>3, RequestFields DEF IInv, Request, Tokens
      <4> QED
        BY <3>1, <4>2, <4>3 DEF Finding
    <3>2. CASE ~Finding(t)
      BY <1>2, <3>2 DEF Witnessed, IInv, TypeOK, Finding
    <3> QED
      BY <3>1, <3>2
  <2>4. req' \in [Slots -> Request]
    BY <1>2, <2>2, <2>3, IdleIsRequest DEF Witnessed
  <2>5. TypeOK' /\ TokenCheckIsCurrent' /\ KilledOnlyWithoutSetting'
    BY <1>2, <2>1, <2>4 DEF IInv, TypeOK, TokenCheckIsCurrent, KilledOnlyWithoutSetting
  <2>6. FindsSee'
    BY <2>2, <2>3 DEF IInv, FindsSee, Finding, Idle
  <2>7. Apart'
    <3>1. ~overlapped => ~SomeFind /\ cache = None
      BY <2>1 DEF IInv, Apart, SomeSave
    <3> QED
      BY <2>1, <2>2, <2>3, <3>1 DEF Apart, SomeFind, Finding, Saving, Idle
  <2> QED
    BY <2>5, <2>6, <2>7 DEF IInv
<1> QED
  BY <1>1, <1>2 DEF SaveWrite

LEMMA FailSteps ==
  ASSUME IInv, NEW s \in Slots, FindFails(s) \/ SaveFails(s) \/ Crash
  PROVE  IInv'
<1>1. CASE FindFails(s)
  BY <1>1, NotFoundStep DEF FindFails
<1>2. CASE SaveFails(s)
  <2>1. /\ req' \in [Slots -> Request]
        /\ \A t \in Slots : req'[t] = req[t] \/ req'[t] = Idle
    BY <1>2, SetReqFacts, IdleIsRequest DEF SaveFails, IInv
  <2> QED
    BY <1>2, <2>1, EndStep DEF SaveFails
<1>3. CASE Crash
  BY <1>3, EndStep, IdleIsRequest DEF Crash
<1> QED
  BY <1>1, <1>2, <1>3

-----------------------------------------------------------------------------
LEMMA InitIInv == Init => IInv
<1> SUFFICES ASSUME Init PROVE IInv
  OBVIOUS
<1>1. TypeOK
  BY IdleIsRequest DEF Init, TypeOK
<1>2. FindsSee /\ Apart
  BY DEF Init, FindsSee, Apart, SomeFind, SomeSave, Finding, Saving, Idle
<1>3. TokenCheckIsCurrent /\ KilledOnlyWithoutSetting
  BY DEF Init, TokenCheckIsCurrent, KilledOnlyWithoutSetting
<1> QED
  BY <1>1, <1>2, <1>3 DEF IInv

LEMMA NextIInv == ASSUME IInv, [Next]_vars PROVE IInv'
<1>1. ASSUME NEW s \in Slots, Find(s) PROVE IInv'
  BY <1>1, HitStep, MissStep, ReadStep, FillStep, FailSteps DEF Find
<1>2. ASSUME NEW s \in Slots, Save(s) PROVE IInv'
  BY <1>2, LookStep, RemoveStep, WriteStep, FailSteps DEF Save
<1>3. CASE Crash
  BY <1>3, FailSteps DEF Crash
<1>4. CASE UNCHANGED vars
  <2>1. req' \in [Slots -> Request]
    BY <1>4 DEF vars, IInv, TypeOK
  <2> QED
    BY <1>4, <2>1, EndStep DEF vars
<1> QED
  BY <1>1, <1>2, <1>3, <1>4 DEF Next

LEMMA Invariance == Spec => []IInv
<1>1. IInv /\ [Next]_vars => IInv'
  BY NextIInv
<1> QED
  BY InitIInv, <1>1, PTL DEF Spec

(* The row, its copy and the handlers keep their types. *)
THEOREM SettingTypes == Spec => []TypeOK
<1>1. IInv => TypeOK
  BY DEF IInv
<1> QED
  BY <1>1, Invariance, PTL

(* The copy of the setting is the row or is missing, unless a find that missed
   ran beside a save.                                                      *)
THEOREM CopyIsRow == Spec => []StaleOnlyByOverlap
<1>1. IInv => StaleOnlyByOverlap
  BY DEF IInv, Apart, StaleOnlyByOverlap
<1> QED
  BY <1>1, Invariance, PTL

(* A webhook's token is compared with a setting there was while it was
   checked, with the same exception.                                       *)
THEOREM TokensAreChecked == Spec => []TokenCheckIsCurrent
<1>1. IInv => TokenCheckIsCurrent
  BY DEF IInv
<1> QED
  BY <1>1, Invariance, PTL

(* Neither a wrong token nor a missing copy ends the process. *)
THEOREM GuardKillsOnlyWithoutSetting == Spec => []KilledOnlyWithoutSetting
<1>1. IInv => KilledOnlyWithoutSetting
  BY DEF IInv
<1> QED
  BY <1>1, Invariance, PTL
=============================================================================
