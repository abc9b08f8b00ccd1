----------------------- MODULE ScenarioActivationProofs -----------------------
(***************************************************************************)
(* Proofs about ScenarioActivation, for any number of requests, features,  *)
(* scenarios and accounts.                                                 *)
(***************************************************************************)
EXTENDS ScenarioActivation, TLAPS

(* A request that owns a mapping has begun.                                 *)
OwnersBegan == \A m \in mappings : pc[m.req] # "idle"

(* Any two requests that are running now overlap, and both know it.          *)
LiveOverlap == \A q, r \in Live : q # r => q \in overlap[r]

(* Between its delete and its insert a request sees in its slot only what    *)
(* requests that overlap it have inserted.                                  *)
OnlyOverlapSinceClear ==
    \A r \in Requests : pc[r] = "create" =>
        \A m \in mappings :
            m.feature = arg[r].feature /\ m.slot = arg[r].slot
            => m.req \in overlap[r] /\ r \in overlap[m.req]

(* Only a scenario request looks a scenario up, only an activation inserts,  *)
(* and a forwarded call has resolved a scenario before it looks for the API. *)
ResolvedSteps == {"getScenario", "cacheGet", "findApi", "fill"}
ControlOK ==
    \A r \in Requests :
        /\ pc[r] = "lookup" => arg[r].op \in ScenarioOps
        /\ pc[r] = "create" => arg[r].op \in ActivateOps
        /\ pc[r] \in ResolvedSteps => target[r] \in Scenarios

(* The inductive invariant.                                                 *)
IInv == /\ TypeOK
        /\ ControlOK
        /\ OwnersBegan
        /\ LiveOverlap
        /\ OnlyOverlapSinceClear
        /\ DuplicatesOnlyFromOverlap

-------------------------------------------------------------------------------

USE DEF Request, Goto

LEMMA InputFields ==
    ASSUME NEW a \in ValidInputs
    PROVE  /\ a.op \in Ops
           /\ a.feature \in Features
           /\ a.scenario \in Scenarios \cup {None}
           /\ a.slot \in Slots
           /\ a.op \in ScenarioOps => a.scenario \in Scenarios
           /\ a.op \in AllOps
BY OpsAssumption DEF ValidInputs, Input

(* Where the successor of a call can lead: never back to the start, and to   *)
(* the insert only from the delete of an activation.                        *)
LEMMA NextCallFacts ==
    ASSUME NEW r \in Requests
    PROVE  /\ NextCall(r) \in (Running \cup Final) \ (ResolvedSteps \cup {"lookup"})
           /\ NextCall(r) = "create" => pc[r] = "clearSlot" /\ arg[r].op \in ActivateOps
<1> DEFINE a == arg[r]
           p == pc[r]
<1> USE DEF Running, Final, ResolvedSteps, ActivateOps
<1>1. CASE a.op = "activate"
  BY <1>1 DEF NextCall, ActivateScenario
<1>2. CASE a.op = "activateTool"
  BY <1>2 DEF NextCall, ActivateScenarioTool
<1>3. CASE a.op = "deactivateTool"
  BY <1>3 DEF NextCall, DeactivateScenarioTool
<1>4. CASE a.op = "setInactiveTool"
  BY <1>4 DEF NextCall, SetScenarioInactiveTool
<1>5. CASE a.op = "delete"
  BY <1>5 DEF NextCall, DeleteScenario
<1>6. CASE a.op \notin {"activate", "activateTool", "deactivateTool", "setInactiveTool", "delete"}
  BY <1>6 DEF NextCall, DeleteScenarioTool
<1> QED
  BY <1>1, <1>2, <1>3, <1>4, <1>5, <1>6

(* What a step does to the mappings and to the history of overlaps.         *)
LEMMA BeginType ==
    ASSUME TypeOK, NEW r \in Requests, Begin(r)
    PROVE  TypeOK'
<1>1. PICK a \in ValidInputs : /\ arg' = [arg EXCEPT ![r] = a]
                               /\ pc' = [pc EXCEPT ![r] = FirstCall(a)]
  BY DEF Begin
<1>2. FirstCall(a) \in Running
  BY InputFields DEF FirstCall, Running, AllOps, ScenarioOps, ActivateOps, DeleteOps, ClearOps
<1>3. overlap' \in [Requests -> SUBSET Requests]
  BY DEF Begin, TypeOK, Live
<1>4. UNCHANGED <<scenarios, apis, mappings, cached, target, skipped>>
  BY DEF Begin
<1>5. pc' \in [Requests -> Running \cup Final \cup {"idle"}]
  BY <1>1, <1>2 DEF TypeOK
<1>6. /\ arg' \in [Requests -> ValidInputs \cup {None}]
      /\ \A q \in Requests : pc'[q] # "idle" => arg'[q] \in ValidInputs
  BY <1>1 DEF TypeOK
<1> QED
  BY <1>3, <1>4, <1>5, <1>6 DEF TypeOK

LEMMA TypeInit == Init => TypeOK /\ ControlOK
<1> SUFFICES ASSUME Init PROVE TypeOK /\ ControlOK
  OBVIOUS
<1>1. apis \subseteq Features \X Names
  BY FeatureAssumption DEF Init, ApisOf, Names
<1> QED
  BY <1>1 DEF Init, TypeOK, ControlOK, ResolvedSteps, Running, Final

LEMMA TypeStep == TypeOK /\ ControlOK /\ [Next]_vars => TypeOK' /\ ControlOK'
<1> SUFFICES ASSUME TypeOK, ControlOK, [Next]_vars
             PROVE  TypeOK' /\ ControlOK'
  OBVIOUS
<1> USE DEF TypeOK, ControlOK, ResolvedSteps, Running, Final
<1>1. ASSUME NEW r \in Requests, Begin(r)
      PROVE  TypeOK' /\ ControlOK'
  <2>1. PICK a \in ValidInputs : /\ arg' = [arg EXCEPT ![r] = a]
                                 /\ pc' = [pc EXCEPT ![r] = FirstCall(a)]
    BY <1>1 DEF Begin
  <2>2. /\ FirstCall(a) \in {"lookup", "clearSlot", "findAccount", "findGlobal"}
        /\ FirstCall(a) = "lookup" => a.op \in ScenarioOps
    BY InputFields DEF FirstCall, AllOps, ScenarioOps, ActivateOps, DeleteOps, ClearOps
  <2>3. TypeOK'
    BY <1>1, BeginType
  <2> QED
    BY <1>1, <2>1, <2>2, <2>3 DEF Begin
<1>2. ASSUME NEW r \in Requests, Fail(r)
      PROVE  TypeOK' /\ ControlOK'
  BY <1>2 DEF Fail, Live
<1>3. ASSUME NEW r \in Requests, Lookup(r)
      PROVE  TypeOK' /\ ControlOK'
  BY <1>3, NextCallFacts DEF Lookup
<1>4. ASSUME NEW r \in Requests, Check(r)
      PROVE  TypeOK' /\ ControlOK'
  BY <1>4, NextCallFacts DEF Check
<1>5. ASSUME NEW r \in Requests, DeactivateAllAccountSpecificMappings(r)
      PROVE  TypeOK' /\ ControlOK'
  BY <1>5, NextCallFacts DEF DeactivateAllAccountSpecificMappings
<1>6. ASSUME NEW r \in Requests, DeactivateByFeatureAndAccount(r)
      PROVE  TypeOK' /\ ControlOK'
  BY <1>6, NextCallFacts DEF DeactivateByFeatureAndAccount
<1>7. ASSUME NEW r \in Requests, Create(r)
      PROVE  TypeOK' /\ ControlOK'
  <2>1. NewMapping(r) \in Mapping
    BY <1>7, InputFields DEF Create, NewMapping, Mapping, ScenarioOps
  <2> QED
    BY <1>7, <2>1, NextCallFacts DEF Create
<1>8. ASSUME NEW r \in Requests, LookupPrev(r)
      PROVE  TypeOK' /\ ControlOK'
  BY <1>8, NextCallFacts DEF LookupPrev
<1>9. ASSUME NEW r \in Requests, InvalidAllKey(r) \/ InvalidAllKeyError(r)
      PROVE  TypeOK' /\ ControlOK'
  <2>1. cached' \subseteq CacheEntry
    BY <1>9 DEF InvalidAllKey, InvalidAllKeyError
  <2> QED
    BY <1>9, <2>1, NextCallFacts DEF InvalidAllKey, InvalidAllKeyError
<1>10. ASSUME NEW r \in Requests, DeleteByObjectID(r)
       PROVE  TypeOK' /\ ControlOK'
  BY <1>10, NextCallFacts DEF DeleteByObjectID
<1>11. ASSUME NEW r \in Requests, DeleteByScenarioName(r)
       PROVE  TypeOK' /\ ControlOK'
  BY <1>11, NextCallFacts DEF DeleteByScenarioName
<1>12. ASSUME NEW r \in Requests, DeleteErrorIgnored(r)
       PROVE  TypeOK' /\ ControlOK'
  BY <1>12, NextCallFacts DEF DeleteErrorIgnored
<1>13. ASSUME NEW r \in Requests, DeleteByScenarioId(r)
       PROVE  TypeOK' /\ ControlOK'
  BY <1>13, NextCallFacts DEF DeleteByScenarioId
<1>14. ASSUME NEW r \in Requests, FindAccountMapping(r) \/ FindGlobalMapping(r)
       PROVE  TypeOK' /\ ControlOK'
  BY <1>14 DEF FindAccountMapping, FindGlobalMapping, MappingsOf, Mapping
<1>15. ASSUME NEW r \in Requests, GetScenario(r) \/ CacheGet(r) \/ FindApi(r)
       PROVE  TypeOK' /\ ControlOK'
  BY <1>15 DEF GetScenario, CacheGet, FindApi
<1>16. ASSUME NEW r \in Requests, Fill(r)
       PROVE  TypeOK' /\ ControlOK'
  <2>1. [req |-> r, feature |-> arg[r].feature,
         name |-> NameOf[target[r]], slot |-> arg[r].slot] \in CacheEntry
    BY <1>16, InputFields DEF Fill, CacheEntry, Names
  <2> QED
    BY <1>16, <2>1 DEF Fill
<1>17. CASE UNCHANGED vars
  BY <1>17 DEF vars, Live
<1> QED
  BY <1>1, <1>2, <1>3, <1>4, <1>5, <1>6, <1>7, <1>8, <1>9, <1>10, <1>11, <1>12,
     <1>13, <1>14, <1>15, <1>16, <1>17 DEF Next, AllReturned

(* Every reachable state is well typed, for every instance.                 *)
THEOREM TypeCorrect == Spec => []TypeOK
BY TypeInit, TypeStep, PTL DEF Spec

-------------------------------------------------------------------------------
(***************************************************************************)
(* DuplicatesOnlyFromOverlap.                                              *)
(***************************************************************************)

(* The part of the invariant that the argument is about.                    *)
Separation == OwnersBegan /\ LiveOverlap /\ OnlyOverlapSinceClear /\ DuplicatesOnlyFromOverlap

(* A step that inserts no mapping, starts no request and moves no request    *)
(* into "create" keeps it.                                                  *)
LEMMA QuietStep ==
    ASSUME TypeOK, Separation,
           mappings' \subseteq mappings, UNCHANGED <<arg, overlap>>,
           NEW r \in Requests, NEW p \in Running \cup Final, p # "create",
           pc' = [pc EXCEPT ![r] = p], r \in Live
    PROVE  Separation'
<1>1. \A q \in Requests : /\ pc'[q] = "create" => pc[q] = "create"
                          /\ pc[q] # "idle" => pc'[q] # "idle"
  BY DEF TypeOK, Running, Final, Live
<1>2. Live' \subseteq Live
  BY DEF TypeOK, Live
<1>3. OwnersBegan'
  BY <1>1 DEF Separation, OwnersBegan, TypeOK, Mapping
<1>4. LiveOverlap'
  BY <1>2 DEF Separation, LiveOverlap
<1>5. OnlyOverlapSinceClear'
  BY <1>1 DEF Separation, OnlyOverlapSinceClear
<1>6. DuplicatesOnlyFromOverlap'
  BY DEF Separation, DuplicatesOnlyFromOverlap
<1> QED
  BY <1>3, <1>4, <1>5, <1>6 DEF Separation

(* Starting a request only adds overlaps: it owns no mapping yet.            *)
LEMMA BeginSeparation ==
    ASSUME TypeOK, Separation, NEW r \in Requests, Begin(r)
    PROVE  Separation'
<1>1. PICK a \in ValidInputs : /\ arg' = [arg EXCEPT ![r] = a]
                               /\ pc' = [pc EXCEPT ![r] = FirstCall(a)]
  BY DEF Begin
<1>2. FirstCall(a) \in {"lookup", "clearSlot", "findAccount", "findGlobal"}
  BY InputFields DEF FirstCall, AllOps, ScenarioOps, ActivateOps, DeleteOps, ClearOps
<1>3. mappings' = mappings /\ r \notin Live /\ pc[r] = "idle"
  BY DEF Begin, Live, Running
<1>4. \A q \in Requests : q # r => /\ overlap[q] \subseteq overlap'[q]
                                    /\ pc'[q] = pc[q]
                                    /\ arg'[q] = arg[q]
  BY <1>1 DEF Begin, TypeOK
<1>5. OwnersBegan'
  BY <1>1, <1>2, <1>3 DEF Separation, OwnersBegan, TypeOK, Mapping
<1>6. LiveOverlap'
  <2>1. Live' = Live \cup {r}
    BY <1>1, <1>2 DEF Live, TypeOK, Running
  <2>2. overlap'[r] = Live
    BY DEF Begin
  <2>3. \A q \in Live : r \in overlap'[q]
    BY <1>3 DEF Begin, Live
  <2> QED
    BY <1>3, <1>4, <2>1, <2>2, <2>3 DEF Separation, LiveOverlap, Live
<1>7. \A m \in mappings : m.req \in Requests /\ m.req # r
  BY <1>3 DEF Separation, OwnersBegan, TypeOK, Mapping
<1>8. OnlyOverlapSinceClear'
  <2>1. pc'[r] # "create"
    BY <1>1, <1>2 DEF TypeOK
  <2> QED
    BY <1>3, <1>4, <1>7, <2>1 DEF Separation, OnlyOverlapSinceClear
<1>9. DuplicatesOnlyFromOverlap'
  BY <1>3, <1>4, <1>7 DEF Separation, DuplicatesOnlyFromOverlap
<1> QED
  BY <1>5, <1>6, <1>8, <1>9 DEF Separation

(* The delete empties the slot, so nothing stands against the request there. *)
LEMMA ClearSeparation ==
    ASSUME TypeOK, Separation, NEW r \in Requests, DeactivateByFeatureAndAccount(r)
    PROVE  Separation'
<1>1. /\ mappings' = mappings \ MappingsOf(arg[r].feature, arg[r].slot)
      /\ UNCHANGED <<arg, overlap>>
      /\ r \in Live
      /\ pc' = [pc EXCEPT ![r] = NextCall(r)]
      /\ NextCall(r) \in Running \cup Final
  BY NextCallFacts DEF DeactivateByFeatureAndAccount, Live, Running
<1>2. OwnersBegan'
  BY <1>1 DEF Separation, OwnersBegan, TypeOK, Mapping, Running, Final
<1>3. LiveOverlap'
  <2>1. Live' \subseteq Live
    BY <1>1 DEF TypeOK, Live
  <2> QED
    BY <1>1, <2>1 DEF Separation, LiveOverlap
<1>4. OnlyOverlapSinceClear'
  <2> SUFFICES ASSUME NEW q \in Requests, pc'[q] = "create",
                      NEW m \in mappings', m.feature = arg[q].feature, m.slot = arg[q].slot
               PROVE  m.req \in overlap[q] /\ q \in overlap[m.req]
    BY <1>1 DEF OnlyOverlapSinceClear
  <2>1. q # r
    BY <1>1 DEF MappingsOf
  <2> QED
    BY <1>1, <2>1 DEF Separation, OnlyOverlapSinceClear, TypeOK
<1>5. DuplicatesOnlyFromOverlap'
  BY <1>1 DEF Separation, DuplicatesOnlyFromOverlap
<1> QED
  BY <1>2, <1>3, <1>4, <1>5 DEF Separation

(* The insert meets in its slot only mappings of requests that overlap it.   *)
LEMMA CreateSeparation ==
    ASSUME TypeOK, Separation, NEW r \in Requests, Create(r)
    PROVE  Separation'
<1>1. /\ mappings' = mappings \cup {NewMapping(r)}
      /\ UNCHANGED <<arg, overlap>>
      /\ pc[r] = "create"
      /\ r \in Live
      /\ pc' = [pc EXCEPT ![r] = NextCall(r)]
  BY DEF Create, Live, Running
<1>2. NextCall(r) \in (Running \cup Final) \ {"create"}
  BY <1>1, NextCallFacts
<1>3. /\ NewMapping(r).req = r
      /\ NewMapping(r).feature = arg[r].feature
      /\ NewMapping(r).slot = arg[r].slot
  BY DEF NewMapping
<1>4. Live' \subseteq Live
  BY <1>1 DEF TypeOK, Live
<1>5. OwnersBegan'
  BY <1>1, <1>2, <1>3 DEF Separation, OwnersBegan, TypeOK, Mapping, Running, Final
<1>6. LiveOverlap'
  BY <1>1, <1>4 DEF Separation, LiveOverlap
<1>7. OnlyOverlapSinceClear'
  <2> SUFFICES ASSUME NEW q \in Requests, pc'[q] = "create",
                      NEW m \in mappings', m.feature = arg[q].feature, m.slot = arg[q].slot
               PROVE  m.req \in overlap[q] /\ q \in overlap[m.req]
    BY <1>1 DEF OnlyOverlapSinceClear
  <2>1. q # r /\ pc[q] = "create"
    BY <1>1, <1>2 DEF TypeOK
  <2>2. CASE m \in mappings
    BY <2>1, <2>2 DEF Separation, OnlyOverlapSinceClear
  <2>3. CASE m = NewMapping(r)
    <3>1. q \in Live
      BY <2>1 DEF Live, Running
    <3> QED
      BY <1>1, <1>3, <2>1, <2>3, <3>1 DEF Separation, LiveOverlap
  <2> QED
    BY <1>1, <2>2, <2>3
<1>8. DuplicatesOnlyFromOverlap'
  BY <1>1, <1>3 DEF Separation, DuplicatesOnlyFromOverlap, OnlyOverlapSinceClear
<1> QED
  BY <1>5, <1>6, <1>7, <1>8 DEF Separation

LEMMA SeparationStep ==
    TypeOK /\ ControlOK /\ Separation /\ [Next]_vars => Separation'
<1> SUFFICES ASSUME TypeOK, ControlOK, Separation, [Next]_vars
             PROVE  Separation'
  OBVIOUS
<1> DEFINE Quiet(r) ==
      /\ r \in Live
      /\ mappings' \subseteq mappings
      /\ UNCHANGED <<arg, overlap>>
      /\ \E p \in Running \cup Final : p # "create" /\ pc' = [pc EXCEPT ![r] = p]
<1>1. ASSUME NEW r \in Requests, Begin(r) PROVE Separation'
  BY <1>1, BeginSeparation
<1>2. ASSUME NEW r \in Requests, DeactivateByFeatureAndAccount(r) PROVE Separation'
  BY <1>2, ClearSeparation
<1>3. ASSUME NEW r \in Requests, Create(r) PROVE Separation'
  BY <1>3, CreateSeparation
<1>4. ASSUME NEW r \in Requests, Quiet(r) PROVE Separation'
  BY <1>4, QuietStep
<1>5. ASSUME NEW r \in Requests, Fail(r) PROVE Quiet(r)
  BY <1>5 DEF Fail, Final
<1>6. ASSUME NEW r \in Requests, Lookup(r) PROVE Quiet(r)
  BY <1>6, NextCallFacts DEF Lookup, Live, Running, Final
<1>7. ASSUME NEW r \in Requests, Check(r) PROVE Quiet(r)
  BY <1>7, NextCallFacts DEF Check, Live, Running, Final
<1>8. ASSUME NEW r \in Requests, DeactivateAllAccountSpecificMappings(r) PROVE Quiet(r)
  BY <1>8, NextCallFacts DEF DeactivateAllAccountSpecificMappings, Live, Running, Final
<1>9. ASSUME NEW r \in Requests, LookupPrev(r) PROVE Quiet(r)
  BY <1>9, NextCallFacts DEF LookupPrev, Live, Running, Final
<1>10. ASSUME NEW r \in Requests, InvalidAllKey(r) \/ InvalidAllKeyError(r) PROVE Quiet(r)
  BY <1>10, NextCallFacts DEF InvalidAllKey, InvalidAllKeyError, Live, Running, Final
<1>11. ASSUME NEW r \in Requests, DeleteByObjectID(r) \/ DeleteByScenarioName(r)
       PROVE  Quiet(r)
  BY <1>11, NextCallFacts DEF DeleteByObjectID, DeleteByScenarioName, Live, Running, Final
<1>12. ASSUME NEW r \in Requests, DeleteErrorIgnored(r) PROVE Quiet(r)
  BY <1>12, NextCallFacts DEF DeleteErrorIgnored, Live, Running, Final
<1>13. ASSUME NEW r \in Requests, DeleteByScenarioId(r) PROVE Quiet(r)
  BY <1>13, NextCallFacts DEF DeleteByScenarioId, Live, Running, Final
<1>14. ASSUME NEW r \in Requests, FindAccountMapping(r) \/ FindGlobalMapping(r)
       PROVE  Quiet(r)
  BY <1>14 DEF FindAccountMapping, FindGlobalMapping, Live, Running, Final
<1>15. ASSUME NEW r \in Requests, GetScenario(r) \/ CacheGet(r) \/ FindApi(r) \/ Fill(r)
       PROVE  Quiet(r)
  BY <1>15 DEF GetScenario, CacheGet, FindApi, Fill, Live, Running, Final
<1>16. CASE UNCHANGED vars
  BY <1>16 DEF vars, Separation, OwnersBegan, LiveOverlap, Live,
               OnlyOverlapSinceClear, DuplicatesOnlyFromOverlap
<1> HIDE DEF Quiet
<1> QED
  BY <1>1, <1>2, <1>3, <1>4, <1>5, <1>6, <1>7, <1>8, <1>9, <1>10, <1>11, <1>12,
     <1>13, <1>14, <1>15, <1>16 DEF Next, AllReturned

LEMMA SeparationInit == Init => Separation
BY DEF Init, Separation, OwnersBegan, LiveOverlap, Live, Running,
       OnlyOverlapSinceClear, DuplicatesOnlyFromOverlap

(* The inductive invariant holds, and with it the property: in no instance do *)
(* two mappings share a slot unless their activations overlapped.            *)
THEOREM DuplicatesNeedOverlap == Spec => []DuplicatesOnlyFromOverlap
<1>1. Init => IInv
  BY TypeInit, SeparationInit DEF IInv, Separation
<1>2. IInv /\ [Next]_vars => IInv'
  BY TypeStep, SeparationStep DEF IInv, Separation
<1>3. IInv => DuplicatesOnlyFromOverlap
  BY DEF IInv
<1> QED
  BY <1>1, <1>2, <1>3, PTL DEF Spec

-------------------------------------------------------------------------------
(***************************************************************************)
(* Where a request can stand, and what its steps do to the others.           *)
(***************************************************************************)

ForwardSteps == {"findAccount", "findGlobal"} \cup ResolvedSteps

StepsOf(a) ==
    CASE a.op \in ActivateOps ->
             {"lookup", "clearSlot", "create", "lookupPrev", "invalidate"}
             \cup (IF a.slot = Global THEN {"clearAccounts"} ELSE {})
      [] a.op = "deactivateTool"  -> {"clearSlot", "invalidate"}
      [] a.op = "setInactiveTool" -> {"lookup", "check", "clearSlot", "invalidate"}
      [] a.op \in DeleteOps ->
             {"lookup", "deleteDoc", "deleteApis", "invalidate", "deleteMapping"}
      [] OTHER -> ForwardSteps

(* A request stands at a step of its own handler, and has no input before it starts. *)
Places ==
    \A r \in Requests : /\ pc[r] \in Running => pc[r] \in StepsOf(arg[r])
                        /\ pc[r] = "idle" => arg[r] = None

(* A mapping is what its request inserts: one mapping for each activation.     *)
Owned == \A m \in mappings : /\ m = NewMapping(m.req)
                             /\ arg[m.req].op \in ActivateOps
                             /\ pc[m.req] # "idle"

LiveStep(r) ==
    \/ Fail(r) \/ Lookup(r) \/ Check(r)
    \/ DeactivateAllAccountSpecificMappings(r) \/ DeactivateByFeatureAndAccount(r)
    \/ Create(r) \/ LookupPrev(r) \/ InvalidAllKey(r) \/ InvalidAllKeyError(r)
    \/ DeleteByObjectID(r) \/ DeleteByScenarioName(r)
    \/ DeleteErrorIgnored(r) \/ DeleteByScenarioId(r)
    \/ FindAccountMapping(r) \/ FindGlobalMapping(r) \/ GetScenario(r)
    \/ CacheGet(r) \/ FindApi(r) \/ Fill(r)

LEMMA NextIs ==
    ASSUME [Next]_vars
    PROVE  \/ \E r \in Requests : Begin(r) \/ LiveStep(r)
           \/ UNCHANGED vars
BY Zenon DEF Next, LiveStep, AllReturned

LEMMA ArgValid ==
    ASSUME TypeOK, NEW r \in Requests, pc[r] # "idle"
    PROVE  /\ arg[r] \in ValidInputs /\ arg[r].op \in AllOps
           /\ arg[r].op \in ActivateOps \cup DeleteOps =>
                  arg[r].scenario \in Scenarios /\ arg[r].feature = FeatureOf[arg[r].scenario]
           /\ arg[r].op \notin {"activate", "forward"} => arg[r].slot = Global
BY InputFields DEF TypeOK, ValidInputs, ScenarioOps

LEMMA ActivateNext ==
    ASSUME NEW r \in Requests, arg[r].op \in ActivateOps
    PROVE  /\ pc[r] \in {"lookup", "clearAccounts"} =>
                  NextCall(r) \in {"clearSlot"} \cup
                     (IF arg[r].op = "activate" /\ arg[r].slot # Global THEN {} ELSE {"clearAccounts"})
           /\ pc[r] = "clearSlot" => NextCall(r) = "create"
           /\ pc[r] = "create" => NextCall(r) \in {"lookupPrev", "invalidate", "done"}
           /\ pc[r] \in {"lookupPrev", "invalidate"} => NextCall(r) \in {"invalidate", "done"}
<1>1. CASE arg[r].op = "activate"
  BY <1>1 DEF NextCall, ActivateScenario
<1>2. CASE arg[r].op = "activateTool"
  BY <1>2 DEF NextCall, ActivateScenarioTool
<1> QED
  BY <1>1, <1>2 DEF ActivateOps

LEMMA DeleteNext ==
    ASSUME NEW r \in Requests, arg[r].op \in DeleteOps
    PROVE  /\ pc[r] = "lookup" => NextCall(r) = "deleteDoc"
           /\ pc[r] = "deleteDoc" => NextCall(r) = "deleteApis"
           /\ pc[r] = "deleteApis" => NextCall(r) = IF arg[r].op = "delete" THEN "invalidate" ELSE "deleteMapping"
           /\ pc[r] = "deleteMapping" => NextCall(r) = IF arg[r].op = "delete" THEN "done" ELSE "invalidate"
           /\ pc[r] = "invalidate" => NextCall(r) = IF arg[r].op = "delete" THEN "deleteMapping" ELSE "done"
<1>1. CASE arg[r].op = "delete"
  BY <1>1 DEF NextCall, DeleteScenario
<1>2. CASE arg[r].op = "deleteTool"
  BY <1>2 DEF NextCall, DeleteScenarioTool
<1> QED
  BY <1>1, <1>2 DEF DeleteOps

LEMMA ClearNext ==
    ASSUME NEW r \in Requests, arg[r].op \in ClearOps
    PROVE  /\ pc[r] = "lookup" /\ arg[r].op = "setInactiveTool" => NextCall(r) = "check"
           /\ pc[r] = "check" /\ arg[r].op = "setInactiveTool" => NextCall(r) = "clearSlot"
           /\ pc[r] = "clearSlot" => NextCall(r) = "invalidate"
           /\ pc[r] = "invalidate" => NextCall(r) = "done"
<1>1. CASE arg[r].op = "deactivateTool"
  BY <1>1 DEF NextCall, DeactivateScenarioTool
<1>2. CASE arg[r].op = "setInactiveTool"
  BY <1>2 DEF NextCall, SetScenarioInactiveTool
<1> QED
  BY <1>1, <1>2 DEF ClearOps

(* Only r moves, and the inputs and the history stay.                         *)
Moves(r) ==
    /\ r \in Live
    /\ UNCHANGED <<arg, overlap>>
    /\ \A q \in Requests \ {r} : pc'[q] = pc[q]
    /\ pc'[r] \in Running \cup Final

LEMMA StepMoves ==
    ASSUME TypeOK, ControlOK, NEW r \in Requests, LiveStep(r)
    PROVE  Moves(r)
<1>1. r \in Live /\ UNCHANGED <<arg, overlap>>
  BY DEF LiveStep, Fail, Lookup, Check, DeactivateAllAccountSpecificMappings, DeactivateByFeatureAndAccount,
         Create, LookupPrev, InvalidAllKey, InvalidAllKeyError, DeleteByObjectID,
         DeleteByScenarioName, DeleteErrorIgnored, DeleteByScenarioId, FindAccountMapping,
         FindGlobalMapping, GetScenario, CacheGet, FindApi, Fill, Live, Running
<1>2. \E p : pc' = [pc EXCEPT ![r] = p]
  BY DEF LiveStep, Fail, Lookup, Check, DeactivateAllAccountSpecificMappings, DeactivateByFeatureAndAccount,
         Create, LookupPrev, InvalidAllKey, InvalidAllKeyError, DeleteByObjectID,
         DeleteByScenarioName, DeleteErrorIgnored, DeleteByScenarioId, FindAccountMapping,
         FindGlobalMapping, GetScenario, CacheGet, FindApi, Fill
<1>3. TypeOK'
  BY TypeStep DEF LiveStep, Next
<1>4. \A q \in Requests \ {r} : pc'[q] = pc[q]
  BY <1>2 DEF TypeOK
<1>5. pc'[r] # "idle"
  BY NextCallFacts DEF LiveStep, Fail, Lookup, Check, DeactivateAllAccountSpecificMappings,
         DeactivateByFeatureAndAccount, Create, LookupPrev, InvalidAllKey, InvalidAllKeyError, DeleteByObjectID,
         DeleteByScenarioName, DeleteErrorIgnored, DeleteByScenarioId, FindAccountMapping,
         FindGlobalMapping, GetScenario, CacheGet, FindApi, Fill, TypeOK, Running, Final
<1> QED
  BY <1>1, <1>3, <1>4, <1>5 DEF Moves, TypeOK

LEMMA PlaceOf ==
    ASSUME TypeOK, Places, NEW r \in Requests, pc[r] \in Running
    PROVE  /\ pc[r] = "clearAccounts" => arg[r].op \in ActivateOps /\ arg[r].slot = Global
           /\ pc[r] = "clearSlot" => arg[r].op \in ActivateOps \cup ClearOps
           /\ pc[r] \in {"create", "lookupPrev"} => arg[r].op \in ActivateOps
           /\ pc[r] = "check" => arg[r].op = "setInactiveTool"
           /\ pc[r] \in {"deleteDoc", "deleteApis", "deleteMapping"} => arg[r].op \in DeleteOps
           /\ pc[r] = "lookup" => arg[r].op \in ScenarioOps
           /\ pc[r] = "invalidate" => arg[r].op \in ActivateOps \cup DeleteOps \cup ClearOps
           /\ pc[r] \in ForwardSteps => arg[r].op = "forward"
<1>1. arg[r].op \in AllOps /\ pc[r] \in StepsOf(arg[r])
  BY ArgValid DEF Places, Running
<1> QED
  BY <1>1 DEF StepsOf, AllOps, ActivateOps, DeleteOps, ClearOps, ScenarioOps, ForwardSteps,
              ResolvedSteps

(* The order of the steps, for activations and for deletions.                  *)
Goes(r, p, S) == pc[r] = p => pc'[r] \in S \cup {"failed"}

LEMMA Paths ==
    ASSUME TypeOK, ControlOK, Places, NEW r \in Requests, LiveStep(r)
    PROVE  /\ arg[r].op \in ActivateOps =>
                  /\ Goes(r, "lookup", {"clearAccounts", "clearSlot"})
                  /\ Goes(r, "clearAccounts", {"clearAccounts", "clearSlot"})
                  /\ Goes(r, "clearSlot", {"create"})
                  /\ Goes(r, "create", {"lookupPrev", "invalidate", "done"})
                  /\ Goes(r, "lookupPrev", {"invalidate", "done"})
                  /\ Goes(r, "invalidate", {"invalidate", "done"})
                  /\ pc'[r] = "clearAccounts" => arg[r].slot = Global
           /\ arg[r].op \in DeleteOps =>
                  /\ Goes(r, "lookup", {"deleteDoc"})
                  /\ Goes(r, "deleteDoc", {"deleteApis"})
                  /\ Goes(r, "deleteApis", {IF arg[r].op = "delete" THEN "invalidate" ELSE "deleteMapping"})
                  /\ Goes(r, "deleteMapping", {IF arg[r].op = "delete" THEN "done" ELSE "invalidate"})
                  /\ Goes(r, "invalidate", {IF arg[r].op = "delete" THEN "deleteMapping" ELSE "done"})
           /\ arg[r].op \in ClearOps =>
                  /\ Goes(r, "lookup", {"check"})
                  /\ Goes(r, "check", {"clearSlot", "done"})
                  /\ Goes(r, "clearSlot", {"invalidate"})
                  /\ Goes(r, "invalidate", {"done"})
           /\ arg[r].op = "forward" => pc'[r] \in ForwardSteps \cup Final
<1>1. pc[r] \in Running /\ pc[r] \in StepsOf(arg[r]) /\ arg[r].op \in AllOps
  BY StepMoves, ArgValid DEF Moves, Live, Places, Running
<1>2. arg[r].op # "activate" => arg[r].slot = Global \/ arg[r].op = "forward"
  BY <1>1, ArgValid DEF Running
<1>3. \/ pc[r] \notin ForwardSteps /\ pc'[r] \in {NextCall(r), "failed"}
      \/ pc[r] = "check" /\ pc'[r] = "done"
      \/ pc[r] \in ForwardSteps /\ pc'[r] \in ForwardSteps \cup Final
  BY DEF LiveStep, Fail, Lookup, Check, DeactivateAllAccountSpecificMappings,
         DeactivateByFeatureAndAccount, Create, LookupPrev, InvalidAllKey, InvalidAllKeyError, DeleteByObjectID,
         DeleteByScenarioName, DeleteErrorIgnored, DeleteByScenarioId, FindAccountMapping,
         FindGlobalMapping, GetScenario, CacheGet, FindApi, Fill, TypeOK, ForwardSteps, ResolvedSteps, Final, Live, Running
<1>4. CASE arg[r].op \in ActivateOps
  <2>1. /\ arg[r].op \notin DeleteOps \cup ClearOps \cup {"forward"}
        /\ pc[r] \notin ForwardSteps \cup {"check"}
    BY <1>1, <1>4 DEF ActivateOps, DeleteOps, ClearOps, StepsOf, ForwardSteps, ResolvedSteps
  <2>2. pc[r] \notin {"lookup", "clearAccounts"} => NextCall(r) # "clearAccounts"
    BY <1>1, <1>4, <2>1, ActivateNext DEF StepsOf
  <2> QED
    BY <1>1, <1>2, <1>3, <1>4, <2>1, <2>2, ActivateNext DEF Goes
<1>5. CASE arg[r].op \in DeleteOps
  <2>1. /\ arg[r].op \notin ActivateOps \cup ClearOps \cup {"forward"}
        /\ pc[r] \notin ForwardSteps \cup {"check"}
    BY <1>1, <1>5 DEF ActivateOps, DeleteOps, ClearOps, StepsOf, ForwardSteps, ResolvedSteps
  <2> QED
    BY <1>3, <1>5, <2>1, DeleteNext DEF Goes
<1>6. CASE arg[r].op \in ClearOps
  <2>1. /\ arg[r].op \notin ActivateOps \cup DeleteOps \cup {"forward"}
        /\ pc[r] \notin ForwardSteps
        /\ pc[r] \in {"lookup", "check"} => arg[r].op = "setInactiveTool"
    BY <1>1, <1>6 DEF ActivateOps, DeleteOps, ClearOps, StepsOf, ForwardSteps, ResolvedSteps
  <2> QED
    BY <1>3, <1>6, <2>1, ClearNext DEF Goes
<1>7. CASE arg[r].op = "forward"
  <2>1. /\ arg[r].op \notin ActivateOps \cup DeleteOps \cup ClearOps
        /\ pc[r] \in ForwardSteps /\ "check" \notin ForwardSteps
    BY <1>1, <1>7 DEF ActivateOps, DeleteOps, ClearOps, StepsOf, ForwardSteps, ResolvedSteps
  <2> QED
    BY <1>3, <1>7, <2>1
<1> QED
  BY <1>1, <1>4, <1>5, <1>6, <1>7 DEF AllOps

LEMMA FirstPlace ==
    ASSUME TypeOK, Places, NEW r \in Requests, Begin(r)
    PROVE  /\ arg[r] = None /\ pc[r] = "idle"
           /\ pc'[r] \in StepsOf(arg'[r]) /\ pc'[r] \in {"lookup", "clearSlot", "findAccount", "findGlobal"}
           /\ pc'[r] = "clearSlot" => arg'[r].op \in ClearOps
           /\ \A q \in Requests \ {r} : arg'[q] = arg[q] /\ pc'[q] = pc[q]
           /\ UNCHANGED <<scenarios, apis, mappings, cached, target, skipped>>
<1>1. PICK a \in ValidInputs : /\ arg' = [arg EXCEPT ![r] = a]
                               /\ pc' = [pc EXCEPT ![r] = FirstCall(a)]
  BY DEF Begin
<1>2. FirstCall(a) \in StepsOf(a)
  BY InputFields DEF FirstCall, StepsOf, AllOps, ScenarioOps, ActivateOps, DeleteOps, ClearOps,
                     ForwardSteps
<1>3. /\ FirstCall(a) \in {"lookup", "clearSlot", "findAccount", "findGlobal"}
      /\ FirstCall(a) = "clearSlot" => a.op \in ClearOps
  BY DEF FirstCall, ClearOps
<1>4. arg'[r] = a /\ pc'[r] = FirstCall(a)
  BY <1>1 DEF TypeOK
<1> QED
  BY <1>1, <1>2, <1>3, <1>4 DEF Begin, Places, TypeOK

LEMMA PlacesStep ==
    ASSUME TypeOK, ControlOK, Places, [Next]_vars
    PROVE  Places'
<1>1. ASSUME NEW r \in Requests, Begin(r)
      PROVE  Places'
  <2>1. pc'[r] # "idle"
    BY <1>1, FirstPlace
  <2> QED
    BY <1>1, <2>1, FirstPlace DEF Places
<1>2. ASSUME NEW r \in Requests, LiveStep(r)
      PROVE  Places'
  <2>1. Moves(r) /\ pc[r] \in Running /\ arg[r].op \in AllOps /\ pc[r] \in StepsOf(arg[r])
    BY <1>2, StepMoves, ArgValid DEF Moves, Live, Places, Running
  <2>2. pc'[r] \in StepsOf(arg[r]) \cup Final
    <3>1. CASE arg[r].op \in ActivateOps
      <4>1. StepsOf(arg[r]) = {"lookup", "clearSlot", "create", "lookupPrev", "invalidate"}
                              \cup (IF arg[r].slot = Global THEN {"clearAccounts"} ELSE {})
        BY <3>1 DEF StepsOf, ActivateOps, DeleteOps
      <4>2. pc'[r] \in {"clearAccounts", "clearSlot", "create", "lookupPrev", "invalidate", "done", "failed"}
        BY <1>2, <2>1, <3>1, <4>1, Paths DEF Goes
      <4>3. pc'[r] = "clearAccounts" => arg[r].slot = Global
        BY <1>2, <3>1, Paths
      <4> QED
        BY <4>1, <4>2, <4>3 DEF Final
    <3>2. CASE arg[r].op \in DeleteOps
      BY <1>2, <2>1, <3>2, Paths DEF Goes, StepsOf, Final, ActivateOps, DeleteOps
    <3>3. CASE arg[r].op \in ClearOps
      BY <1>2, <2>1, <3>3, Paths DEF Goes, StepsOf, Final, ActivateOps, ClearOps
    <3>4. CASE arg[r].op = "forward"
      BY <1>2, <2>1, <3>4, Paths DEF StepsOf, ActivateOps, DeleteOps
    <3> QED
      BY <2>1, <3>1, <3>2, <3>3, <3>4 DEF AllOps
  <2>3. pc'[r] # "idle" /\ (pc'[r] \in Running => pc'[r] \notin Final)
    BY <2>1 DEF Moves, Running, Final
  <2> QED
    BY <2>1, <2>2, <2>3 DEF Moves, Places
<1>3. CASE UNCHANGED vars
  BY <1>3 DEF vars, Places
<1> QED
  BY <1>1, <1>2, <1>3, NextIs

LEMMA OwnedStep ==
    ASSUME TypeOK, ControlOK, Places, Owned, [Next]_vars
    PROVE  Owned'
<1>1. ASSUME NEW r \in Requests, Begin(r)
      PROVE  Owned'
  <2>1. \A m \in mappings : m.req \in Requests /\ m.req # r
    BY <1>1, FirstPlace DEF Owned, TypeOK, Mapping
  <2> QED
    BY <1>1, <2>1, FirstPlace DEF Owned, NewMapping
<1>2. ASSUME NEW r \in Requests, LiveStep(r)
      PROVE  Owned'
  <2>1. Moves(r)
    BY <1>2, StepMoves
  <2>2. mappings' \subseteq mappings \/ Create(r)
    BY <1>2 DEF LiveStep, Fail, Lookup, Check, DeactivateAllAccountSpecificMappings,
         DeactivateByFeatureAndAccount, LookupPrev, InvalidAllKey, InvalidAllKeyError, DeleteByObjectID,
         DeleteByScenarioName, DeleteErrorIgnored, DeleteByScenarioId, FindAccountMapping,
         FindGlobalMapping, GetScenario, CacheGet, FindApi, Fill
  <2>3. \A q \in Requests : pc[q] # "idle" => pc'[q] # "idle"
    BY <2>1 DEF Moves, Running, Final
  <2>4. CASE mappings' \subseteq mappings
    BY <2>1, <2>3, <2>4 DEF Moves, Owned, NewMapping, TypeOK, Mapping
  <2>5. CASE Create(r)
    <3>1. mappings' = mappings \cup {NewMapping(r)} /\ arg[r].op \in ActivateOps /\ pc[r] # "idle"
      BY <2>5 DEF Create, ControlOK
    <3>2. NewMapping(r).req = r
      BY DEF NewMapping
    <3>3. \A m \in mappings' : /\ m = NewMapping(m.req) /\ arg[m.req].op \in ActivateOps
                                /\ m.req \in Requests /\ pc[m.req] # "idle"
      BY <3>1, <3>2 DEF Owned, TypeOK, Mapping
    <3> QED
      BY <2>1, <2>3, <3>3 DEF Moves, Owned, NewMapping
  <2> QED
    BY <2>2, <2>4, <2>5
<1>3. CASE UNCHANGED vars
  BY <1>3 DEF vars, Owned, NewMapping
<1> QED
  BY <1>1, <1>2, <1>3, NextIs

Base == TypeOK /\ ControlOK /\ Separation /\ Places /\ Owned

LEMMA BaseInit == Init => Base
<1>1. Init => Places /\ Owned
  BY DEF Init, Places, Owned, Running
<1> QED
  BY <1>1, TypeInit, SeparationInit DEF Base

LEMMA BaseStep == Base /\ [Next]_vars => Base'
BY TypeStep, SeparationStep, PlacesStep, OwnedStep DEF Base

-------------------------------------------------------------------------------
(***************************************************************************)
(* SlotLostOnlyToAnother.                                                  *)
(***************************************************************************)

(* A request that may have emptied a slot remains one, except by inserting there.  *)
LEMMA MayEmptyStays ==
    ASSUME Base, NEW r \in Requests, LiveStep(r), NEW q \in Requests, NEW f, NEW k,
           MayEmpty(q, f, k), ~(q = r /\ Create(r) /\ arg[r].feature = f /\ arg[r].slot = k)
    PROVE  MayEmpty(q, f, k)'
<1>1. Moves(r) /\ arg' = arg
  BY StepMoves DEF Base, Moves
<1>2. CASE q # r
  BY <1>1, <1>2 DEF Moves, MayEmpty
<1>3. CASE q = r
  <2>1. pc[r] # "failed"
    BY <1>1 DEF Moves, Live, Running
  <2>2. pc[r] = "create" => pc'[r] = "failed" \/ Create(r)
    BY DEF LiveStep, Fail, Lookup, Check, DeactivateAllAccountSpecificMappings,
         DeactivateByFeatureAndAccount, LookupPrev, InvalidAllKey, InvalidAllKeyError, DeleteByObjectID,
         DeleteByScenarioName, DeleteErrorIgnored, DeleteByScenarioId, FindAccountMapping,
         FindGlobalMapping, GetScenario, CacheGet, FindApi, Fill, Base, TypeOK, ResolvedSteps
  <2> QED
    BY <1>1, <1>3, <2>1, <2>2 DEF MayEmpty
<1> QED
  BY <1>2, <1>3

(* An activation has inserted its mapping when it was to insert it, or before.     *)
LEMMA InsertedBefore ==
    ASSUME Base, NEW r \in Requests, LiveStep(r), NEW q \in Requests, Inserted(q)'
    PROVE  Inserted(q) \/ (q = r /\ Create(r))
<1>1. Moves(r) /\ arg' = arg
  BY StepMoves DEF Base, Moves
<1>2. CASE q # r
  BY <1>1, <1>2 DEF Moves, Inserted
<1>3. CASE q = r
  <2>1. arg[r] # None /\ arg[r].op \in ActivateOps /\ pc'[r] \in {"lookupPrev", "invalidate", "done"}
    BY <1>1, <1>3 DEF Inserted
  <2>2. pc[r] \in {"lookup", "clearAccounts", "clearSlot", "create", "lookupPrev", "invalidate"}
    BY <1>1, <2>1, PlaceOf DEF Moves, Live, Base, Places, StepsOf, ActivateOps, DeleteOps, Running
  <2>3. pc[r] \in {"create", "lookupPrev", "invalidate"}
    BY <2>1, <2>2, Paths DEF Base, Goes
  <2>4. pc[r] = "create" => Create(r)
    BY <2>1 DEF LiveStep, Fail, Lookup, Check, DeactivateAllAccountSpecificMappings,
         DeactivateByFeatureAndAccount, LookupPrev, InvalidAllKey, InvalidAllKeyError, DeleteByObjectID,
         DeleteByScenarioName, DeleteErrorIgnored, DeleteByScenarioId, FindAccountMapping,
         FindGlobalMapping, GetScenario, CacheGet, FindApi, Fill, Base, TypeOK, ResolvedSteps
  <2> QED
    BY <1>3, <2>1, <2>3, <2>4 DEF Inserted
<1> QED
  BY <1>2, <1>3

(* A step that takes mappings out of a slot makes its request one of those.        *)
LEMMA EmptiedBy ==
    ASSUME Base, NEW r \in Requests, LiveStep(r), NEW m \in mappings \ mappings'
    PROVE  MayEmpty(r, m.feature, m.slot)' /\ pc[r] \in {"clearAccounts", "clearSlot", "deleteMapping"}
<1>1. Moves(r) /\ arg' = arg /\ pc[r] \in Running /\ pc[r] # "idle"
  BY StepMoves DEF Base, Moves, Live, Running
<1>2. /\ arg[r] # None
      /\ arg[r].op \in ActivateOps \cup DeleteOps => arg[r].feature = FeatureOf[arg[r].scenario]
      /\ arg[r].op \in ClearOps => arg[r].slot = Global
  BY <1>1, ArgValid, InputAssumption DEF Base, ClearOps
<1>3. m \in Mapping /\ m = NewMapping(m.req) /\ arg[m.req].op \in ActivateOps
      /\ m.req \in Requests /\ pc[m.req] # "idle"
  BY DEF Base, TypeOK, Owned, Mapping
<1>4. \/ DeactivateAllAccountSpecificMappings(r) \/ DeactivateByFeatureAndAccount(r)
      \/ DeleteByScenarioId(r)
  BY DEF LiveStep, Fail, Lookup, Check, Create, LookupPrev, InvalidAllKey, InvalidAllKeyError,
         DeleteByObjectID, DeleteByScenarioName, DeleteErrorIgnored, FindAccountMapping,
         FindGlobalMapping, GetScenario, CacheGet, FindApi, Fill
<1>5. CASE DeactivateAllAccountSpecificMappings(r)
  <2>1. /\ pc[r] = "clearAccounts" /\ m.feature = arg[r].feature /\ m.slot # Global
        /\ arg[r].op \in ActivateOps /\ arg[r].slot = Global
    BY <1>1, <1>5, PlaceOf DEF DeactivateAllAccountSpecificMappings, Base
  <2> QED
    BY <1>1, <1>2, <2>1 DEF MayEmpty
<1>6. CASE DeactivateByFeatureAndAccount(r)
  <2>1. /\ pc[r] = "clearSlot" /\ m.feature = arg[r].feature /\ m.slot = arg[r].slot
        /\ arg[r].op \in ActivateOps \cup ClearOps
    BY <1>1, <1>6, PlaceOf DEF DeactivateByFeatureAndAccount, MappingsOf, Base
  <2>2. arg[r].op \in ActivateOps => pc'[r] \in {"create", "failed"}
    BY <2>1, Paths DEF Base, Goes
  <2> QED
    BY <1>1, <1>2, <2>1, <2>2 DEF MayEmpty
<1>7. CASE DeleteByScenarioId(r)
  <2>1. pc[r] = "deleteMapping" /\ m.scenario = arg[r].scenario /\ arg[r].op \in DeleteOps
    BY <1>1, <1>7, PlaceOf DEF DeleteByScenarioId, Base
  <2>2. m.feature = FeatureOf[m.scenario]
    BY <1>3, ArgValid DEF NewMapping, Base
  <2> QED
    BY <1>1, <1>2, <2>1, <2>2 DEF MayEmpty
<1> QED
  BY <1>4, <1>5, <1>6, <1>7

(* The property, slot by slot.                                               *)
SlotLost ==
    \A q \in Requests, f \in Features, k \in Slots :
        Inserted(q) /\ arg[q].feature = f /\ arg[q].slot = k /\ MappingsOf(f, k) = {}
        => \E p \in Requests \ {q} : MayEmpty(p, f, k)

LEMMA SlotLostIs ==
    ASSUME TypeOK, SlotLost
    PROVE  SlotLostOnlyToAnother
<1>1. \A q \in Requests : Inserted(q) => arg[q].feature \in Features /\ arg[q].slot \in Slots
  BY InputFields DEF Inserted, TypeOK
<1> QED
  BY <1>1 DEF SlotLost, SlotLostOnlyToAnother

LEMMA SlotStep ==
    ASSUME Base, SlotLost, [Next]_vars
    PROVE  SlotLost'
<1>1. ASSUME NEW r \in Requests, Begin(r)
      PROVE  SlotLost'
  <2>1. /\ arg[r] = None /\ pc'[r] \in {"lookup", "clearSlot", "findAccount", "findGlobal"}
        /\ \A q \in Requests \ {r} : arg'[q] = arg[q] /\ pc'[q] = pc[q]
        /\ mappings' = mappings
    BY <1>1, FirstPlace DEF Base
  <2>2. \A q \in Requests : Inserted(q)' => Inserted(q) /\ q # r
    BY <2>1 DEF Inserted
  <2>3. \A q \in Requests, f \in Features, k \in Slots : MayEmpty(q, f, k) => MayEmpty(q, f, k)'
    BY <2>1 DEF MayEmpty
  <2>4. \A f \in Features, k \in Slots : MappingsOf(f, k)' = MappingsOf(f, k)
    BY <2>1 DEF MappingsOf
  <2> QED
    BY <2>1, <2>2, <2>3, <2>4 DEF SlotLost
<1>2. ASSUME NEW r \in Requests, LiveStep(r)
      PROVE  SlotLost'
  <2> SUFFICES ASSUME NEW q \in Requests, NEW f \in Features, NEW k \in Slots,
                      Inserted(q)', arg'[q].feature = f, arg'[q].slot = k, MappingsOf(f, k)' = {}
               PROVE  \E p \in Requests \ {q} : MayEmpty(p, f, k)'
    BY DEF SlotLost
  <2>1. Moves(r) /\ arg' = arg
    BY <1>2, StepMoves DEF Base, Moves
  <2>2. ~(Create(r) /\ arg[r].feature = f /\ arg[r].slot = k)
    <3> SUFFICES ASSUME Create(r), arg[r].feature = f, arg[r].slot = k
                 PROVE  FALSE
      OBVIOUS
    <3>1. /\ NewMapping(r) \in mappings'
          /\ NewMapping(r).feature = f /\ NewMapping(r).slot = k
      BY DEF Create, NewMapping
    <3>2. {m \in mappings' : m.feature = f /\ m.slot = k} = {}
      BY DEF MappingsOf
    <3> QED
      BY <3>1, <3>2
  <2>3. Inserted(q)
    BY <1>2, <2>1, <2>2, InsertedBefore
  <2>4. CASE MappingsOf(f, k) = {}
    <3>1. PICK p \in Requests \ {q} : MayEmpty(p, f, k)
      BY <2>1, <2>3, <2>4 DEF SlotLost
    <3>2. MayEmpty(p, f, k)'
      BY <1>2, <2>2, <3>1, MayEmptyStays
    <3> QED
      BY <3>2
  <2>5. CASE MappingsOf(f, k) # {}
    <3>1. PICK m \in mappings \ mappings' : m.feature = f /\ m.slot = k
      BY <2>5 DEF MappingsOf
    <3>2. MayEmpty(r, f, k)' /\ pc[r] \in {"clearAccounts", "clearSlot", "deleteMapping"}
      BY <1>2, <3>1, EmptiedBy
    <3>3. r # q
      BY <2>3, <3>2 DEF Inserted
    <3> QED
      BY <3>2, <3>3
  <2> QED
    BY <2>4, <2>5
<1>3. CASE UNCHANGED vars
  BY <1>3 DEF vars, SlotLost, Inserted, MappingsOf, MayEmpty
<1> QED
  BY <1>1, <1>2, <1>3, NextIs

(* An activation that has inserted its mapping loses its slot only to another request. *)
THEOREM SlotsAreLostToOthers == Spec => []SlotLostOnlyToAnother
<1>1. Init => Base /\ SlotLost
  <2>1. Init => SlotLost
    BY DEF Init, SlotLost, Inserted
  <2> QED
    BY <2>1, BaseInit
<1>2. Base /\ SlotLost /\ [Next]_vars => Base' /\ SlotLost'
  BY BaseStep, SlotStep
<1>3. Base /\ SlotLost => SlotLostOnlyToAnother
  BY SlotLostIs DEF Base
<1> QED
  BY <1>1, <1>2, <1>3, PTL DEF Spec

-------------------------------------------------------------------------------
(***************************************************************************)
(* DanglingExplained.                                                      *)
(***************************************************************************)

DeletionOf(d, s) == arg[d] # None /\ arg[d].op \in DeleteOps /\ arg[d].scenario = s

(* A deletion has looked for the mapping.                                      *)
PastMapping(d) ==
    \/ pc[d] = "done"
    \/ arg[d].op = "deleteTool" /\ pc[d] = "invalidate"

(* Another activation of the scenario of m.                                     *)
Another(m) == \E q \in Requests \ {m.req} : /\ arg[q] # None
                                            /\ arg[q].op \in ActivateOps
                                            /\ arg[q].scenario = m.scenario

Dangling ==
    \A m \in mappings : m.scenario \notin scenarios =>
        \E d \in Requests : /\ DeletionOf(d, m.scenario)
                            /\ \/ ~PastMapping(d)
                               \/ d \in overlap[m.req]
                               \/ Another(m)

(* An activation whose scenario went away after its lookup overlaps the deletion.  *)
Activating(r) == /\ arg[r] # None /\ arg[r].op \in ActivateOps
                 /\ pc[r] \in {"clearAccounts", "clearSlot", "create"}
ActivatingSees ==
    \A r \in Requests : Activating(r) /\ arg[r].scenario \notin scenarios =>
        \E d \in Requests : DeletionOf(d, arg[r].scenario) /\ d \in overlap[r]

LEMMA Overlaps ==
    ASSUME Base, NEW q \in Requests, NEW r \in Requests, q # r, q \in Live, r \in Live
    PROVE  q \in overlap[r]
BY DEF Base, Separation, LiveOverlap

LEMMA BeginOverlap ==
    ASSUME Base, NEW r \in Requests, Begin(r), NEW q \in Requests, q # r
    PROVE  overlap[q] \subseteq overlap'[q]
BY DEF Begin, Base, TypeOK

LEMMA ScenariosGo ==
    ASSUME Base, NEW r \in Requests, LiveStep(r)
    PROVE  \/ scenarios' = scenarios
           \/ /\ DeleteByObjectID(r) /\ scenarios' = scenarios \ {arg[r].scenario}
              /\ pc[r] = "deleteDoc" /\ DeletionOf(r, arg[r].scenario)
<1>1. scenarios' = scenarios \/ DeleteByObjectID(r)
  BY DEF LiveStep, Fail, Lookup, Check, DeactivateAllAccountSpecificMappings,
         DeactivateByFeatureAndAccount, Create, LookupPrev, InvalidAllKey, InvalidAllKeyError,
         DeleteByScenarioName, DeleteErrorIgnored, DeleteByScenarioId, FindAccountMapping,
         FindGlobalMapping, GetScenario, CacheGet, FindApi, Fill
<1>2. CASE DeleteByObjectID(r)
  <2>1. pc[r] = "deleteDoc" /\ arg[r].op \in DeleteOps
    BY <1>2, PlaceOf DEF DeleteByObjectID, Base, Running
  <2>2. arg[r] # None
    BY <2>1, ArgValid, InputAssumption DEF Base
  <2> QED
    BY <1>2, <2>1, <2>2 DEF DeleteByObjectID, DeletionOf
<1> QED
  BY <1>1, <1>2

LEMMA ActivatingStep ==
    ASSUME Base, ActivatingSees, [Next]_vars
    PROVE  ActivatingSees'
<1>1. ASSUME NEW r \in Requests, Begin(r)
      PROVE  ActivatingSees'
  <2>1. /\ arg[r] = None
        /\ pc'[r] \in {"lookup", "clearSlot", "findAccount", "findGlobal"}
        /\ pc'[r] = "clearSlot" => arg'[r].op \in ClearOps
        /\ \A q \in Requests \ {r} : arg'[q] = arg[q] /\ pc'[q] = pc[q]
        /\ scenarios' = scenarios
    BY <1>1, FirstPlace DEF Base
  <2>2. \A q \in Requests : Activating(q)' => q # r /\ Activating(q)
    BY <2>1 DEF Activating, ActivateOps, ClearOps
  <2>3. ASSUME NEW q \in Requests, Activating(q)', arg'[q].scenario \notin scenarios'
        PROVE  \E d \in Requests : DeletionOf(d, arg[q].scenario)' /\ d \in overlap'[q]
    <3>1. q # r /\ Activating(q) /\ arg[q].scenario \notin scenarios /\ arg'[q] = arg[q]
      BY <2>1, <2>2, <2>3
    <3>2. PICK d \in Requests : DeletionOf(d, arg[q].scenario) /\ d \in overlap[q]
      BY <3>1 DEF ActivatingSees
    <3>3. DeletionOf(d, arg[q].scenario)'
      BY <2>1, <3>1, <3>2 DEF DeletionOf
    <3> QED
      BY <1>1, <3>1, <3>2, <3>3, BeginOverlap
  <2> QED
    BY <2>3 DEF ActivatingSees
<1>2. ASSUME NEW r \in Requests, LiveStep(r)
      PROVE  ActivatingSees'
  <2>1. Moves(r) /\ arg' = arg /\ overlap' = overlap
    BY <1>2, StepMoves DEF Base, Moves
  <2> SUFFICES ASSUME NEW q \in Requests, Activating(q)', arg[q].scenario \notin scenarios'
               PROVE  \E d \in Requests : DeletionOf(d, arg[q].scenario) /\ d \in overlap[q]
    BY <2>1 DEF ActivatingSees, DeletionOf
  <2>2. arg[q] # None /\ arg[q].op \in ActivateOps /\ pc'[q] \in {"clearAccounts", "clearSlot", "create"}
    BY <2>1 DEF Activating
  <2>3. q \in Live
    BY <2>1, <2>2 DEF Moves, Live, Running
  <2>4. CASE arg[q].scenario \notin scenarios
    <3>1. pc[q] # "lookup"
      <4>1. CASE q = r /\ pc[q] = "lookup"
        <5>1. Lookup(r) \/ Fail(r)
          BY <1>2, <4>1 DEF LiveStep, Check, DeactivateAllAccountSpecificMappings,
             DeactivateByFeatureAndAccount, Create, LookupPrev, InvalidAllKey, InvalidAllKeyError, DeleteByObjectID,
             DeleteByScenarioName, DeleteErrorIgnored, DeleteByScenarioId, FindAccountMapping,
             FindGlobalMapping, GetScenario, CacheGet, FindApi, Fill
        <5>2. pc'[q] = "failed"
          BY <2>4, <4>1, <5>1 DEF Lookup, Fail, Base, TypeOK
        <5> QED
          BY <2>2, <5>2
      <4>2. CASE q # r
        BY <2>1, <2>2, <4>2 DEF Moves
      <4> QED
        BY <4>1, <4>2
    <3>2. pc[q] \in {"clearAccounts", "clearSlot", "create"}
      <4>1. CASE q = r
        <5>1. pc[q] \in StepsOf(arg[q])
          BY <2>3 DEF Base, Places, Live
        <5>2. pc[q] \in {"lookup", "clearAccounts", "clearSlot", "create", "lookupPrev", "invalidate"}
          BY <2>2, <5>1 DEF StepsOf, ActivateOps, DeleteOps
        <5>3. pc[q] \notin {"lookupPrev", "invalidate"}
          BY <1>2, <2>2, <4>1, Paths DEF Base, Goes
        <5> QED
          BY <3>1, <5>2, <5>3
      <4>2. CASE q # r
        BY <2>1, <2>2, <4>2 DEF Moves
      <4> QED
        BY <4>1, <4>2
    <3> QED
      BY <2>2, <2>4, <3>2 DEF ActivatingSees, Activating
  <2>5. CASE arg[q].scenario \in scenarios
    <3>1. /\ pc[r] = "deleteDoc" /\ arg[q].scenario = arg[r].scenario
          /\ DeletionOf(r, arg[r].scenario)
      BY <1>2, <2>5, ScenariosGo
    <3>2. r # q /\ r \in Live
      BY <2>1, <2>2, <3>1 DEF DeletionOf, DeleteOps, ActivateOps, Moves
    <3> QED
      BY <2>3, <3>1, <3>2, Overlaps
  <2> QED
    BY <2>4, <2>5
<1>3. CASE UNCHANGED vars
  BY <1>3 DEF vars, ActivatingSees, Activating, DeletionOf
<1> QED
  BY <1>1, <1>2, <1>3, NextIs

LEMMA DanglingStep ==
    ASSUME Base, ActivatingSees, Dangling, [Next]_vars
    PROVE  Dangling'
<1>1. ASSUME NEW r \in Requests, Begin(r)
      PROVE  Dangling'
  <2>1. /\ arg[r] = None
        /\ \A q \in Requests \ {r} : arg'[q] = arg[q] /\ pc'[q] = pc[q]
        /\ scenarios' = scenarios /\ mappings' = mappings
    BY <1>1, FirstPlace DEF Base
  <2> SUFFICES ASSUME NEW m \in mappings, m.scenario \notin scenarios
               PROVE  \E d \in Requests : /\ DeletionOf(d, m.scenario)'
                                          /\ \/ ~PastMapping(d)'
                                             \/ d \in overlap'[m.req]
                                             \/ Another(m)'
    BY <2>1 DEF Dangling
  <2>2. PICK d \in Requests : /\ DeletionOf(d, m.scenario)
                              /\ ~PastMapping(d) \/ d \in overlap[m.req] \/ Another(m)
    BY DEF Dangling
  <2>3. d # r /\ DeletionOf(d, m.scenario)' /\ (~PastMapping(d) => ~PastMapping(d)')
    BY <2>1, <2>2 DEF DeletionOf, PastMapping
  <2>4. m.req \in Requests /\ m.req # r
    BY <1>1, FirstPlace DEF Base, Owned, TypeOK, Mapping
  <2>5. Another(m) => Another(m)'
    BY <2>1 DEF Another
  <2> QED
    BY <1>1, <2>2, <2>3, <2>4, <2>5, BeginOverlap
<1>2. ASSUME NEW r \in Requests, LiveStep(r)
      PROVE  Dangling'
  <2>1. Moves(r) /\ arg' = arg /\ overlap' = overlap
    BY <1>2, StepMoves DEF Base, Moves
  <2> SUFFICES ASSUME NEW m \in mappings', m.scenario \notin scenarios'
               PROVE  \E d \in Requests : /\ DeletionOf(d, m.scenario)
                                          /\ \/ ~PastMapping(d)'
                                             \/ d \in overlap[m.req]
                                             \/ Another(m)
    BY <2>1 DEF Dangling, DeletionOf, Another
  <2>2. CASE m \notin mappings
    <3>1. Create(r)
      BY <1>2, <2>2 DEF LiveStep, Fail, Lookup, Check, DeactivateAllAccountSpecificMappings,
         DeactivateByFeatureAndAccount, LookupPrev, InvalidAllKey, InvalidAllKeyError, DeleteByObjectID,
         DeleteByScenarioName, DeleteErrorIgnored, DeleteByScenarioId, FindAccountMapping,
         FindGlobalMapping, GetScenario, CacheGet, FindApi, Fill
    <3>2. m.req = r /\ m.scenario = arg[r].scenario /\ scenarios' = scenarios
      BY <2>2, <3>1 DEF Create, NewMapping
    <3>3. Activating(r)
      BY <3>1, ArgValid, InputAssumption DEF Create, Activating, Base, ControlOK
    <3> QED
      BY <3>2, <3>3 DEF ActivatingSees
  <2>3. CASE m.scenario \in scenarios
    <3>1. DeletionOf(r, m.scenario) /\ pc[r] = "deleteDoc"
      BY <1>2, <2>3, ScenariosGo
    <3>2. pc'[r] \in {"deleteApis", "failed"}
      BY <1>2, <3>1, Paths DEF DeletionOf, Base, Goes
    <3> QED
      BY <3>1, <3>2 DEF PastMapping
  <2>4. CASE m \in mappings /\ m.scenario \notin scenarios
    <3>1. PICK d \in Requests : /\ DeletionOf(d, m.scenario)
                                /\ ~PastMapping(d) \/ d \in overlap[m.req] \/ Another(m)
      BY <2>4 DEF Dangling
    <3>2. CASE d # r \/ d \in overlap[m.req] \/ Another(m) \/ ~PastMapping(d)'
      <4>1. d # r => (~PastMapping(d) => ~PastMapping(d)')
        BY <2>1 DEF Moves, PastMapping
      <4> QED
        BY <3>1, <3>2, <4>1
    <3>3. CASE d = r /\ ~PastMapping(d) /\ PastMapping(d)'
      <4>1. arg[r].op \in DeleteOps /\ arg[r].scenario = m.scenario /\ pc[r] \in Running
        BY <2>1, <3>1, <3>3 DEF DeletionOf, Moves, Live
      <4>2. pc[r] \in {"lookup", "deleteDoc", "deleteApis", "invalidate", "deleteMapping"}
        BY <4>1 DEF Base, Places, StepsOf, DeleteOps, ActivateOps
      <4>3. pc[r] = "deleteMapping" /\ pc'[r] # "failed"
        BY <1>2, <2>1, <3>3, <4>1, <4>2, Paths DEF Base, Goes, PastMapping, DeleteOps
      <4>4. DeleteByScenarioId(r)
        BY <1>2, <4>3 DEF LiveStep, Fail, Lookup, Check, DeactivateAllAccountSpecificMappings,
         DeactivateByFeatureAndAccount, Create, LookupPrev, InvalidAllKey, InvalidAllKeyError, DeleteByObjectID,
         DeleteByScenarioName, DeleteErrorIgnored, FindAccountMapping,
         FindGlobalMapping, GetScenario, CacheGet, FindApi, Fill, Base, TypeOK
      <4>5. PICK n \in mappings : n.scenario = arg[r].scenario /\ n # m
        BY <2>4, <4>1, <4>4 DEF DeleteByScenarioId
      <4>6. /\ n = NewMapping(n.req) /\ m = NewMapping(m.req) /\ n.req \in Requests
            /\ arg[n.req].op \in ActivateOps /\ pc[n.req] # "idle"
        BY <2>4 DEF Base, Owned, TypeOK, Mapping
      <4>7. n.req # m.req /\ arg[n.req].scenario = m.scenario /\ arg[n.req] # None
        BY <4>1, <4>5, <4>6, ArgValid, InputAssumption DEF NewMapping, Base
      <4>8. Another(m)
        BY <4>6, <4>7 DEF Another
      <4> QED
        BY <3>1, <4>8
    <3> QED
      BY <3>1, <3>2, <3>3
  <2> QED
    BY <2>2, <2>3, <2>4
<1>3. CASE UNCHANGED vars
  BY <1>3 DEF vars, Dangling, DeletionOf, PastMapping, Another
<1> QED
  BY <1>1, <1>2, <1>3, NextIs

(* A mapping without its scenario has a deletion to explain it.                   *)
THEOREM DanglingHasReason == Spec => []DanglingExplained
<1>1. Init => Base /\ ActivatingSees /\ Dangling
  <2>1. Init => ActivatingSees /\ Dangling
    BY DEF Init, ActivatingSees, Activating, Dangling
  <2> QED
    BY <2>1, BaseInit
<1>2. Base /\ ActivatingSees /\ Dangling /\ [Next]_vars => Base' /\ ActivatingSees' /\ Dangling'
  BY BaseStep, ActivatingStep, DanglingStep
<1>3. Dangling => DanglingExplained
  BY DEF Dangling, DanglingExplained, DeletionOf, PastMapping, Another
<1> QED
  BY <1>1, <1>2, <1>3, PTL DEF Spec

-------------------------------------------------------------------------------
(***************************************************************************)
(* StaleEntryOnlyFromOverlap.                                              *)
(***************************************************************************)

(* A deletion none of whose errors was ignored.                                 *)
Clean(d) == pc[d] # "idle" /\ d \notin skipped /\ arg[d].op \in DeleteOps

AfterApis(d)       == Clean(d) /\ pc[d] \in {"invalidate", "deleteMapping", "done"}
AfterInvalidate(d) == Clean(d) /\ \/ pc[d] = "done"
                                  \/ arg[d].op = "delete" /\ pc[d] = "deleteMapping"

ApisGone ==
    \A d \in Requests : AfterApis(d) => \A x \in apis : x[2] # NameOf[arg[d].scenario]

(* A call that found the mock API did so before a deletion removed it.             *)
FillSees ==
    \A r, d \in Requests :
        pc[r] = "fill" /\ AfterApis(d) /\ NameOf[target[r]] = NameOf[arg[d].scenario]
        => d \in overlap[r]

EntriesSee ==
    \A e \in cached : /\ pc[e.req] # "idle"
                      /\ \A d \in Requests :
                            AfterInvalidate(d) /\ ApisOf(arg[d].scenario) = <<e.feature, e.name>>
                            => d \in overlap[e.req]

Freshness == ApisGone /\ FillSees /\ EntriesSee

LEMMA BeginFreshness ==
    ASSUME Base, Freshness, NEW r \in Requests, Begin(r)
    PROVE  Freshness'
<1>1. /\ pc[r] = "idle" /\ pc'[r] \in {"lookup", "clearSlot", "findAccount", "findGlobal"}
      /\ \A q \in Requests \ {r} : arg'[q] = arg[q] /\ pc'[q] = pc[q]
      /\ UNCHANGED <<apis, cached, target, skipped>>
  BY FirstPlace DEF Base
<1>2. \A d \in Requests : /\ AfterApis(d)' => AfterApis(d) /\ d # r
                          /\ AfterInvalidate(d)' => AfterInvalidate(d) /\ d # r
  BY <1>1 DEF AfterApis, AfterInvalidate, Clean
<1>3. \A e \in cached : e.req \in Requests /\ e.req # r
  BY <1>1 DEF Freshness, EntriesSee, Base, TypeOK, CacheEntry
<1>4. ApisGone'
  BY <1>1, <1>2 DEF Freshness, ApisGone
<1>5. FillSees'
  BY <1>1, <1>2, BeginOverlap DEF Freshness, FillSees
<1>6. EntriesSee'
  BY <1>1, <1>2, <1>3, BeginOverlap DEF Freshness, EntriesSee
<1> QED
  BY <1>4, <1>5, <1>6 DEF Freshness

(* What a step of r brings a clean deletion past: only r's own.                   *)
LEMMA CleanSteps ==
    ASSUME Base, NEW r \in Requests, LiveStep(r), NEW d \in Requests
    PROVE  /\ AfterApis(d)' => \/ AfterApis(d)
                               \/ d = r /\ DeleteByScenarioName(r) /\ arg[r].op \in DeleteOps
           /\ AfterInvalidate(d)' => \/ AfterInvalidate(d)
                                     \/ d = r /\ InvalidAllKey(r) /\ arg[r].op \in DeleteOps
<1>1. Moves(r) /\ arg' = arg
  BY StepMoves DEF Base, Moves
<1>2. skipped \subseteq skipped' /\ skipped' \subseteq skipped \cup {r}
  BY DEF LiveStep, Fail, Lookup, Check, DeactivateAllAccountSpecificMappings,
         DeactivateByFeatureAndAccount, Create, LookupPrev, InvalidAllKey, InvalidAllKeyError, DeleteByObjectID,
         DeleteByScenarioName, DeleteErrorIgnored, DeleteByScenarioId, FindAccountMapping,
         FindGlobalMapping, GetScenario, CacheGet, FindApi, Fill
<1>3. CASE d # r
  BY <1>1, <1>2, <1>3 DEF Moves, AfterApis, AfterInvalidate, Clean
<1>4. CASE d = r
  <2> SUFFICES ASSUME Clean(r)'
               PROVE  /\ AfterApis(r)' => AfterApis(r) \/ DeleteByScenarioName(r)
                      /\ AfterInvalidate(r)' => AfterInvalidate(r) \/ InvalidAllKey(r)
    BY <1>1, <1>4 DEF AfterApis, AfterInvalidate, Clean
  <2>1. Clean(r) /\ pc[r] \in Running /\ r \notin skipped' /\ arg[r].op \in DeleteOps
    BY <1>1, <1>2 DEF Clean, Moves, Live, Running
  <2>2. pc[r] \in {"lookup", "deleteDoc", "deleteApis", "invalidate", "deleteMapping"}
    BY <2>1 DEF Base, Places, StepsOf, DeleteOps, ActivateOps
  <2>3. pc[r] = "deleteApis" => pc'[r] = "failed" \/ DeleteByScenarioName(r)
    BY <2>1 DEF LiveStep, Fail, Lookup, Check, DeactivateAllAccountSpecificMappings,
         DeactivateByFeatureAndAccount, Create, LookupPrev, InvalidAllKey, InvalidAllKeyError, DeleteByObjectID,
         DeleteErrorIgnored, DeleteByScenarioId, FindAccountMapping,
         FindGlobalMapping, GetScenario, CacheGet, FindApi, Fill, Base, TypeOK
  <2>4. pc[r] = "invalidate" => pc'[r] = "failed" \/ InvalidAllKey(r)
    BY <2>1 DEF LiveStep, Fail, Lookup, Check, DeactivateAllAccountSpecificMappings,
         DeactivateByFeatureAndAccount, Create, LookupPrev, InvalidAllKeyError, DeleteByObjectID,
         DeleteByScenarioName, DeleteErrorIgnored, DeleteByScenarioId, FindAccountMapping,
         FindGlobalMapping, GetScenario, CacheGet, FindApi, Fill, Base, TypeOK
  <2>5. AfterApis(r)' => AfterApis(r) \/ DeleteByScenarioName(r)
    BY <2>1, <2>2, <2>3, Paths DEF Base, Goes, AfterApis
  <2>6. AfterInvalidate(r)' => AfterInvalidate(r) \/ InvalidAllKey(r)
    BY <1>1, <2>1, <2>2, <2>4, Paths DEF Base, Goes, AfterInvalidate, DeleteOps
  <2> QED
    BY <2>5, <2>6
<1> QED
  BY <1>3, <1>4

LEMMA LiveFreshness ==
    ASSUME Base, Freshness, NEW r \in Requests, LiveStep(r)
    PROVE  Freshness'
<1>1. Moves(r) /\ arg' = arg /\ overlap' = overlap
  BY StepMoves DEF Base, Moves
<1>2. apis' \subseteq apis
  BY DEF LiveStep, Fail, Lookup, Check, DeactivateAllAccountSpecificMappings,
         DeactivateByFeatureAndAccount, Create, LookupPrev, InvalidAllKey, InvalidAllKeyError, DeleteByObjectID,
         DeleteByScenarioName, DeleteErrorIgnored, DeleteByScenarioId, FindAccountMapping,
         FindGlobalMapping, GetScenario, CacheGet, FindApi, Fill
<1>3. ApisGone'
  <2> SUFFICES ASSUME NEW d \in Requests, AfterApis(d)', NEW x \in apis'
               PROVE  x[2] # NameOf[arg[d].scenario]
    BY <1>1 DEF ApisGone
  <2>1. CASE AfterApis(d)
    BY <1>2, <2>1 DEF Freshness, ApisGone
  <2>2. CASE ~AfterApis(d)
    <3>1. d = r /\ DeleteByScenarioName(r)
      BY <2>2, CleanSteps
    <3> QED
      BY <3>1 DEF DeleteByScenarioName
  <2> QED
    BY <2>1, <2>2
<1>4. FillSees'
  <2> SUFFICES ASSUME NEW q \in Requests, NEW d \in Requests, pc'[q] = "fill", AfterApis(d)',
                      NameOf[target'[q]] = NameOf[arg[d].scenario]
               PROVE  d \in overlap[q]
    BY <1>1 DEF FillSees
  <2>1. arg[d].op \in DeleteOps
    BY <1>1 DEF AfterApis, Clean
  <2>2. CASE q = r
    <3>1. FindApi(r)
      BY <2>2, NextCallFacts DEF LiveStep, Fail, Lookup, Check, DeactivateAllAccountSpecificMappings,
         DeactivateByFeatureAndAccount, Create, LookupPrev, InvalidAllKey, InvalidAllKeyError, DeleteByObjectID,
         DeleteByScenarioName, DeleteErrorIgnored, DeleteByScenarioId, FindAccountMapping,
         FindGlobalMapping, GetScenario, CacheGet, Fill, Base, TypeOK, ResolvedSteps
    <3>2. <<arg[r].feature, NameOf[target[r]]>> \in apis /\ target' = target
      BY <2>2, <3>1 DEF FindApi, Base, TypeOK
    <3>3. AfterApis(d)
      BY <3>1, CleanSteps DEF FindApi, DeleteByScenarioName
    <3> QED
      BY <2>2, <3>2, <3>3 DEF Freshness, ApisGone
  <2>3. CASE q # r
    <3>1. pc[q] = "fill" /\ target'[q] = target[q]
      BY <1>1, <2>3 DEF Moves, LiveStep, Fail, Lookup, Check, DeactivateAllAccountSpecificMappings,
         DeactivateByFeatureAndAccount, Create, LookupPrev, InvalidAllKey, InvalidAllKeyError, DeleteByObjectID,
         DeleteByScenarioName, DeleteErrorIgnored, DeleteByScenarioId, FindAccountMapping,
         FindGlobalMapping, GetScenario, CacheGet, FindApi, Fill, Base, TypeOK
    <3>2. CASE AfterApis(d)
      BY <3>1, <3>2 DEF Freshness, FillSees
    <3>3. CASE ~AfterApis(d)
      <4>1. d = r
        BY <3>3, CleanSteps
      <4>2. q \in Live /\ r \in Live
        BY <1>1, <3>1 DEF Moves, Live, Running
      <4> QED
        BY <2>3, <4>1, <4>2, Overlaps
    <3> QED
      BY <3>2, <3>3
  <2> QED
    BY <2>2, <2>3
<1>5. EntriesSee'
  <2> SUFFICES ASSUME NEW e \in cached'
               PROVE  /\ pc'[e.req] # "idle"
                      /\ \A d \in Requests :
                            AfterInvalidate(d)' /\ ApisOf(arg[d].scenario) = <<e.feature, e.name>>
                            => d \in overlap[e.req]
    BY <1>1 DEF EntriesSee, ApisOf
  <2>1. CASE e \in cached
    <3>1. pc'[e.req] # "idle"
      BY <1>1, <2>1 DEF Freshness, EntriesSee, Moves, Running, Final, Base, TypeOK, CacheEntry
    <3>2. ASSUME NEW d \in Requests, AfterInvalidate(d)', ApisOf(arg[d].scenario) = <<e.feature, e.name>>
          PROVE  d \in overlap[e.req]
      <4>1. CASE AfterInvalidate(d)
        BY <2>1, <3>2, <4>1 DEF Freshness, EntriesSee
      <4>2. CASE ~AfterInvalidate(d)
        <5>1. d = r /\ InvalidAllKey(r) /\ arg[r].op \in DeleteOps /\ pc[r] # "idle"
          BY <1>1, <3>2, <4>2, CleanSteps DEF Moves, Live, Running
        <5>2. arg[r].feature = FeatureOf[arg[r].scenario] /\ arg[r].op # "activate"
          BY <5>1, ArgValid DEF Base, DeleteOps
        <5>3. Matches(arg[r], e)
          BY <3>2, <5>1, <5>2 DEF Matches, ApisOf
        <5> QED
          BY <5>1, <5>3 DEF InvalidAllKey
      <4> QED
        BY <4>1, <4>2
    <3> QED
      BY <3>1, <3>2
  <2>2. CASE e \notin cached
    <3>1. Fill(r)
      BY <2>2 DEF LiveStep, Fail, Lookup, Check, DeactivateAllAccountSpecificMappings,
         DeactivateByFeatureAndAccount, Create, LookupPrev, InvalidAllKey, InvalidAllKeyError, DeleteByObjectID,
         DeleteByScenarioName, DeleteErrorIgnored, DeleteByScenarioId, FindAccountMapping,
         FindGlobalMapping, GetScenario, CacheGet, FindApi
    <3>2. pc[r] = "fill" /\ e.req = r /\ e.name = NameOf[target[r]]
      BY <2>2, <3>1 DEF Fill
    <3>3. pc'[e.req] # "idle"
      BY <1>1, <3>2 DEF Moves, Running, Final
    <3>4. ASSUME NEW d \in Requests, AfterInvalidate(d)', ApisOf(arg[d].scenario) = <<e.feature, e.name>>
          PROVE  d \in overlap[e.req]
      <4>1. AfterInvalidate(d)
        BY <3>2, <3>4, CleanSteps DEF InvalidAllKey
      <4>2. AfterApis(d) /\ NameOf[arg[d].scenario] = e.name
        BY <3>4, <4>1 DEF AfterApis, AfterInvalidate, ApisOf
      <4> QED
        BY <3>2, <4>2 DEF Freshness, FillSees
    <3> QED
      BY <3>3, <3>4
  <2> QED
    BY <2>1, <2>2
<1> QED
  BY <1>3, <1>4, <1>5 DEF Freshness

LEMMA FreshnessStep ==
    ASSUME Base, Freshness, [Next]_vars
    PROVE  Freshness'
<1>1. CASE UNCHANGED vars
  BY <1>1 DEF vars, Freshness, ApisGone, FillSees, EntriesSee, AfterApis, AfterInvalidate, Clean, ApisOf
<1> QED
  BY <1>1, NextIs, BeginFreshness, LiveFreshness

(* A deletion that returns without an ignored error leaves only the entries of calls  *)
(* that were in flight during it.                                             *)
THEOREM StaleEntriesHaveReason == Spec => []StaleEntryOnlyFromOverlap
<1>1. Init => Base /\ Freshness
  <2>1. Init => Freshness
    BY DEF Init, Freshness, ApisGone, FillSees, EntriesSee, AfterApis, Clean
  <2> QED
    BY <2>1, BaseInit
<1>2. Base /\ Freshness /\ [Next]_vars => Base' /\ Freshness'
  BY BaseStep, FreshnessStep
<1>3. Freshness => StaleEntryOnlyFromOverlap
  BY DEF Freshness, EntriesSee, AfterInvalidate, Clean, StaleEntryOnlyFromOverlap
<1> QED
  BY <1>1, <1>2, <1>3, PTL DEF Spec

-------------------------------------------------------------------------------
(***************************************************************************)
(* GlobalActivationReachesEveryone.                                        *)
(***************************************************************************)

(* A global activation that has cleared the accounts meets only mappings of   *)
(* requests that overlap it.                                               *)
GlobalRun(r) == /\ arg[r] # None /\ arg[r].op \in ActivateOps /\ arg[r].slot = Global
                /\ pc[r] \in {"clearSlot", "create"}
AccountsCleared ==
    \A r \in Requests : GlobalRun(r) =>
        \A m \in mappings : m.feature = arg[r].feature /\ m.slot # Global => m.req \in overlap[r]

(* A step adds no mapping but the one of an activation that inserts it.        *)
LEMMA MappingsGrow ==
    ASSUME Base, NEW r \in Requests, LiveStep(r), NEW m \in mappings', m \notin mappings
    PROVE  Create(r) /\ m.req = r
BY DEF LiveStep, Fail, Lookup, Check, DeactivateAllAccountSpecificMappings,
       DeactivateByFeatureAndAccount, Create, NewMapping, LookupPrev, InvalidAllKey, InvalidAllKeyError,
       DeleteByObjectID, DeleteByScenarioName, DeleteErrorIgnored, DeleteByScenarioId, FindAccountMapping,
       FindGlobalMapping, GetScenario, CacheGet, FindApi, Fill

LEMMA AccountsStep ==
    ASSUME Base, AccountsCleared, [Next]_vars
    PROVE  AccountsCleared'
<1>1. ASSUME NEW r \in Requests, Begin(r)
      PROVE  AccountsCleared'
  <2>1. /\ pc'[r] \in {"lookup", "clearSlot", "findAccount", "findGlobal"}
        /\ pc'[r] = "clearSlot" => arg'[r].op \in ClearOps
        /\ \A q \in Requests \ {r} : arg'[q] = arg[q] /\ pc'[q] = pc[q]
        /\ mappings' = mappings
    BY <1>1, FirstPlace DEF Base
  <2>2. \A q \in Requests : GlobalRun(q)' => q # r /\ GlobalRun(q)
    BY <2>1 DEF GlobalRun, ActivateOps, ClearOps
  <2> QED
    BY <1>1, <2>1, <2>2, BeginOverlap DEF AccountsCleared
<1>2. ASSUME NEW r \in Requests, LiveStep(r)
      PROVE  AccountsCleared'
  <2>1. Moves(r) /\ arg' = arg /\ overlap' = overlap
    BY <1>2, StepMoves DEF Base, Moves
  <2> SUFFICES ASSUME NEW q \in Requests, GlobalRun(q)', NEW m \in mappings',
                      m.feature = arg[q].feature, m.slot # Global
               PROVE  m.req \in overlap[q]
    BY <2>1 DEF AccountsCleared
  <2>2. arg[q] # None /\ arg[q].op \in ActivateOps /\ arg[q].slot = Global /\ pc'[q] \in {"clearSlot", "create"}
    BY <2>1 DEF GlobalRun
  <2>3. q \in Live
    BY <2>1, <2>2 DEF Moves, Live, Running
  <2>4. CASE m \notin mappings
    <3>1. Create(r) /\ m.req = r /\ r \in Live
      BY <1>2, <2>1, <2>4, MappingsGrow DEF Moves
    <3>2. r # q
      <4>1. Create(r) => NewMapping(r).slot = arg[r].slot /\ m = NewMapping(r)
        BY <2>4 DEF Create, NewMapping
      <4> QED
        BY <2>2, <3>1, <4>1
    <3> QED
      BY <2>3, <3>1, <3>2, Overlaps
  <2>5. CASE m \in mappings /\ GlobalRun(q)
    BY <2>5 DEF AccountsCleared
  <2>6. CASE m \in mappings /\ ~GlobalRun(q)
    <3>1. q = r /\ pc[q] \notin {"clearSlot", "create"}
      BY <2>1, <2>2, <2>6 DEF GlobalRun, Moves
    <3>2. pc[q] = "clearAccounts"
      <4>1. pc[q] \in {"lookup", "clearAccounts", "clearSlot", "create", "lookupPrev", "invalidate"}
        BY <2>2, <2>3 DEF Base, Places, Live, StepsOf, ActivateOps, DeleteOps
      <4>2. pc[q] \notin {"lookupPrev", "invalidate"}
        BY <1>2, <2>2, <3>1, Paths DEF Base, Goes
      <4>3. pc[q] # "lookup"
        <5>1. SUFFICES ASSUME pc[q] = "lookup" PROVE FALSE
          OBVIOUS
        <5>2. Lookup(q) \/ Fail(q)
          BY <1>2, <3>1, <5>1 DEF LiveStep, Check, DeactivateAllAccountSpecificMappings,
             DeactivateByFeatureAndAccount, Create, LookupPrev, InvalidAllKey, InvalidAllKeyError, DeleteByObjectID,
             DeleteByScenarioName, DeleteErrorIgnored, DeleteByScenarioId, FindAccountMapping,
             FindGlobalMapping, GetScenario, CacheGet, FindApi, Fill
        <5>3. NextCall(q) = "clearAccounts"
          BY <2>2, <5>1 DEF NextCall, ActivateOps, ActivateScenario, ActivateScenarioTool
        <5>4. pc'[q] \in {"clearAccounts", "failed"}
          BY <5>2, <5>3 DEF Lookup, Fail, Base, TypeOK
        <5> QED
          BY <2>2, <5>4
      <4> QED
        BY <3>1, <4>1, <4>2, <4>3
    <3>3. DeactivateAllAccountSpecificMappings(q)
      <4>1. ~Fail(q)
        BY <2>2 DEF Fail, Base, TypeOK
      <4> QED
        BY <1>2, <3>1, <3>2, <4>1 DEF LiveStep, Lookup, Check,
             DeactivateByFeatureAndAccount, Create, LookupPrev, InvalidAllKey, InvalidAllKeyError, DeleteByObjectID,
             DeleteByScenarioName, DeleteErrorIgnored, DeleteByScenarioId, FindAccountMapping,
             FindGlobalMapping, GetScenario, CacheGet, FindApi, Fill
    <3> QED
      BY <3>3 DEF DeactivateAllAccountSpecificMappings
  <2> QED
    BY <2>4, <2>5, <2>6
<1>3. CASE UNCHANGED vars
  BY <1>3 DEF vars, AccountsCleared, GlobalRun
<1> QED
  BY <1>1, <1>2, <1>3, NextIs

LEMMA CreateReaches ==
    ASSUME Base, AccountsCleared, [Next]_vars, NEW r \in Requests
    PROVE  ReachesEveryone(r)
<1> SUFFICES ASSUME pc[r] = "create", Stepping(r), pc'[r] # "failed", arg[r].slot = Global
             PROVE  \A k \in Slots :
                        \/ Resolved(arg[r].feature, k)' = {arg[r].scenario}
                        \/ \E m \in mappings' : /\ m.feature = arg[r].feature
                                                /\ m.slot \in {k, Global} /\ m.req \in overlap[r]
  BY DEF ReachesEveryone
<1>1. LiveStep(r)
  <2>1. ASSUME NEW q \in Requests, LiveStep(q) PROVE q = r
    BY <2>1, StepMoves DEF Base, Moves, Stepping
  <2>2. ASSUME NEW q \in Requests, Begin(q) PROVE FALSE
    BY <2>2, FirstPlace DEF Base, Stepping
  <2>3. ~UNCHANGED vars
    BY DEF vars, Stepping
  <2> QED
    BY <2>1, <2>2, <2>3, NextIs
<1>2. Create(r)
  <2>1. ~Fail(r)
    BY DEF Fail, Base, TypeOK
  <2> QED
    BY <1>1, <2>1 DEF LiveStep, Lookup, Check, DeactivateAllAccountSpecificMappings,
       DeactivateByFeatureAndAccount, LookupPrev, InvalidAllKey, InvalidAllKeyError, DeleteByObjectID,
       DeleteByScenarioName, DeleteErrorIgnored, DeleteByScenarioId, FindAccountMapping,
       FindGlobalMapping, GetScenario, CacheGet, FindApi, Fill
<1>3. \A m \in mappings : m.feature = arg[r].feature => m.req \in overlap[r]
  <2>1. GlobalRun(r)
    BY ArgValid, InputAssumption DEF GlobalRun, Base, ControlOK
  <2>2. \A m \in mappings : m.feature = arg[r].feature /\ m.slot # Global => m.req \in overlap[r]
    BY <2>1 DEF AccountsCleared
  <2>3. \A m \in mappings : m.feature = arg[r].feature /\ m.slot = Global => m.req \in overlap[r]
    BY DEF Base, Separation, OnlyOverlapSinceClear
  <2> QED
    BY <2>2, <2>3
<1>4. /\ mappings' = mappings \cup {NewMapping(r)}
      /\ NewMapping(r).feature = arg[r].feature /\ NewMapping(r).slot = Global
      /\ NewMapping(r).scenario = arg[r].scenario
  BY <1>2 DEF Create, NewMapping
<1>5. ASSUME NEW k \in Slots,
             \A m \in mappings : ~(m.feature = arg[r].feature /\ m.slot \in {k, Global})
      PROVE  Resolved(arg[r].feature, k)' = {arg[r].scenario}
  <2>1. arg'[r] = arg[r]
    BY <1>2 DEF Create
  <2>2. MappingsOf(arg[r].feature, k)' = IF k = Global THEN {NewMapping(r)} ELSE {}
    BY <1>4, <1>5, <2>1 DEF MappingsOf
  <2>3. MappingsOf(arg[r].feature, Global)' = {NewMapping(r)}
    BY <1>4, <1>5, <2>1 DEF MappingsOf
  <2> QED
    BY <1>4, <2>1, <2>2, <2>3 DEF Resolved
<1>6. \A m \in mappings : m \in mappings'
  BY <1>4
<1> QED
  BY <1>3, <1>5, <1>6

(* A global activation reaches every account, however many, but those that an      *)
(* activation overlapping it has given a mapping.                                 *)
THEOREM GlobalActivationsReach == Spec => GlobalActivationReachesEveryone
<1>1. Init => Base /\ AccountsCleared
  <2>1. Init => AccountsCleared
    BY DEF Init, AccountsCleared
  <2> QED
    BY <2>1, BaseInit
<1>2. Base /\ AccountsCleared /\ [Next]_vars => Base' /\ AccountsCleared'
  BY BaseStep, AccountsStep
<1>3. Base /\ AccountsCleared /\ [Next]_vars => [\A r \in Requests : ReachesEveryone(r)]_vars
  BY CreateReaches
<1> QED
  BY <1>1, <1>2, <1>3, PTL DEF Spec, GlobalActivationReachesEveryone

-------------------------------------------------------------------------------
(***************************************************************************)
(* SetInactiveSparesOthers.                                                *)
(***************************************************************************)

(* What set_scenario_inactive is about to delete is as the property allows.    *)
Inactivating(r) == /\ arg[r] # None /\ arg[r].op = "setInactiveTool"
                   /\ pc[r] = "clearSlot"
Allowed(r, m) ==
    \/ m.scenario = arg[r].scenario
    \/ m.req \in overlap[r]
    \/ \E q \in overlap[m.req] : /\ arg[q] # None /\ arg[q].op \in ActivateOps
                                 /\ arg[q].scenario = arg[r].scenario
Sparing == \A r \in Requests : Inactivating(r) =>
               \A m \in MappingsOf(arg[r].feature, Global) : Allowed(r, m)

LEMMA SparingStep ==
    ASSUME Base, Sparing, [Next]_vars
    PROVE  Sparing'
<1>1. ASSUME NEW r \in Requests, Begin(r)
      PROVE  Sparing'
  <2>1. /\ arg[r] = None
        /\ pc'[r] = "clearSlot" => arg'[r].op \notin ScenarioOps
        /\ \A q \in Requests \ {r} : arg'[q] = arg[q] /\ pc'[q] = pc[q]
        /\ mappings' = mappings
    <3>1. PICK a \in ValidInputs : /\ arg' = [arg EXCEPT ![r] = a]
                                   /\ pc' = [pc EXCEPT ![r] = FirstCall(a)]
      BY <1>1 DEF Begin
    <3>2. FirstCall(a) = "clearSlot" => a.op \notin ScenarioOps
      BY DEF FirstCall, ScenarioOps, ActivateOps, DeleteOps
    <3> QED
      BY <1>1, <3>1, <3>2, FirstPlace DEF Base, TypeOK
  <2>2. \A q \in Requests : Inactivating(q)' => q # r /\ Inactivating(q)
    BY <2>1 DEF Inactivating, ScenarioOps
  <2>3. ASSUME NEW q \in Requests \ {r}, NEW m \in mappings, Allowed(q, m)
        PROVE  Allowed(q, m)'
    <3>1. m.req \in Requests \ {r}
      BY <1>1, FirstPlace DEF Base, Owned, TypeOK, Mapping
    <3>2. overlap[q] \subseteq overlap'[q] /\ overlap[m.req] \subseteq overlap'[m.req]
      BY <1>1, <3>1, BeginOverlap
    <3>3. \A p \in overlap[m.req] : p \in Requests
      BY <3>1 DEF Base, TypeOK
    <3> QED
      BY <2>1, <2>3, <3>2, <3>3 DEF Allowed
  <2>4. \A q \in Requests \ {r} : MappingsOf(arg[q].feature, Global)' = MappingsOf(arg[q].feature, Global)
    BY <2>1 DEF MappingsOf
  <2>5. \A q \in Requests : MappingsOf(arg[q].feature, Global) \subseteq mappings
    BY DEF MappingsOf
  <2> QED
    BY <2>2, <2>3, <2>4, <2>5 DEF Sparing
<1>2. ASSUME NEW r \in Requests, LiveStep(r)
      PROVE  Sparing'
  <2>1. Moves(r) /\ arg' = arg /\ overlap' = overlap
    BY <1>2, StepMoves DEF Base, Moves
  <2> SUFFICES ASSUME NEW q \in Requests, Inactivating(q)', NEW m \in mappings',
                      m.feature = arg[q].feature, m.slot = Global
               PROVE  Allowed(q, m)
    BY <2>1 DEF Sparing, Allowed, MappingsOf
  <2>2. arg[q] # None /\ arg[q].op = "setInactiveTool" /\ pc'[q] = "clearSlot"
    BY <2>1 DEF Inactivating
  <2>3. q \in Live
    BY <2>1, <2>2 DEF Moves, Live, Running
  <2>4. CASE m \notin mappings
    <3>1. Create(r) /\ m.req = r /\ r \in Live
      BY <1>2, <2>1, <2>4, MappingsGrow DEF Moves
    <3>2. r # q
      BY <2>2, <3>1 DEF Create, Base, ControlOK, ActivateOps
    <3> QED
      BY <2>3, <3>1, <3>2, Overlaps DEF Allowed
  <2>5. CASE m \in mappings /\ Inactivating(q)
    BY <2>5 DEF Sparing, MappingsOf
  <2>6. CASE m \in mappings /\ ~Inactivating(q)
    <3>1. q = r /\ pc[q] # "clearSlot"
      BY <2>1, <2>2, <2>6 DEF Inactivating, Moves
    <3>2. Check(q)
      <4>1. pc[q] \in {"lookup", "check", "invalidate"}
        BY <2>2, <2>3, <3>1 DEF Base, Places, Live, StepsOf, ActivateOps, DeleteOps, ClearOps
      <4>2. pc[q] = "check"
        BY <1>2, <2>2, <3>1, <4>1, Paths DEF Base, Goes, ClearOps
      <4>3. ~Fail(q)
        BY <2>2 DEF Fail, Base, TypeOK
      <4> QED
        BY <1>2, <3>1, <4>2, <4>3 DEF LiveStep, Lookup, DeactivateAllAccountSpecificMappings,
           DeactivateByFeatureAndAccount, Create, LookupPrev, InvalidAllKey, InvalidAllKeyError, DeleteByObjectID,
           DeleteByScenarioName, DeleteErrorIgnored, DeleteByScenarioId, FindAccountMapping,
           FindGlobalMapping, GetScenario, CacheGet, FindApi, Fill
    <3>3. PICK n \in mappings : n.feature = arg[q].feature /\ n.slot = Global /\ n.scenario = arg[q].scenario
      BY <2>2, <3>2 DEF Check, MappingsOf, Base, TypeOK
    <3>4. CASE m = n
      BY <3>3, <3>4 DEF Allowed
    <3>5. CASE m # n
      <4>1. n.req \in overlap[m.req]
        BY <2>6, <3>3, <3>5 DEF Base, Separation, DuplicatesOnlyFromOverlap
      <4>2. n = NewMapping(n.req) /\ arg[n.req].op \in ActivateOps /\ pc[n.req] # "idle" /\ n.req \in Requests
        BY DEF Base, Owned, TypeOK, Mapping
      <4>3. arg[n.req].scenario = arg[q].scenario /\ arg[n.req] # None
        BY <3>3, <4>2, ArgValid, InputAssumption DEF NewMapping, Base
      <4> QED
        BY <4>1, <4>2, <4>3 DEF Allowed
    <3> QED
      BY <3>4, <3>5
  <2> QED
    BY <2>4, <2>5, <2>6
<1>3. CASE UNCHANGED vars
  BY <1>3 DEF vars, Sparing, Inactivating, Allowed, MappingsOf
<1> QED
  BY <1>1, <1>2, <1>3, NextIs

LEMMA StepSpares ==
    ASSUME Base, Sparing, [Next]_vars, NEW r \in Requests
    PROVE  SparesOthers(r)
<1> SUFFICES ASSUME Stepping(r), arg[r] # None, arg[r].op = "setInactiveTool",
                    NEW m \in mappings \ mappings'
             PROVE  Allowed(r, m)
  BY DEF SparesOthers, Allowed
<1>1. LiveStep(r)
  <2>1. ASSUME NEW q \in Requests, LiveStep(q) PROVE q = r
    BY <2>1, StepMoves DEF Base, Moves, Stepping
  <2>2. ASSUME NEW q \in Requests, Begin(q) PROVE FALSE
    BY <2>2, FirstPlace DEF Base, Stepping
  <2>3. ~UNCHANGED vars
    BY DEF vars, Stepping
  <2> QED
    BY <2>1, <2>2, <2>3, NextIs
<1>2. pc[r] \in Running
  BY <1>1, StepMoves DEF Base, Moves, Live
<1>3. \/ DeactivateByFeatureAndAccount(r)
      \/ DeactivateAllAccountSpecificMappings(r)
      \/ DeleteByScenarioId(r)
  BY <1>1 DEF LiveStep, Fail, Lookup, Check, Create, LookupPrev, InvalidAllKey, InvalidAllKeyError,
     DeleteByObjectID, DeleteByScenarioName, DeleteErrorIgnored, FindAccountMapping,
     FindGlobalMapping, GetScenario, CacheGet, FindApi, Fill
<1>4. DeactivateByFeatureAndAccount(r)
  BY <1>2, <1>3, PlaceOf DEF DeactivateAllAccountSpecificMappings, DeleteByScenarioId, Base,
     ActivateOps, DeleteOps
<1>5. m \in MappingsOf(arg[r].feature, Global) /\ pc[r] = "clearSlot"
  BY <1>2, <1>4, ArgValid DEF DeactivateByFeatureAndAccount, Base, Running
<1> QED
  BY <1>5 DEF Sparing, Inactivating

(* set_scenario_inactive deletes another scenario's mapping only in a race.     *)
THEOREM InactiveSparesOthers == Spec => SetInactiveSparesOthers
<1>1. Init => Base /\ Sparing
  <2>1. Init => Sparing
    BY DEF Init, Sparing, Inactivating
  <2> QED
    BY <2>1, BaseInit
<1>2. Base /\ Sparing /\ [Next]_vars => Base' /\ Sparing'
  BY BaseStep, SparingStep
<1>3. Base /\ Sparing /\ [Next]_vars => [\A r \in Requests : SparesOthers(r)]_vars
  BY StepSpares
<1> QED
  BY <1>1, <1>2, <1>3, PTL DEF Spec, SetInactiveSparesOthers
-------------------------------------------------------------------------------
(***************************************************************************)
(* FallbackExplained.                                                      *)
(***************************************************************************)

(* The only way to the read of the global mapping, for a call of an account:   *)
(* the query for the account's own mapping found none, or failed.            *)
LEMMA GoesGlobal ==
    ASSUME Base, NEW r \in Requests, LiveStep(r), pc'[r] = "findGlobal"
    PROVE  /\ mappings' = mappings
           /\ MappingsOf(arg[r].feature, arg[r].slot) = {} \/ r \in skipped'
<1>1. arg[r].op = "forward" /\ pc[r] \in ForwardSteps
  <2>1. pc[r] \in Running /\ pc[r] \in StepsOf(arg[r]) /\ arg[r].op \in AllOps
    BY StepMoves, ArgValid DEF Base, Moves, Live, Places, Running
  <2>2. arg[r].op = "forward" => pc[r] \in ForwardSteps
    BY <2>1, Zenon DEF StepsOf, ActivateOps, DeleteOps
  <2>3. pc'[r] \notin {"clearAccounts", "clearSlot", "create", "lookupPrev", "invalidate", "check",
                       "deleteDoc", "deleteApis", "deleteMapping", "done", "failed"}
    OBVIOUS
  <2>4. CASE arg[r].op \in ActivateOps
    <3>1. pc[r] \in {"lookup", "clearAccounts", "clearSlot", "create", "lookupPrev", "invalidate"}
      BY <2>1, <2>4 DEF StepsOf, ActivateOps, DeleteOps
    <3> QED
      BY <2>3, <2>4, <3>1, Paths DEF Base, Goes
  <2>5. CASE arg[r].op \in DeleteOps
    BY <2>1, <2>3, <2>5, Paths DEF Base, Goes, StepsOf, ActivateOps, DeleteOps
  <2>6. CASE arg[r].op \in ClearOps
    BY <2>1, <2>3, <2>6, Paths DEF Base, Goes, StepsOf, ActivateOps, ClearOps
  <2> QED
    BY <2>1, <2>2, <2>4, <2>5, <2>6 DEF AllOps
<1>2. FindAccountMapping(r)
  BY <1>1 DEF LiveStep, Fail, Lookup, Check, DeactivateAllAccountSpecificMappings,
     DeactivateByFeatureAndAccount, Create, LookupPrev, InvalidAllKey, InvalidAllKeyError, DeleteByObjectID,
     DeleteByScenarioName, DeleteErrorIgnored, DeleteByScenarioId, FindGlobalMapping, GetScenario,
     CacheGet, FindApi, Fill, Base, TypeOK, ForwardSteps, ResolvedSteps
<1> QED
  BY <1>2 DEF FindAccountMapping, Base, TypeOK

LEMMA SkippedStays ==
    ASSUME NEW r \in Requests, LiveStep(r)
    PROVE  skipped \subseteq skipped'
BY DEF LiveStep, Fail, Lookup, Check, DeactivateAllAccountSpecificMappings,
     DeactivateByFeatureAndAccount, Create, LookupPrev, InvalidAllKey, InvalidAllKeyError, DeleteByObjectID,
     DeleteByScenarioName, DeleteErrorIgnored, DeleteByScenarioId, FindAccountMapping,
     FindGlobalMapping, GetScenario, CacheGet, FindApi, Fill

LEMMA FallbackStep ==
    ASSUME Base, FallbackExplained, [Next]_vars
    PROVE  FallbackExplained'
<1>1. ASSUME NEW r \in Requests, Begin(r)
      PROVE  FallbackExplained'
  <2>1. pc'[r] = "findGlobal" => arg'[r].slot = Global
    <3>1. PICK a \in ValidInputs : /\ arg' = [arg EXCEPT ![r] = a]
                                   /\ pc' = [pc EXCEPT ![r] = FirstCall(a)]
      BY <1>1 DEF Begin
    <3>2. FirstCall(a) = "findGlobal" => a.slot = Global
      BY DEF FirstCall
    <3> QED
      BY <3>1, <3>2 DEF Base, TypeOK
  <2>2. ASSUME NEW q \in Requests \ {r}
        PROVE  overlap[q] \subseteq overlap'[q] /\ arg'[q] = arg[q] /\ pc'[q] = pc[q]
    BY <1>1, FirstPlace, BeginOverlap DEF Base
  <2>3. mappings' = mappings /\ skipped' = skipped
    BY <1>1, FirstPlace DEF Base
  <2> QED
    BY <2>1, <2>2, <2>3 DEF FallbackExplained, MappingsOf
<1>2. ASSUME NEW r \in Requests, LiveStep(r)
      PROVE  FallbackExplained'
  <2>1. Moves(r) /\ arg' = arg /\ overlap' = overlap /\ skipped \subseteq skipped'
    BY <1>2, StepMoves, SkippedStays DEF Base, Moves
  <2> SUFFICES ASSUME NEW q \in Requests, pc'[q] = "findGlobal", q \notin skipped',
                      arg[q].slot # Global,
                      NEW m \in mappings', m.feature = arg[q].feature, m.slot = arg[q].slot
               PROVE  m.req \in overlap[q]
    BY <2>1 DEF FallbackExplained, MappingsOf
  <2>2. CASE q = r
    <3>1. mappings' = mappings /\ MappingsOf(arg[r].feature, arg[r].slot) = {}
      BY <1>2, <2>2, GoesGlobal
    <3> QED
      BY <2>2, <3>1 DEF MappingsOf
  <2>3. CASE q # r
    <3>1. pc[q] = "findGlobal" /\ q \notin skipped /\ q \in Live
      BY <2>1, <2>3 DEF Moves, Live, Running
    <3>2. CASE m \in mappings
      BY <3>1, <3>2 DEF FallbackExplained, MappingsOf
    <3>3. CASE m \notin mappings
      <4>1. m.req = r /\ r \in Live
        BY <1>2, <2>1, <3>3, MappingsGrow DEF Moves
      <4> QED
        BY <2>3, <3>1, <4>1, Overlaps
    <3> QED
      BY <3>2, <3>3
  <2> QED
    BY <2>2, <2>3
<1>3. CASE UNCHANGED vars
  BY <1>3 DEF vars, FallbackExplained, MappingsOf
<1> QED
  BY <1>1, <1>2, <1>3, NextIs

(* The two reads of GetActiveScenario answer like one, for any number of       *)
(* requests and accounts: an own mapping that a fallback misses was inserted   *)
(* by an activation that overlapped the call, or the query for it failed.    *)
THEOREM FallbackHasReason == Spec => []FallbackExplained
<1>1. Init => Base /\ FallbackExplained
  <2>1. Init => FallbackExplained
    BY DEF Init, FallbackExplained
  <2> QED
    BY <2>1, BaseInit
<1>2. Base /\ FallbackExplained /\ [Next]_vars => Base' /\ FallbackExplained'
  BY BaseStep, FallbackStep
<1> QED
  BY <1>1, <1>2, PTL DEF Spec
===============================================================================
