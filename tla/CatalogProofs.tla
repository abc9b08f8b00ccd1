----------------------------- MODULE CatalogProofs -----------------------------
(***************************************************************************)
(* Proofs about module Catalog, for any admins, names, documents and page      *)
(* sizes, and any number of calls.                                            *)
(***************************************************************************)
EXTENDS Catalog, FiniteSetTheorems, TLAPS

-------------------------------------------------------------------------------
(***************************************************************************)
(* Types.                                                                    *)
(***************************************************************************)

Jobs == Creating \cup Deleting \cup Setting
DocsOK ==
    /\ features \in [FeatureIds -> FeatureDocs \cup {None}]
    /\ scenarios \in [ScenarioIds -> ScenarioDocs \cup {None}]
    /\ mocks \subseteq Names
    /\ global \in [Names -> ScenarioIds \cup {None}]
ControlOK ==
    /\ job \in [Admins -> Jobs \cup {None}]
    /\ clock \in Nat /\ calls \in 0..MaxHandlers
    /\ blamed \subseteq Names
BrowseOK == browse = None \/ browse \in Browsing

LEMMA TypeParts == TypeOK <=> DocsOK /\ ControlOK /\ BrowseOK
BY DEF TypeOK, DocsOK, ControlOK, BrowseOK, Jobs

(* What an admin works at.                                                     *)
LEMMA JobOf ==
    ASSUME ControlOK, NEW a \in Admins
    PROVE  /\ Doing(a, "feature") => job[a].name \in Names /\ job[a].at \in Nat
           /\ Doing(a, "scenario") => /\ job[a].name \in Names /\ job[a].at \in Nat
                                      /\ job[a].scenario \in ScenarioNames
           /\ Doing(a, "set active") => job[a].id \in FeatureIds /\ job[a].active \in BOOLEAN
           /\ \A op \in Cascade \cup {"delete"} :
                  Doing(a, op) => job[a] \in Deleting /\ job[a].name \in Names \cup {None}
                                  /\ job[a].id \in FeatureIds
<1>1. job[a] \in Jobs \cup {None}
  BY DEF ControlOK
<1> QED
  BY <1>1 DEF Doing, Jobs, Creating, Deleting, Setting, Cascade

LEMMA Continued ==
    ASSUME ControlOK, NEW a \in Admins, job[a] \in Deleting, NEW op \in Cascade
    PROVE  Continue(a, op) \in [Admins -> Jobs \cup {None}]
<1>1. [job[a] EXCEPT !.op = op] \in Deleting
  BY DEF Deleting, Cascade
<1> QED
  BY <1>1 DEF Continue, ControlOK, Jobs

LEMMA Finished ==
    ASSUME ControlOK, NEW a \in Admins
    PROVE  Finish(a) \in [Admins -> Jobs \cup {None}]
BY DEF Finish, ControlOK

LEMMA Starts ==
    ASSUME ControlOK, NEW a \in Admins, NEW j \in Jobs
    PROVE  [job EXCEPT ![a] = j] \in [Admins -> Jobs \cup {None}]
BY DEF ControlOK

LEMMA CallType ==
    ASSUME ControlOK, Call
    PROVE  calls' \in 0..MaxHandlers
BY BoundAssumption DEF ControlOK, Call

(* The steps of the client change nothing else, and those of the admins at most excuse it.  *)
ClientStep ==
    \/ \E list \in Lists, http \in BOOLEAN, size \in Sizes : Browse(list, http, size)
    \/ ListScenariosByFeature \/ Count \/ FindManyWithPagination \/ ListFails \/ Leave
HandlerStep(a) ==
    \/ \E n \in Names : \/ CreateNewFeature(a, n)
                        \/ \E s \in ScenarioNames :
                               CreateNewScenariosByFeature(a, n, s) \/ ToolCreateScenario(a, n, s)
    \/ CreateFeature(a) \/ CreateScenario(a)
    \/ \E i \in FeatureIds, yes \in BOOLEAN :
        \/ FindToSet(a, i, yes)
        \/ \E error \in BOOLEAN : FindToDelete(a, i, yes, error)
    \/ SetActive(a)
    \/ DeleteById(a) \/ DeleteScenarios(a) \/ DeleteMocks(a)
    \/ Stop(a)
DirectStep ==
    \/ \E n \in Names, active \in BOOLEAN :
        \/ ToolCreateFeature(n, active)
        \/ \E i \in FeatureIds : UpdateFeature(i, n, active)
    \/ \E n \in Names : CreateMockAPI(n)
    \/ \E i \in ScenarioIds : ActivateScenario(i) \/ \E s \in ScenarioNames : UpdateScenarioByFeature(i, s)

LEMMA NextIs == Next <=> (\E a \in Admins : HandlerStep(a)) \/ DirectStep \/ ClientStep
BY DEF Next, HandlerStep, DirectStep, ClientStep

LEMMA InsertFeatureType ==
    ASSUME DocsOK, NEW doc \in FeatureDocs, InsertFeature(doc)
    PROVE  DocsOK'
BY DEF InsertFeature, FreshFeatures, Least, DocsOK

LEMMA HandlerType ==
    ASSUME DocsOK, ControlOK, NEW a \in Admins, HandlerStep(a)
    PROVE  DocsOK' /\ ControlOK'
<1>1. ASSUME NEW n \in Names, CreateNewFeature(a, n)
      PROVE  DocsOK' /\ ControlOK'
  <2>1. clock' \in Nat
    BY <1>1 DEF CreateNewFeature, Now, ControlOK
  <2>2. [op |-> "feature", name |-> n, at |-> clock'] \in Jobs
    BY <2>1 DEF Jobs, Creating
  <2>3. job' \in [Admins -> Jobs \cup {None}]
    BY <1>1, <2>2, Starts DEF CreateNewFeature
  <2> QED
    BY <1>1, <2>1, <2>3, CallType DEF CreateNewFeature, Reads, docs, DocsOK, ControlOK
<1>2. ASSUME NEW n \in Names, NEW s \in ScenarioNames,
             CreateNewScenariosByFeature(a, n, s) \/ ToolCreateScenario(a, n, s)
      PROVE  DocsOK' /\ ControlOK'
  <2>1. clock' \in Nat
    BY <1>2 DEF CreateNewScenariosByFeature, ToolCreateScenario, Now, ControlOK
  <2>2. [op |-> "scenario", name |-> n, scenario |-> s, at |-> clock'] \in Jobs
    BY <2>1 DEF Jobs, Creating
  <2>3. job' \in [Admins -> Jobs \cup {None}]
    BY <1>2, <2>2, Starts DEF CreateNewScenariosByFeature, ToolCreateScenario
  <2> QED
    BY <1>2, <2>1, <2>3, CallType
       DEF CreateNewScenariosByFeature, ToolCreateScenario, Reads, docs, DocsOK, ControlOK
<1>3. CASE CreateFeature(a)
  <2>1. [name |-> job[a].name, active |-> TRUE, at |-> job[a].at] \in FeatureDocs
    BY <1>3, JobOf DEF CreateFeature, FeatureDocs
  <2>2. DocsOK'
    BY <1>3, <2>1, InsertFeatureType DEF CreateFeature
  <2> QED
    BY <1>3, <2>2, Finished DEF CreateFeature, InsertFeature, ControlOK
<1>4. CASE CreateScenario(a)
  <2>1. [feature |-> job[a].name, name |-> job[a].scenario, at |-> job[a].at] \in ScenarioDocs
    BY <1>4, JobOf DEF CreateScenario, ScenarioDocs
  <2>2. DocsOK'
    BY <1>4, <2>1 DEF CreateScenario, FreshScenarios, Least, DocsOK
  <2>3. blamed' \subseteq Names
    BY <1>4, JobOf DEF CreateScenario, ControlOK
  <2> QED
    BY <1>4, <2>2, <2>3, Finished DEF CreateScenario, ControlOK
<1>5. ASSUME NEW i \in FeatureIds, NEW yes \in BOOLEAN, FindToSet(a, i, yes)
      PROVE  DocsOK' /\ ControlOK'
  <2>1. [op |-> "set active", id |-> i, active |-> yes] \in Jobs
    BY DEF Jobs, Setting
  <2>2. job' \in [Admins -> Jobs \cup {None}]
    BY <1>5, <2>1, Starts DEF FindToSet
  <2> QED
    BY <1>5, <2>2, CallType DEF FindToSet, Reads, docs, DocsOK, ControlOK
<1>6. ASSUME NEW i \in FeatureIds, NEW tool \in BOOLEAN, NEW error \in BOOLEAN,
             FindToDelete(a, i, tool, error)
      PROVE  DocsOK' /\ ControlOK'
  <2>1. features[i].name \in Names
    BY <1>6 DEF FindToDelete, DocsOK, FeatureDocs
  <2>2. [op |-> "delete", tool |-> tool, id |-> i,
         name |-> IF error THEN None ELSE features[i].name] \in Jobs
    BY <2>1 DEF Jobs, Deleting
  <2>3. job' \in [Admins -> Jobs \cup {None}]
    BY <1>6, <2>2, Starts DEF FindToDelete
  <2> QED
    BY <1>6, <2>3, CallType DEF FindToDelete, Reads, docs, DocsOK, ControlOK
<1>7. CASE SetActive(a)
  <2>1. job[a].id \in FeatureIds /\ job[a].active \in BOOLEAN
    BY <1>7, JobOf DEF SetActive
  <2>2. features' \in [FeatureIds -> FeatureDocs \cup {None}]
    BY <1>7, <2>1 DEF SetActive, DocsOK, FeatureDocs
  <2> QED
    BY <1>7, <2>2, Finished DEF SetActive, DocsOK, ControlOK
<1>8. ASSUME NEW next \in [Admins -> Jobs \cup {None}], Fails(a, next)
      PROVE  DocsOK' /\ ControlOK'
  BY <1>8, Finished DEF Fails, Broken, docs, DocsOK, ControlOK
<1>9. CASE DeleteById(a)
  <2>1. job[a] \in Deleting /\ job[a].id \in FeatureIds
    BY <1>9, JobOf DEF DeleteById
  <2>2. Continue(a, "delete scenarios") \in [Admins -> Jobs \cup {None}]
    BY <2>1, Continued DEF Cascade
  <2>3. CASE Fails(a, Continue(a, "delete scenarios"))
    BY <1>8, <2>2, <2>3
  <2>4. CASE ~Fails(a, Continue(a, "delete scenarios"))
    <3>1. /\ features' = [features EXCEPT ![job[a].id] = None]
          /\ job' = Continue(a, "delete scenarios")
          /\ blamed' = blamed \cup ((IF features[job[a].id] = None THEN {}
                                     ELSE {features[job[a].id].name}) \ {job[a].name})
          /\ UNCHANGED <<scenarios, mocks, global, clock, calls>>
      BY <1>9, <2>4 DEF DeleteById
    <3>2. features[job[a].id] # None => features[job[a].id].name \in Names
      BY <2>1 DEF DocsOK, FeatureDocs
    <3> QED
      BY <2>2, <3>1, <3>2 DEF DocsOK, ControlOK
  <2> QED
    BY <2>3, <2>4
<1>10. CASE DeleteScenarios(a)
  <2>1. job[a] \in Deleting
    BY <1>10, JobOf DEF DeleteScenarios, Cascade
  <2>2. Continue(a, "delete mocks") \in [Admins -> Jobs \cup {None}]
    BY <2>1, Continued DEF Cascade
  <2>3. CASE Fails(a, Continue(a, "delete mocks"))
    BY <1>8, <2>2, <2>3
  <2>4. CASE ~Fails(a, Continue(a, "delete mocks"))
    BY <1>10, <2>2, <2>4 DEF DeleteScenarios, DocsOK, ControlOK
  <2> QED
    BY <2>3, <2>4
<1>11. CASE DeleteMocks(a)
  <2>1. CASE Fails(a, Finish(a))
    BY <1>8, <2>1, Finished
  <2>2. CASE ~Fails(a, Finish(a))
    BY <1>11, <2>2, Finished DEF DeleteMocks, DocsOK, ControlOK
  <2> QED
    BY <2>1, <2>2
<1>12. CASE Stop(a)
  BY <1>12, Finished DEF Stop, Broken, docs, DocsOK, ControlOK
<1> QED
  BY <1>1, <1>2, <1>3, <1>4, <1>5, <1>6, <1>7, <1>9, <1>10, <1>11, <1>12 DEF HandlerStep

LEMMA DirectType ==
    ASSUME DocsOK, ControlOK, DirectStep
    PROVE  DocsOK' /\ ControlOK'
<1>1. ASSUME NEW n \in Names, NEW active \in BOOLEAN, ToolCreateFeature(n, active)
      PROVE  DocsOK' /\ ControlOK'
  <2>1. clock' \in Nat
    BY <1>1 DEF ToolCreateFeature, Now, ControlOK
  <2>2. [name |-> n, active |-> active, at |-> clock'] \in FeatureDocs
    BY <2>1 DEF FeatureDocs
  <2>3. DocsOK'
    BY <1>1, <2>2, InsertFeatureType DEF ToolCreateFeature
  <2> QED
    BY <1>1, <2>1, <2>3, CallType DEF ToolCreateFeature, InsertFeature, ControlOK
<1>2. ASSUME NEW n \in Names, NEW active \in BOOLEAN, NEW i \in FeatureIds, UpdateFeature(i, n, active)
      PROVE  DocsOK' /\ ControlOK'
  <2>1. features[i] \in FeatureDocs
    BY <1>2 DEF UpdateFeature, DocsOK
  <2>2. [features[i] EXCEPT !.name = n, !.active = active] \in FeatureDocs /\ features[i].name \in Names
    BY <2>1 DEF FeatureDocs
  <2> QED
    BY <1>2, <2>2, CallType DEF UpdateFeature, DocsOK, ControlOK
<1>3. ASSUME NEW n \in Names, CreateMockAPI(n)
      PROVE  DocsOK' /\ ControlOK'
  BY <1>3, CallType DEF CreateMockAPI, DocsOK, ControlOK
<1>4. ASSUME NEW i \in ScenarioIds, ActivateScenario(i)
      PROVE  DocsOK' /\ ControlOK'
  BY <1>4, CallType DEF ActivateScenario, DocsOK, ControlOK
<1>5. ASSUME NEW i \in ScenarioIds, NEW s \in ScenarioNames, UpdateScenarioByFeature(i, s)
      PROVE  DocsOK' /\ ControlOK'
  <2>1. scenarios[i] \in ScenarioDocs
    BY <1>5 DEF UpdateScenarioByFeature, DocsOK
  <2>2. [scenarios[i] EXCEPT !.name = s] \in ScenarioDocs
    BY <2>1 DEF ScenarioDocs
  <2> QED
    BY <1>5, <2>2, CallType DEF UpdateScenarioByFeature, DocsOK, ControlOK
<1> QED
  BY <1>1, <1>2, <1>3, <1>4, <1>5 DEF DirectStep

LEMMA ClientType ==
    ASSUME DocsOK, ControlOK, ClientStep
    PROVE  DocsOK' /\ ControlOK' /\ UNCHANGED <<docs, job, blamed>>
<1>1. UNCHANGED <<docs, job, clock, blamed>> /\ (Call \/ UNCHANGED calls)
  BY DEF ClientStep, Browse, ListScenariosByFeature, Count, FindManyWithPagination, ListFails,
         Leave, Reading
<1> QED
  BY <1>1, CallType DEF docs, DocsOK, ControlOK

(* A client that is about to read the leading scenario reads the list of one feature.  *)
LeadOK == browse # None /\ browse.op = "lead" => browse.list.name \in Names

LEMMA ListingIds ==
    ASSUME NEW list, NEW fs, NEW ss
    PROVE  /\ Listing(list, fs, ss) \subseteq Ids
           /\ IsFiniteSet(Listing(list, fs, ss))
<1>1. Listing(list, fs, ss) \subseteq FeatureIds \/ Listing(list, fs, ss) \subseteq ScenarioIds
  BY DEF Listing
<1> QED
  BY <1>1, IdAssumption, FS_Subset DEF Ids

LEMMA WatchType ==
    ASSUME BrowseOK, LeadOK, Watch \/ UNCHANGED browse
    PROVE  BrowseOK' /\ LeadOK'
<1>1. browse' = browse \/ (browse # None /\ browse' = [browse EXCEPT !.excused = TRUE])
  BY DEF Watch
<1>2. CASE browse' = browse
  BY <1>2 DEF BrowseOK, LeadOK
<1>3. CASE browse # None /\ browse' = [browse EXCEPT !.excused = TRUE]
  <2>1. browse \in Browsing
    BY <1>3 DEF BrowseOK
  <2>2. browse' \in Browsing /\ browse'.op = browse.op /\ browse'.list = browse.list
    BY <1>3, <2>1 DEF Browsing
  <2> QED
    BY <1>3, <2>2 DEF BrowseOK, LeadOK
<1> QED
  BY <1>1, <1>2, <1>3

LEMMA AdminsWatch ==
    ASSUME (\E a \in Admins : HandlerStep(a)) \/ DirectStep
    PROVE  Watch \/ UNCHANGED browse
<1>1. ASSUME NEW a \in Admins, HandlerStep(a)
      PROVE  Watch \/ UNCHANGED browse
  BY <1>1 DEF HandlerStep, CreateNewFeature, CreateNewScenariosByFeature, ToolCreateScenario, Reads,
              CreateFeature, InsertFeature, CreateScenario, FindToSet, FindToDelete, SetActive,
              DeleteById, DeleteScenarios, DeleteMocks, Fails, Stop
<1>2. CASE DirectStep
  BY <1>2 DEF DirectStep, ToolCreateFeature, InsertFeature, UpdateFeature, CreateMockAPI,
              ActivateScenario, UpdateScenarioByFeature
<1> QED
  BY <1>1, <1>2

LEMMA PageSizeRange ==
    ASSUME NEW size \in Int
    PROVE  PageSize(size) \in 1..MaxPageSize
BY SizeAssumption DEF PageSize

LEMMA ClientBrowses ==
    ASSUME DocsOK, BrowseOK, LeadOK, ClientStep
    PROVE  BrowseOK' /\ LeadOK'
<1>1. ASSUME NEW list \in Lists, NEW http \in BOOLEAN, NEW size \in Sizes, Browse(list, http, size)
      PROVE  BrowseOK' /\ LeadOK'
  <2>1. PageSize(size) \in 1..MaxPageSize
    BY SizeAssumption, PageSizeRange
  <2>2. Listed(list) \subseteq Ids
    BY ListingIds DEF Listed
  <2>3. list.name \in Names \cup {None}
    BY DEF Lists
  <2>4. browse' \in Browsing
    BY <1>1, <2>1, <2>2 DEF Browse, Browsing
  <2>5. browse'.op = "lead" => browse'.list.name \in Names
    BY <1>1, <2>3 DEF Browse
  <2> QED
    BY <2>4, <2>5 DEF BrowseOK, LeadOK
<1>2. ASSUME NEW op, Reading(op)
      PROVE  browse \in Browsing /\ browse.op = op /\ browse # None
  BY <1>2 DEF Reading, BrowseOK
<1>3. CASE ListScenariosByFeature
  <2>1. browse \in Browsing /\ browse # None /\ browse.list.name \in Names
    BY <1>2, <1>3 DEF ListScenariosByFeature, LeadOK
  <2>2. global[browse.list.name] \in ScenarioIds \cup {None}
    BY <2>1 DEF DocsOK
  <2>3. browse' = None \/ (browse' \in Browsing /\ browse'.op = "count")
    <3>1. CASE global[browse.list.name] = None
      BY <1>3, <2>1, <3>1 DEF ListScenariosByFeature, Browsing
    <3>2. CASE global[browse.list.name] # None
      <4>1. browse.seen \cup {global[browse.list.name]} \in SUBSET Ids
        BY <2>1, <2>2, <3>2 DEF Browsing, Ids
      <4>2. [browse EXCEPT !.op = "count", !.seen = browse.seen \cup {global[browse.list.name]}] \in Browsing
        BY <2>1, <4>1 DEF Browsing
      <4> QED
        BY <1>3, <2>1, <3>2, <4>2 DEF ListScenariosByFeature, Browsing
    <3> QED
      BY <3>1, <3>2
  <2> QED
    BY <2>3 DEF BrowseOK, LeadOK
<1>4. CASE Count
  <2>1. browse \in Browsing
    BY <1>2, <1>4 DEF Count
  <2>2. Cardinality(Listed(browse.list)) \in Nat
    BY ListingIds, FS_CardinalityType DEF Listed
  <2>3. browse' \in Browsing /\ browse'.op = "find"
    BY <1>4, <2>1, <2>2 DEF Count, Browsing
  <2> QED
    BY <2>3 DEF BrowseOK, LeadOK
<1>5. CASE FindManyWithPagination
  <2>1. browse \in Browsing
    BY <1>2, <1>5 DEF FindManyWithPagination
  <2>2. PICK page \in Pages(browse, Listed(browse.list)) :
            LET b == [browse EXCEPT !.seen = @ \cup page] IN
            browse' = IF b.page >= TotalPages(b)
                      THEN [b EXCEPT !.op = "done",
                               !.excused = @ \/ Cardinality(Listed(b.list)) > b.total]
                      ELSE [b EXCEPT !.op = "count", !.page = @ + 1]
    BY <1>5 DEF FindManyWithPagination
  <2> DEFINE b == [browse EXCEPT !.seen = @ \cup page]
  <2>3. page \subseteq Ids
    BY <2>2, ListingIds DEF Pages, Listed
  <2>4. b \in Browsing
    BY <2>1, <2>3 DEF Browsing
  <2> HIDE DEF b
  <2>5. browse' \in {[b EXCEPT !.op = "done", !.excused = yes] : yes \in BOOLEAN}
                    \cup {[b EXCEPT !.op = "count", !.page = b.page + 1]}
    <3>1. b.excused \in BOOLEAN
      BY <2>4 DEF Browsing
    <3>2. (b.excused \/ Cardinality(Listed(b.list)) > b.total) \in BOOLEAN
      OBVIOUS
    <3> QED
      BY <2>2, <3>1, <3>2 DEF b
  <2>6. browse' \in Browsing /\ browse'.op # "lead"
    <3>1. ASSUME NEW yes \in BOOLEAN, browse' = [b EXCEPT !.op = "done", !.excused = yes]
          PROVE  browse' \in Browsing /\ browse'.op # "lead"
      BY <2>4, <3>1 DEF Browsing
    <3>2. CASE browse' = [b EXCEPT !.op = "count", !.page = b.page + 1]
      <4>1. b.page + 1 \in Nat \ {0}
        BY <2>4 DEF Browsing
      <4> QED
        BY <2>4, <3>2, <4>1 DEF Browsing
    <3> QED
      BY <2>5, <3>1, <3>2
  <2> QED
    BY <2>6 DEF BrowseOK, LeadOK
<1>6. CASE ListFails
  <2>1. browse \in Browsing
    BY <1>2, <1>6 DEF ListFails
  <2>2. browse' = None \/ (browse' \in Browsing /\ browse'.op = "done")
    BY <1>6, <2>1 DEF ListFails, Browsing
  <2> QED
    BY <2>2 DEF BrowseOK, LeadOK
<1>7. CASE Leave
  BY <1>7 DEF Leave, BrowseOK, LeadOK
<1> QED
  BY <1>1, <1>3, <1>4, <1>5, <1>6, <1>7 DEF ClientStep

Typed == DocsOK /\ ControlOK /\ BrowseOK /\ LeadOK

LEMMA TypedInit == Init => Typed
BY BoundAssumption DEF Init, Typed, DocsOK, ControlOK, BrowseOK, LeadOK

LEMMA TypedStep ==
    ASSUME Typed, [Next]_vars
    PROVE  Typed'
<1>1. CASE (\E a \in Admins : HandlerStep(a)) \/ DirectStep
  BY <1>1, HandlerType, DirectType, AdminsWatch, WatchType DEF Typed
<1>2. CASE ClientStep
  BY <1>2, ClientType, ClientBrowses DEF Typed
<1>3. CASE UNCHANGED vars
  BY <1>3 DEF vars, docs, Typed, DocsOK, ControlOK, BrowseOK, LeadOK
<1> QED
  BY <1>1, <1>2, <1>3, NextIs

(* Every document, every handler and every client has its type, for any number of admins,  *)
(* documents and calls; sizes of pages stay between one and the maximum.                  *)
THEOREM TypeCorrect == Spec => []TypeOK
<1>1. Typed => TypeOK
  BY TypeParts DEF Typed
<1> QED
  BY <1>1, TypedInit, TypedStep, PTL DEF Spec

-------------------------------------------------------------------------------
(***************************************************************************)
(* OrphansExplained.  A deletion that has removed a feature is still underway  *)
(* until its mocks are gone, but nothing may be left for it by then: the       *)
(* scenarios have to be gone one operation earlier.                          *)
(***************************************************************************)

DeletingScenarios(n) == \E a \in Admins : Doing(a, "delete scenarios") /\ job[a].name = n

ScenariosOwned == \A n \in Names : ScenariosOf(n) # {} /\ ~Exists(n) => n \in blamed \/ DeletingScenarios(n)
MocksOwned     == \A n \in Names : n \in mocks /\ ~Exists(n) => n \in blamed \/ Underway(n)
Owned          == ScenariosOwned /\ MocksOwned

(* A feature that has gone is the work of a deletion that goes on, or is blamed.      *)
LEMMA NamesStay ==
    ASSUME DocsOK, NEW i \in FeatureIds, NEW doc \in FeatureDocs \cup {None},
           features' = [features EXCEPT ![i] = doc], NEW n \in Names, Exists(n), ~Exists(n)'
    PROVE  features[i] # None /\ features[i].name = n
BY DEF Exists, DocsOK

(* Jobs that go on keep what is underway.                                          *)
LEMMA OthersGoOn ==
    ASSUME ControlOK, NEW a \in Admins, NEW j, job' = [job EXCEPT ![a] = j], NEW n \in Names
    PROVE  /\ DeletingScenarios(n) => DeletingScenarios(n)' \/ (Doing(a, "delete scenarios") /\ job[a].name = n)
           /\ Underway(n) => Underway(n)' \/ (job[a] # None /\ job[a].op \in Cascade /\ job[a].name = n)
BY DEF DeletingScenarios, Doing, Underway, ControlOK

LEMMA HandlerOwned ==
    ASSUME DocsOK, ControlOK, Owned, NEW a \in Admins, HandlerStep(a)
    PROVE  Owned'
<1> DEFINE Same == UNCHANGED <<features, scenarios, mocks>>
<1>1. ASSUME Same, Idle(a) \/ ~(job[a].op \in Cascade), NEW j, job' = [job EXCEPT ![a] = j],
             blamed \subseteq blamed'
      PROVE  Owned'
  <2>1. \A n \in Names : /\ DeletingScenarios(n) => DeletingScenarios(n)'
                         /\ Underway(n) => Underway(n)'
    BY <1>1, OthersGoOn DEF Idle, Doing, Cascade
  <2> QED
    BY <1>1, <2>1 DEF Owned, ScenariosOwned, MocksOwned, ScenariosOf, Exists
<1>2. CASE \E n \in Names : \/ CreateNewFeature(a, n)
                            \/ \E s \in ScenarioNames :
                                  CreateNewScenariosByFeature(a, n, s) \/ ToolCreateScenario(a, n, s)
  BY <1>1, <1>2 DEF CreateNewFeature, CreateNewScenariosByFeature, ToolCreateScenario, Reads, docs
<1>3. CASE \E i \in FeatureIds, yes \in BOOLEAN :
              \/ FindToSet(a, i, yes)
              \/ \E error \in BOOLEAN : FindToDelete(a, i, yes, error)
  BY <1>1, <1>3 DEF FindToSet, FindToDelete, Reads, docs
<1>4. CASE CreateFeature(a)
  <2>1. \A n \in Names : /\ DeletingScenarios(n) => DeletingScenarios(n)'
                         /\ Underway(n) => Underway(n)'
    BY <1>4, OthersGoOn DEF CreateFeature, Doing, Cascade, Finish
  <2>2. \A n \in Names : Exists(n) => Exists(n)'
    BY <1>4 DEF CreateFeature, InsertFeature, FreshFeatures, Least, Exists, DocsOK
  <2> QED
    BY <1>4, <2>1, <2>2 DEF CreateFeature, InsertFeature, Owned, ScenariosOwned, MocksOwned, ScenariosOf
<1>5. CASE CreateScenario(a)
  <2>1. \A n \in Names : /\ DeletingScenarios(n) => DeletingScenarios(n)'
                         /\ Underway(n) => Underway(n)'
    BY <1>5, OthersGoOn DEF CreateScenario, Doing, Cascade, Finish
  <2>2. \A n \in Names : Exists(n)' <=> Exists(n)
    BY <1>5 DEF CreateScenario, Exists
  <2>3. \A n \in Names \ {job[a].name} : ScenariosOf(n)' \subseteq ScenariosOf(n)
    BY <1>5 DEF CreateScenario, FreshScenarios, Least, ScenariosOf, DocsOK
  <2>4. blamed \subseteq blamed' /\ (~Exists(job[a].name) => job[a].name \in blamed')
    BY <1>5 DEF CreateScenario
  <2>5. mocks' = mocks
    BY <1>5 DEF CreateScenario
  <2> QED
    BY <2>1, <2>2, <2>3, <2>4, <2>5 DEF Owned, ScenariosOwned, MocksOwned
<1>6. CASE SetActive(a)
  <2>1. \A n \in Names : /\ DeletingScenarios(n) => DeletingScenarios(n)'
                         /\ Underway(n) => Underway(n)'
    BY <1>6, OthersGoOn DEF SetActive, Doing, Cascade, Finish
  <2>2. job[a].id \in FeatureIds /\ job[a].active \in BOOLEAN
    BY <1>6, JobOf DEF SetActive
  <2>3. \A n \in Names : Exists(n) => Exists(n)'
    <3> SUFFICES ASSUME NEW n \in Names, NEW i \in FeatureIds, features[i] # None, features[i].name = n
                 PROVE  features'[i] # None /\ features'[i].name = n
      BY DEF Exists
    <3>1. features[i] \in FeatureDocs
      BY DEF DocsOK
    <3>2. CASE features' = features
      BY <3>2
    <3>3. CASE features[job[a].id] # None /\ features' = [features EXCEPT ![job[a].id].active = job[a].active]
      <4>1. i # job[a].id => features'[i] = features[i]
        BY <2>2, <3>3 DEF DocsOK
      <4>2. i = job[a].id => features'[i] = [features[i] EXCEPT !.active = job[a].active]
        BY <2>2, <3>3 DEF DocsOK
      <4>3. [features[i] EXCEPT !.active = job[a].active] \in FeatureDocs
        BY <2>2, <3>1 DEF FeatureDocs
      <4>4. [features[i] EXCEPT !.active = job[a].active].name = n
        BY <3>1 DEF FeatureDocs
      <4> QED
        BY <4>1, <4>2, <4>3, <4>4, NoneAssumption
    <3> QED
      BY <1>6, <3>2, <3>3 DEF SetActive
  <2> QED
    BY <1>6, <2>1, <2>3 DEF SetActive, Owned, ScenariosOwned, MocksOwned, ScenariosOf
(* What fails or stops is blamed if it was at the scenarios or the mocks.              *)
<1>7. ASSUME Same, Broken(a), ~Idle(a), NEW j, job' = [job EXCEPT ![a] = j]
      PROVE  Owned'
  <2>1. blamed \subseteq blamed'
    BY <1>7 DEF Broken
  <2>2. CASE job[a].op \in Cascade
    <3>1. ASSUME NEW n \in Names, job[a].name = n PROVE n \in blamed'
      BY <1>7, <2>2, <3>1 DEF Broken
    <3>2. \A n \in Names : /\ DeletingScenarios(n) => DeletingScenarios(n)' \/ n \in blamed'
                           /\ Underway(n) => Underway(n)' \/ n \in blamed'
      BY <1>7, <3>1, OthersGoOn
    <3> QED
      BY <1>7, <2>1, <3>2 DEF Owned, ScenariosOwned, MocksOwned, ScenariosOf, Exists
  <2>3. CASE ~(job[a].op \in Cascade)
    BY <1>1, <1>7, <2>1, <2>3
  <2> QED
    BY <2>2, <2>3
<1>8. ASSUME NEW j, ~Idle(a), Fails(a, [job EXCEPT ![a] = j])
      PROVE  Owned'
  <2>1. CASE job[a].tool
    BY <1>7, <1>8, <2>1 DEF Fails, Finish, docs
  <2>2. CASE ~job[a].tool
    BY <1>7, <1>8, <2>2 DEF Fails, docs
  <2> QED
    BY <2>1, <2>2
<1>9. CASE DeleteById(a)
  <2>1. CASE Fails(a, Continue(a, "delete scenarios"))
    BY <1>8, <1>9, <2>1 DEF DeleteById, Doing, Idle, Continue
  <2>2. CASE ~Fails(a, Continue(a, "delete scenarios"))
    <3>1. /\ job[a] \in Deleting /\ job[a].id \in FeatureIds /\ job[a] # None
      BY <1>9, JobOf DEF DeleteById, Doing
    <3>2. /\ features' = [features EXCEPT ![job[a].id] = None]
          /\ job' = Continue(a, "delete scenarios")
          /\ blamed' = blamed \cup ((IF features[job[a].id] = None THEN {}
                                     ELSE {features[job[a].id].name}) \ {job[a].name})
          /\ UNCHANGED <<scenarios, mocks>>
      BY <1>9, <2>2 DEF DeleteById
    <3>3. job'[a].op = "delete scenarios" /\ job'[a].name = job[a].name
      BY <3>1, <3>2 DEF Continue, ControlOK, Deleting
    <3>4. job'[a] # None
      <4>1. [job[a] EXCEPT !.op = "delete scenarios"] \in Deleting
        BY <3>1 DEF Deleting, Cascade
      <4> QED
        BY <3>2, <4>1, NoneAssumption DEF Continue, ControlOK
    <3>5. \A n \in Names : /\ DeletingScenarios(n) => DeletingScenarios(n)'
                           /\ Underway(n) => Underway(n)'
      BY <1>9, <3>2, OthersGoOn DEF DeleteById, Doing, Cascade, Continue
    <3>6. ASSUME NEW n \in Names, Exists(n), ~Exists(n)'
          PROVE  n \in blamed' \/ (DeletingScenarios(n)' /\ Underway(n)')
      <4>1. features[job[a].id] # None /\ features[job[a].id].name = n
        BY <3>1, <3>2, <3>6, NamesStay
      <4>2. CASE n # job[a].name
        BY <3>2, <4>1, <4>2
      <4>3. CASE n = job[a].name
        BY <3>3, <3>4, <4>3 DEF DeletingScenarios, Doing, Underway, Cascade
      <4> QED
        BY <4>2, <4>3
    <3>7. \A n \in Names : ScenariosOf(n)' = ScenariosOf(n)
      BY <3>2 DEF ScenariosOf
    <3> QED
      BY <3>2, <3>5, <3>6, <3>7 DEF Owned, ScenariosOwned, MocksOwned
  <2> QED
    BY <2>1, <2>2
<1>10. CASE DeleteScenarios(a)
  <2>1. CASE Fails(a, Continue(a, "delete mocks"))
    BY <1>8, <1>10, <2>1 DEF DeleteScenarios, Doing, Idle, Continue
  <2>2. CASE ~Fails(a, Continue(a, "delete mocks"))
    <3>1. job[a] \in Deleting /\ job[a] # None /\ job[a].op = "delete scenarios"
      BY <1>10, JobOf DEF DeleteScenarios, Doing, Cascade
    <3>2. /\ scenarios' = [i \in ScenarioIds |-> IF i \in ScenariosOf(job[a].name) THEN None
                                                 ELSE scenarios[i]]
          /\ job' = Continue(a, "delete mocks")
          /\ UNCHANGED <<features, mocks, blamed>>
      BY <1>10, <2>2 DEF DeleteScenarios
    <3>3. job'[a].op = "delete mocks" /\ job'[a].name = job[a].name /\ job'[a] # None
      <4>1. [job[a] EXCEPT !.op = "delete mocks"] \in Deleting
        BY <3>1 DEF Deleting, Cascade
      <4> QED
        BY <3>1, <3>2, <4>1, NoneAssumption DEF Continue, ControlOK, Deleting
    <3>4. ASSUME NEW n \in Names, ScenariosOf(n)' # {}
          PROVE  ScenariosOf(n) # {} /\ n # job[a].name
      BY <3>2, <3>4 DEF ScenariosOf
    <3>5. \A n \in Names : /\ DeletingScenarios(n) => DeletingScenarios(n)' \/ n = job[a].name
                           /\ Underway(n) => Underway(n)' \/ n = job[a].name
      BY <3>2, OthersGoOn DEF Continue
    <3>6. job[a].name \in Names => Underway(job[a].name)'
      BY <3>3 DEF Underway, Cascade
    <3>7. \A n \in Names : Exists(n)' <=> Exists(n)
      BY <3>2 DEF Exists
    <3>8. ScenariosOwned'
      BY <3>2, <3>4, <3>5, <3>7 DEF Owned, ScenariosOwned
    <3>9. MocksOwned'
      <4> SUFFICES ASSUME NEW n \in Names, n \in mocks, ~Exists(n), n \notin blamed
                   PROVE  Underway(n)'
        BY <3>2, <3>7 DEF MocksOwned
      <4>1. Underway(n)
        BY DEF Owned, MocksOwned
      <4>2. CASE n = job[a].name
        BY <3>3, <4>2 DEF Underway, Cascade
      <4> QED
        BY <3>5, <4>1, <4>2
    <3> QED
      BY <3>8, <3>9 DEF Owned
  <2> QED
    BY <2>1, <2>2
<1>11. CASE DeleteMocks(a)
  <2>1. CASE Fails(a, Finish(a))
    BY <1>8, <1>11, <2>1 DEF DeleteMocks, Doing, Idle, Finish
  <2>2. CASE ~Fails(a, Finish(a))
    <3>1. /\ mocks' = mocks \ {job[a].name}
          /\ job' = Finish(a)
          /\ UNCHANGED <<features, scenarios, blamed>>
          /\ job[a].op = "delete mocks"
      BY <1>11, <2>2 DEF DeleteMocks, Doing
    <3>2. \A n \in Names : /\ DeletingScenarios(n) => DeletingScenarios(n)'
                           /\ Underway(n) => Underway(n)' \/ n = job[a].name
      BY <3>1, OthersGoOn DEF Finish, Doing
    <3>3. \A n \in Names : /\ Exists(n)' <=> Exists(n)
                           /\ ScenariosOf(n)' = ScenariosOf(n)
      BY <3>1 DEF Exists, ScenariosOf
    <3> QED
      BY <3>1, <3>2, <3>3 DEF Owned, ScenariosOwned, MocksOwned
  <2> QED
    BY <2>1, <2>2
<1>12. CASE Stop(a)
  BY <1>7, <1>12 DEF Stop, Finish, docs
<1> QED
  BY <1>2, <1>3, <1>4, <1>5, <1>6, <1>9, <1>10, <1>11, <1>12 DEF HandlerStep

LEMMA DirectOwned ==
    ASSUME DocsOK, ControlOK, Owned, DirectStep
    PROVE  Owned'
<1>1. ASSUME UNCHANGED job, blamed \subseteq blamed',
             \A n \in Names : ScenariosOf(n)' # {} => ScenariosOf(n) # {},
             \A n \in mocks' : n \in mocks \/ Exists(n) \/ n \in blamed',
             \A n \in Names : Exists(n) /\ ~Exists(n)' => n \in blamed'
      PROVE  Owned'
  <2>1. \A n \in Names : /\ DeletingScenarios(n)' <=> DeletingScenarios(n)
                         /\ Underway(n)' <=> Underway(n)
    BY <1>1 DEF DeletingScenarios, Underway, Doing
  <2> QED
    BY <1>1, <2>1 DEF Owned, ScenariosOwned, MocksOwned
<1>2. ASSUME NEW n \in Names, NEW active \in BOOLEAN, ToolCreateFeature(n, active)
      PROVE  Owned'
  <2>1. \A m \in Names : Exists(m) => Exists(m)'
    BY <1>2 DEF ToolCreateFeature, InsertFeature, FreshFeatures, Least, Exists, DocsOK
  <2> QED
    BY <1>1, <1>2, <2>1 DEF ToolCreateFeature, InsertFeature, ScenariosOf
<1>3. ASSUME NEW n \in Names, NEW active \in BOOLEAN, NEW i \in FeatureIds, UpdateFeature(i, n, active)
      PROVE  Owned'
  <2>1. features[i] \in FeatureDocs /\ features[i] # None
    BY <1>3 DEF UpdateFeature, DocsOK
  <2>2. /\ [features[i] EXCEPT !.name = n, !.active = active] \in FeatureDocs
        /\ [features[i] EXCEPT !.name = n, !.active = active].name = n
    BY <2>1 DEF FeatureDocs
  <2>3. features' = [features EXCEPT ![i] = [features[i] EXCEPT !.name = n, !.active = active]]
    BY <1>3 DEF UpdateFeature
  <2>4. ASSUME NEW m \in Names, Exists(m), ~Exists(m)'
        PROVE  m \in blamed'
    <3>1. features[i].name = m
      BY <2>2, <2>3, <2>4, NamesStay
    <3>2. m # n
      <4>1. features'[i].name = n /\ features'[i] # None
        BY <2>2, <2>3, NoneAssumption DEF DocsOK
      <4> QED
        BY <2>4, <4>1 DEF Exists
    <3> QED
      BY <1>3, <3>1, <3>2 DEF UpdateFeature
  <2> QED
    BY <1>1, <1>3, <2>4 DEF UpdateFeature, ScenariosOf
<1>4. ASSUME NEW n \in Names, CreateMockAPI(n)
      PROVE  Owned'
  BY <1>1, <1>4 DEF CreateMockAPI, ScenariosOf, Exists
<1>5. ASSUME NEW i \in ScenarioIds, ActivateScenario(i)
      PROVE  Owned'
  BY <1>1, <1>5 DEF ActivateScenario, ScenariosOf, Exists
<1>6. ASSUME NEW i \in ScenarioIds, NEW s \in ScenarioNames, UpdateScenarioByFeature(i, s)
      PROVE  Owned'
  <2>1. \A n \in Names : ScenariosOf(n)' \subseteq ScenariosOf(n)
    <3>1. scenarios[i] \in ScenarioDocs /\ scenarios[i] # None
      BY <1>6 DEF UpdateScenarioByFeature, DocsOK
    <3>2. scenarios'[i].feature = scenarios[i].feature /\ \A j \in ScenarioIds \ {i} : scenarios'[j] = scenarios[j]
      BY <1>6, <3>1 DEF UpdateScenarioByFeature, DocsOK, ScenarioDocs
    <3> QED
      BY <3>1, <3>2 DEF ScenariosOf
  <2>2. \A n \in Names : ScenariosOf(n)' # {} => ScenariosOf(n) # {}
    BY <2>1
  <2>3. UNCHANGED <<features, mocks, job, blamed>>
    BY <1>6 DEF UpdateScenarioByFeature
  <2> QED
    BY <1>1, <2>2, <2>3 DEF Exists
<1> QED
  BY <1>2, <1>3, <1>4, <1>5, <1>6 DEF DirectStep

(* Scenarios and mocks without their feature have a named cause, for any number of admins.  *)
THEOREM OrphansHaveReason == Spec => []OrphansExplained
<1>1. Init => Typed /\ Owned
  <2>1. Init => Owned
    BY DEF Init, Owned, ScenariosOwned, MocksOwned, ScenariosOf
  <2> QED
    BY <2>1, TypedInit
<1>2. Typed /\ Owned /\ [Next]_vars => Typed' /\ Owned'
  <2> SUFFICES ASSUME Typed, Owned, [Next]_vars
               PROVE  Typed' /\ Owned'
    OBVIOUS
  <2>1. CASE (\E a \in Admins : HandlerStep(a)) \/ DirectStep
    <3>1. Owned'
      BY <2>1, HandlerOwned, DirectOwned DEF Typed
    <3> QED
      BY <2>1, <3>1, NextIs, TypedStep
  <2>2. CASE UNCHANGED <<docs, job, blamed>>
    <3>1. \A n \in Names : /\ Exists(n)' <=> Exists(n)
                           /\ ScenariosOf(n)' = ScenariosOf(n)
                           /\ DeletingScenarios(n)' <=> DeletingScenarios(n)
                           /\ Underway(n)' <=> Underway(n)
      BY <2>2 DEF docs, ScenariosOf, Exists, DeletingScenarios, Doing, Underway
    <3>2. Owned'
      BY <2>2, <3>1 DEF docs, Owned, ScenariosOwned, MocksOwned
    <3> QED
      BY <3>2, TypedStep
  <2>3. CASE ClientStep
    BY <2>2, <2>3, ClientType DEF Typed
  <2>4. CASE UNCHANGED vars
    BY <2>2, <2>4 DEF vars
  <2> QED
    BY <2>1, <2>3, <2>4, NextIs, TypedStep
<1>3. Owned => OrphansExplained
  BY DEF Owned, ScenariosOwned, MocksOwned, OrphansExplained, DeletingScenarios, Doing, Underway, Cascade
<1> QED
  BY <1>1, <1>2, <1>3, PTL DEF Spec

-------------------------------------------------------------------------------
(***************************************************************************)
(* BrowseMissesNothing.  A document that the client has not met, and that       *)
(* shares its time with no other, is still to come: as many documents as the     *)
(* client has skipped are newer.                                             *)
(***************************************************************************)

Newer(list, i)  == {j \in Listed(list) : At(j) > At(i)}
Lonely(list, i) == \A j \in Listed(list) \ {i} : At(j) # At(i)

Awaited(b) == \A i \in b.due \ b.seen : Lonely(b.list, i) => Cardinality(Newer(b.list, i)) >= Skip(b)
Found(b)   == \A i \in b.due \ b.seen : ~Lonely(b.list, i)
DueListed(b) == b.due \subseteq Listed(b.list)

Promised(b) == DueListed(b) /\ IF b.op = "done" THEN Found(b) ELSE Awaited(b)
BrowseInv   == browse # None /\ ~browse.excused => Promised(browse)

LEMMA NewerFinite ==
    ASSUME NEW list, NEW i
    PROVE  IsFiniteSet(Newer(list, i)) /\ Cardinality(Newer(list, i)) \in Nat
<1>1. IsFiniteSet(Listed(list))
  BY ListingIds DEF Listed
<1> QED
  BY <1>1, FS_Subset, FS_CardinalityType DEF Newer

LEMMA AtNat ==
    ASSUME DocsOK, NEW list, NEW i \in Listed(list)
    PROVE  At(i) \in Nat
<1>1. CASE list.of = "features"
  BY <1>1 DEF Listed, Listing, DocsOK, FeatureDocs, At
<1>2. CASE list.of # "features"
  BY <1>2, IdAssumption DEF Listed, Listing, DocsOK, ScenarioDocs, At
<1> QED
  BY <1>1, <1>2

(* The arithmetic of pages.                                                      *)
LEMMA Products ==
    ASSUME NEW p \in Nat \ {0}, NEW s \in Nat \ {0}
    PROVE  (p - 1) * s \in Nat /\ (p - 1) * s + s = p * s /\ p * s \in Nat
OBVIOUS

LEMMA PagesCover ==
    ASSUME NEW b \in Browsing, b.page >= TotalPages(b)
    PROVE  b.total <= Skip(b) + b.size
<1> DEFINE n == b.total
           s == b.size
           p == b.page
           q == n \div s
           r == n % s
<1>1. n \in Nat /\ s \in Nat \ {0} /\ p \in Nat \ {0}
  BY SizeAssumption DEF Browsing
<1>2. p >= q + (IF r > 0 THEN 1 ELSE 0)
  BY DEF TotalPages
<1>3. Skip(b) = (p - 1) * s
  BY DEF Skip
<1> HIDE DEF n, s, p
<1>4. q \in Nat /\ r \in 0..(s - 1) /\ n = s * q + r
  BY <1>1
<1>5. Skip(b) + s = p * s /\ p * s \in Nat
  BY <1>1, <1>3, Products
<1> HIDE DEF q, r
<1>6. \A x, y \in Nat : x <= y => s * x <= y * s
  BY <1>1
<1>7. \A x \in Nat : s * (x + 1) = s * x + s /\ s * x \in Nat
  BY <1>1
<1>8. CASE r > 0
  <2>1. q + 1 <= p
    BY <1>1, <1>2, <1>4, <1>8
  <2>2. s * (q + 1) <= p * s
    BY <1>1, <1>4, <1>6, <2>1
  <2>3. n <= s * (q + 1)
    BY <1>1, <1>4, <1>7
  <2>4. n <= p * s
    <3>1. s * (q + 1) \in Nat
      BY <1>4, <1>7
    <3> QED
      BY <1>1, <1>5, <2>2, <2>3, <3>1
  <2> QED
    BY <1>5, <2>4 DEF n, s
<1>9. CASE ~(r > 0)
  <2>1. q <= p /\ n = s * q
    BY <1>1, <1>2, <1>4, <1>7, <1>9
  <2>2. n <= p * s
    BY <1>1, <1>4, <1>6, <2>1
  <2> QED
    BY <1>5, <2>2 DEF n, s
<1> QED
  BY <1>8, <1>9

-------------------------------------------------------------------------------
(* What admins do while a client browses.                                       *)

KeepsFeatures  == \A i \in FeatureIds : features[i] # None =>
    features'[i] # None /\ features'[i].name = features[i].name /\ features'[i].at = features[i].at
KeepsScenarios == \A i \in ScenarioIds : scenarios[i] # None =>
    scenarios'[i] # None /\ scenarios'[i].feature = scenarios[i].feature /\ scenarios'[i].at = scenarios[i].at

(* No document leaves the list or gets another time.                              *)
Grows(list) == /\ Listed(list) \subseteq Listed(list)'
               /\ \A i \in Listed(list) : At(i)' = At(i)

LEMMA KeptGrow ==
    ASSUME KeepsFeatures, KeepsScenarios, NEW list
    PROVE  Grows(list)
<1>1. CASE list.of = "features"
  BY <1>1 DEF KeepsFeatures, Grows, Listed, Listing, At
<1>2. CASE list.of # "features"
  BY <1>2, IdAssumption DEF KeepsScenarios, Grows, Listed, Listing, At
<1> QED
  BY <1>1, <1>2

(* A step that watches the client leaves the times of what stays.                    *)
TimesStay ==
    /\ \A i \in FeatureIds : features[i] # None /\ features'[i] # None => features'[i].at = features[i].at
    /\ \A i \in ScenarioIds : scenarios[i] # None /\ scenarios'[i] # None => scenarios'[i].at = scenarios[i].at

(* A step of an admin keeps the list growing, or the client is excused.               *)
AdminGrows ==
    /\ browse = None => browse' = None
    /\ \A b \in Browsing : browse = b /\ b # None /\ ~browse'.excused => browse' = b /\ Grows(b.list)

LEMMA KeptGrows ==
    ASSUME KeepsFeatures, KeepsScenarios, UNCHANGED browse
    PROVE  AdminGrows
BY KeptGrow DEF AdminGrows

LEMMA StayedGrow ==
    ASSUME TimesStay, NEW list, Listed(list) \subseteq Listed(list)'
    PROVE  Grows(list)
<1>1. CASE list.of = "features"
  BY <1>1 DEF TimesStay, Grows, Listed, Listing, At
<1>2. CASE list.of # "features"
  BY <1>2, IdAssumption DEF TimesStay, Grows, Listed, Listing, At
<1> QED
  BY <1>1, <1>2

LEMMA WatchedGrows ==
    ASSUME TimesStay, Watch
    PROVE  AdminGrows
<1> SUFFICES ASSUME NEW b \in Browsing, browse = b, b # None, ~browse'.excused
             PROVE  browse' = b /\ Grows(b.list)
  BY DEF AdminGrows, Watch
<1>1. [b EXCEPT !.excused = TRUE].excused
  BY DEF Browsing
<1>2. browse' = b /\ Listed(b.list) \subseteq Listing(b.list, features', scenarios')
  BY <1>1 DEF Watch
<1> QED
  BY <1>2, StayedGrow DEF Listed

LEMMA InsertKeeps ==
    ASSUME DocsOK, NEW doc \in FeatureDocs, InsertFeature(doc)
    PROVE  KeepsFeatures /\ KeepsScenarios
BY DEF InsertFeature, FreshFeatures, Least, KeepsFeatures, KeepsScenarios, DocsOK

LEMMA DocsSame ==
    ASSUME UNCHANGED docs
    PROVE  KeepsFeatures /\ KeepsScenarios
BY DEF docs, KeepsFeatures, KeepsScenarios

LEMMA HandlerGrows ==
    ASSUME Typed, NEW a \in Admins, HandlerStep(a)
    PROVE  AdminGrows
<1> USE DEF Typed
<1>1. ASSUME UNCHANGED <<docs, browse>>
      PROVE  AdminGrows
  BY <1>1, DocsSame, KeptGrows
<1>2. ASSUME NEW next, Fails(a, next)
      PROVE  AdminGrows
  BY <1>1, <1>2 DEF Fails
<1>3. CASE CreateFeature(a)
  <2>1. [name |-> job[a].name, active |-> TRUE, at |-> job[a].at] \in FeatureDocs
    BY <1>3, JobOf DEF CreateFeature, FeatureDocs
  <2> QED
    BY <1>3, <2>1, InsertKeeps, KeptGrows DEF CreateFeature, InsertFeature
<1>4. CASE CreateScenario(a)
  <2>1. KeepsFeatures /\ KeepsScenarios
    BY <1>4 DEF CreateScenario, FreshScenarios, Least, KeepsFeatures, KeepsScenarios, DocsOK
  <2> QED
    BY <1>4, <2>1, KeptGrows DEF CreateScenario
<1>5. CASE SetActive(a)
  <2>1. job[a].id \in FeatureIds /\ job[a].active \in BOOLEAN
    BY <1>5, JobOf DEF SetActive
  <2>2. KeepsFeatures
    <3>1. CASE features' = features
      BY <3>1 DEF KeepsFeatures
    <3>2. CASE features[job[a].id] # None /\ features' = [features EXCEPT ![job[a].id].active = job[a].active]
      <4> SUFFICES ASSUME NEW i \in FeatureIds, features[i] # None
                   PROVE  /\ features'[i] # None
                          /\ features'[i].name = features[i].name /\ features'[i].at = features[i].at
        BY DEF KeepsFeatures
      <4>1. features[i] \in FeatureDocs
        BY DEF DocsOK
      <4>2. i # job[a].id => features'[i] = features[i]
        BY <2>1, <3>2 DEF DocsOK
      <4>3. i = job[a].id => features'[i] = [features[i] EXCEPT !.active = job[a].active]
        BY <2>1, <3>2 DEF DocsOK
      <4>4. /\ [features[i] EXCEPT !.active = job[a].active] \in FeatureDocs
            /\ [features[i] EXCEPT !.active = job[a].active].name = features[i].name
            /\ [features[i] EXCEPT !.active = job[a].active].at = features[i].at
        BY <2>1, <4>1 DEF FeatureDocs
      <4> QED
        BY <4>2, <4>3, <4>4, NoneAssumption
    <3> QED
      BY <1>5, <3>1, <3>2 DEF SetActive
  <2> QED
    BY <1>5, <2>2, KeptGrows DEF SetActive, KeepsScenarios
<1>6. CASE DeleteById(a)
  <2>1. CASE Fails(a, Continue(a, "delete scenarios"))
    BY <1>2, <2>1
  <2>2. CASE ~Fails(a, Continue(a, "delete scenarios"))
    <3>1. /\ features' = [features EXCEPT ![job[a].id] = None]
          /\ scenarios' = scenarios
          /\ Watch
      BY <1>6, <2>2 DEF DeleteById
    <3>2. TimesStay
      BY <3>1 DEF TimesStay, DocsOK
    <3> QED
      BY <3>1, <3>2, WatchedGrows
  <2> QED
    BY <2>1, <2>2
<1>7. CASE DeleteScenarios(a)
  <2>1. CASE Fails(a, Continue(a, "delete mocks"))
    BY <1>2, <2>1
  <2>2. CASE ~Fails(a, Continue(a, "delete mocks"))
    <3>1. /\ scenarios' = [i \in ScenarioIds |-> IF i \in ScenariosOf(job[a].name) THEN None
                                                 ELSE scenarios[i]]
          /\ features' = features
          /\ Watch
      BY <1>7, <2>2 DEF DeleteScenarios
    <3>2. TimesStay
      BY <3>1 DEF TimesStay
    <3> QED
      BY <3>1, <3>2, WatchedGrows
  <2> QED
    BY <2>1, <2>2
<1>8. CASE DeleteMocks(a)
  <2>1. CASE Fails(a, Finish(a))
    BY <1>2, <2>1
  <2>2. CASE ~Fails(a, Finish(a))
    BY <1>8, <2>2, KeptGrows DEF DeleteMocks, KeepsFeatures, KeepsScenarios
  <2> QED
    BY <2>1, <2>2
<1>9. CASE \/ \E n \in Names : \/ CreateNewFeature(a, n)
                                \/ \E s \in ScenarioNames :
                                      CreateNewScenariosByFeature(a, n, s) \/ ToolCreateScenario(a, n, s)
           \/ \E i \in FeatureIds, yes \in BOOLEAN :
                 \/ FindToSet(a, i, yes)
                 \/ \E error \in BOOLEAN : FindToDelete(a, i, yes, error)
           \/ Stop(a)
  BY <1>1, <1>9 DEF CreateNewFeature, CreateNewScenariosByFeature, ToolCreateScenario, FindToSet,
                    FindToDelete, Reads, Stop
<1> QED
  BY <1>3, <1>4, <1>5, <1>6, <1>7, <1>8, <1>9 DEF HandlerStep

LEMMA DirectGrows ==
    ASSUME Typed, DirectStep
    PROVE  AdminGrows
<1> USE DEF Typed
<1>1. ASSUME NEW n \in Names, NEW active \in BOOLEAN, ToolCreateFeature(n, active)
      PROVE  AdminGrows
  <2>1. [name |-> n, active |-> active, at |-> clock'] \in FeatureDocs
    BY <1>1 DEF ToolCreateFeature, Now, ControlOK, FeatureDocs
  <2> QED
    BY <1>1, <2>1, InsertKeeps, KeptGrows DEF ToolCreateFeature, InsertFeature
<1>2. ASSUME NEW n \in Names, NEW active \in BOOLEAN, NEW i \in FeatureIds, UpdateFeature(i, n, active)
      PROVE  AdminGrows
  <2>1. features[i] \in FeatureDocs /\ scenarios' = scenarios /\ Watch
    BY <1>2 DEF UpdateFeature, DocsOK
  <2>2. features' = [features EXCEPT ![i] = [features[i] EXCEPT !.name = n, !.active = active]]
    BY <1>2 DEF UpdateFeature
  <2>3. [features[i] EXCEPT !.name = n, !.active = active].at = features[i].at
    BY <2>1 DEF FeatureDocs
  <2>4. TimesStay
    BY <2>1, <2>2, <2>3 DEF TimesStay, DocsOK
  <2> QED
    BY <2>1, <2>4, WatchedGrows
<1>3. ASSUME NEW i \in ScenarioIds, NEW s \in ScenarioNames, UpdateScenarioByFeature(i, s)
      PROVE  AdminGrows
  <2>1. scenarios[i] \in ScenarioDocs /\ features' = features /\ browse' = browse
    BY <1>3 DEF UpdateScenarioByFeature, DocsOK
  <2>2. scenarios' = [scenarios EXCEPT ![i] = [scenarios[i] EXCEPT !.name = s]]
    BY <1>3 DEF UpdateScenarioByFeature
  <2>3. /\ [scenarios[i] EXCEPT !.name = s] \in ScenarioDocs
        /\ [scenarios[i] EXCEPT !.name = s].at = scenarios[i].at
        /\ [scenarios[i] EXCEPT !.name = s].feature = scenarios[i].feature
    BY <2>1 DEF ScenarioDocs
  <2>4. KeepsScenarios
    BY <2>2, <2>3, NoneAssumption DEF KeepsScenarios, DocsOK
  <2> QED
    BY <2>1, <2>4, KeptGrows DEF KeepsFeatures
<1>4. CASE \/ \E n \in Names : CreateMockAPI(n)
           \/ \E i \in ScenarioIds : ActivateScenario(i)
  BY <1>4, KeptGrows DEF CreateMockAPI, ActivateScenario, KeepsFeatures, KeepsScenarios
<1> QED
  BY <1>1, <1>2, <1>3, <1>4 DEF DirectStep

(* What is promised stays promised while the list grows.                            *)
LEMMA GrowthCounts ==
    ASSUME NEW list, Grows(list), NEW i \in Listed(list)
    PROVE  /\ Lonely(list, i)' => Lonely(list, i)
           /\ Cardinality(Newer(list, i)) <= Cardinality(Newer(list, i))'
           /\ Cardinality(Newer(list, i)) \in Nat /\ Cardinality(Newer(list, i))' \in Nat
<1>1. Lonely(list, i)' => Lonely(list, i)
  BY DEF Lonely, Grows
<1>2. Newer(list, i) \subseteq Newer(list, i)'
  BY DEF Newer, Grows
<1>3. IsFiniteSet(Newer(list, i)')
  BY ListingIds, FS_Subset DEF Listed, Newer
<1> QED
  BY <1>1, <1>2, <1>3, NewerFinite, FS_Subset, FS_CardinalityType

LEMMA GrowthKeeps ==
    ASSUME NEW b \in Browsing, Promised(b), Grows(b.list)
    PROVE  Promised(b)'
<1>1. DueListed(b)'
  BY DEF Promised, DueListed, Grows
<1>2. \A i \in b.due \ b.seen : i \in Listed(b.list)
  BY DEF Promised, DueListed
<1>3. Skip(b) \in Nat
  BY SizeAssumption, Products DEF Browsing, Skip
<1>4. CASE b.op = "done"
  BY <1>1, <1>2, <1>4, GrowthCounts DEF Promised, Found
<1>5. CASE b.op # "done"
  <2>1. Awaited(b)'
    <3> SUFFICES ASSUME NEW i \in b.due \ b.seen, Lonely(b.list, i)'
                 PROVE  Cardinality(Newer(b.list, i))' >= Skip(b)
      BY DEF Awaited, Skip
    <3> QED
      BY <1>2, <1>3, <1>5, GrowthCounts DEF Promised, Awaited
  <2> QED
    BY <1>1, <1>5, <2>1 DEF Promised
<1> QED
  BY <1>4, <1>5

-------------------------------------------------------------------------------
(* What the client does.                                                        *)

LEMMA SameDocs ==
    ASSUME UNCHANGED docs, NEW b
    PROVE  Promised(b)' <=> Promised(b)
<1>1. Listed(b.list)' = Listed(b.list)
  BY DEF docs, Listed
<1>2. \A i : At(i)' = At(i)
  BY DEF docs, At
<1>3. \A i : Newer(b.list, i)' = Newer(b.list, i) /\ (Lonely(b.list, i)' <=> Lonely(b.list, i))
  BY <1>1, <1>2 DEF Newer, Lonely
<1> QED
  BY <1>1, <1>3 DEF Promised, DueListed, Found, Awaited, Skip

(* A document among the first n has fewer than n newer ones, any other has n.            *)
LEMMA FirstCounts ==
    ASSUME DocsOK, NEW list, NEW n \in Nat, NEW top \in First(n, Listed(list)),
           NEW i \in Listed(list), Lonely(list, i)
    PROVE  /\ i \in top => Cardinality(Newer(list, i)) < n
           /\ i \notin top => Cardinality(Newer(list, i)) >= n
<1> DEFINE L == Listed(list)
           N == Newer(list, i)
<1>1. /\ top \subseteq L
      /\ Cardinality(top) = IF n < Cardinality(L) THEN n ELSE Cardinality(L)
      /\ \A j \in top, k \in L \ top : At(j) >= At(k)
  BY DEF First
<1>2. IsFiniteSet(L) /\ Cardinality(L) \in Nat
  BY ListingIds, FS_CardinalityType DEF Listed
<1>3. IsFiniteSet(top) /\ Cardinality(top) \in Nat /\ Cardinality(top) <= n
  <2>1. IsFiniteSet(top) /\ Cardinality(top) \in Nat
    BY <1>1, <1>2, FS_Subset, FS_CardinalityType
  <2> HIDE DEF L
  <2> QED
    BY <1>1, <1>2, <2>1
<1>4. Cardinality(N) \in Nat
  BY NewerFinite
<1>5. \A j \in L : At(j) \in Nat
  BY AtNat
<1>6. N \subseteq L /\ (\A j \in N : At(j) > At(i)) /\ \A j \in L : At(j) > At(i) => j \in N
  BY DEF Newer
<1>7. CASE i \in top
  <2>1. N \subseteq top \ {i}
    BY <1>1, <1>5, <1>6, <1>7
  <2>2. IsFiniteSet(top \ {i}) /\ Cardinality(top \ {i}) = Cardinality(top) - 1
    BY <1>3, <1>7, FS_RemoveElement
  <2>3. Cardinality(N) <= Cardinality(top \ {i})
    BY <2>1, <2>2, FS_Subset
  <2> HIDE DEF N
  <2>4. Cardinality(N) < n
    BY <1>3, <1>4, <2>2, <2>3
  <2> QED
    BY <1>7, <2>4 DEF N
<1>8. CASE i \notin top
  <2>1. top \subseteq N
    BY <1>1, <1>5, <1>6, <1>8 DEF Lonely
  <2>2. IsFiniteSet(N)
    BY NewerFinite
  <2>3. Cardinality(top) <= Cardinality(N)
    BY <2>1, <2>2, FS_Subset
  <2>4. Cardinality(top) # Cardinality(L)
    BY <1>1, <1>2, <1>8, FS_Subset
  <2> HIDE DEF N, L
  <2>5. Cardinality(N) >= n
    BY <1>1, <1>3, <1>4, <2>3, <2>4
  <2> QED
    BY <1>8, <2>5 DEF N
<1> QED
  BY <1>7, <1>8

LEMMA PageCounts ==
    ASSUME DocsOK, NEW b \in Browsing, NEW page \in Pages(b, Listed(b.list)),
           NEW i \in Listed(b.list) \ page, Lonely(b.list, i),
           Cardinality(Newer(b.list, i)) >= Skip(b)
    PROVE  Cardinality(Newer(b.list, i)) >= Skip(b) + b.size
<1>1. PICK skipped \in First(Skip(b), Listed(b.list)) :
          page \cup skipped \in First(Skip(b) + b.size, Listed(b.list))
  BY DEF Pages
<1>2. Skip(b) \in Nat /\ Skip(b) + b.size \in Nat
  BY SizeAssumption, Products DEF Browsing, Skip
<1>3. Cardinality(Newer(b.list, i)) \in Nat
  BY NewerFinite
<1>4. i \notin skipped
  <2>1. i \in skipped => Cardinality(Newer(b.list, i)) < Skip(b)
    BY <1>1, <1>2, FirstCounts
  <2> QED
    BY <1>2, <1>3, <2>1
<1> QED
  BY <1>1, <1>2, <1>4, FirstCounts

(* The last page ends with the last document.                                       *)
LEMMA LastPage ==
    ASSUME DocsOK, NEW b \in Browsing, b.page >= TotalPages(b), Cardinality(Listed(b.list)) <= b.total,
           NEW i \in Listed(b.list), Cardinality(Newer(b.list, i)) >= Skip(b) + b.size
    PROVE  FALSE
<1> DEFINE L == Listed(b.list)
           N == Newer(b.list, i)
<1>1. IsFiniteSet(L) /\ Cardinality(L) \in Nat
  BY ListingIds, FS_CardinalityType DEF Listed
<1>2. IsFiniteSet(L \ {i}) /\ Cardinality(L \ {i}) = Cardinality(L) - 1
  BY <1>1, FS_RemoveElement
<1>3. i \notin N
  <2>1. ~(At(i) > At(i))
    BY AtNat
  <2> QED
    BY <2>1 DEF Newer
<1>4. N \subseteq L \ {i}
  BY <1>3 DEF Newer
<1>5. Cardinality(N) <= Cardinality(L \ {i}) /\ Cardinality(N) \in Nat
  BY <1>2, <1>4, NewerFinite, FS_Subset
<1>6. b.total <= Skip(b) + b.size /\ b.total \in Nat
  BY PagesCover DEF Browsing
<1>7. Skip(b) + b.size \in Nat
  BY SizeAssumption, Products DEF Browsing, Skip
<1> HIDE DEF L, N
<1>8. Cardinality(L) <= b.total /\ Cardinality(N) >= Skip(b) + b.size
  BY DEF L, N
<1> QED
  BY <1>1, <1>2, <1>5, <1>6, <1>7, <1>8

LEMMA PromiseMade ==
    ASSUME UNCHANGED docs, NEW c, browse' = c, c # None /\ ~c.excused => Promised(c)
    PROVE  BrowseInv'
<1>1. Promised(c)' <=> Promised(c)
  BY SameDocs
<1> QED
  BY <1>1 DEF BrowseInv, Promised, DueListed, Found, Awaited, Skip

(* A page that is not the last leaves what is still to come, the last one nothing.           *)
LEMMA PageKeeps ==
    ASSUME DocsOK, NEW b \in Browsing, b.op # "done", Promised(b),
           NEW page \in Pages(b, Listed(b.list)),
           NEW i \in b.due \ (b.seen \cup page), Lonely(b.list, i)
    PROVE  /\ i \in Listed(b.list)
           /\ Cardinality(Newer(b.list, i)) >= Skip(b) + b.size
BY PageCounts DEF Promised, DueListed, Awaited

Turned(b, page) ==
    LET d == [b EXCEPT !.seen = @ \cup page] IN
    IF d.page >= TotalPages(d)
    THEN [d EXCEPT !.op = "done", !.excused = @ \/ Cardinality(Listed(d.list)) > d.total]
    ELSE [d EXCEPT !.op = "count", !.page = @ + 1]

LEMMA PageFound ==
    ASSUME DocsOK, NEW b \in Browsing, b.op # "done", ~b.excused => Promised(b),
           NEW page \in Pages(b, Listed(b.list)), NEW c,
           c = Turned(b, page),
           ~c.excused
    PROVE  Promised(c)
<1> DEFINE d == [b EXCEPT !.seen = @ \cup page]
<1>1. /\ d.page = b.page /\ d.size = b.size /\ d.total = b.total /\ d.list = b.list
      /\ d.due = b.due /\ d.seen = b.seen \cup page /\ d.excused = b.excused
  BY DEF Browsing
<1>2. TotalPages(d) = TotalPages(b)
  BY <1>1 DEF TotalPages
<1>3. d = [b EXCEPT !.seen = b.seen \cup page]
  OBVIOUS
<1> HIDE DEF d
<1>4. c = IF b.page >= TotalPages(b)
          THEN [d EXCEPT !.op = "done", !.excused = b.excused \/ Cardinality(Listed(b.list)) > b.total]
          ELSE [d EXCEPT !.op = "count", !.page = b.page + 1]
  BY <1>1, <1>2, <1>3 DEF Turned
<1>5. /\ c.list = b.list /\ c.due = b.due /\ c.seen = b.seen \cup page /\ c.size = b.size
      /\ ~b.excused
  BY <1>1, <1>3, <1>4 DEF Browsing
<1>6. DueListed(c)
  BY <1>5 DEF Promised, DueListed
<1>7. \A i \in c.due \ c.seen : Lonely(c.list, i) =>
          i \in Listed(b.list) /\ Cardinality(Newer(b.list, i)) >= Skip(b) + b.size
  BY <1>5, PageKeeps
<1>8. CASE b.page >= TotalPages(b)
  <2>1. c.op = "done" /\ ~(Cardinality(Listed(b.list)) > b.total)
    BY <1>3, <1>4, <1>8 DEF Browsing
  <2>2. Cardinality(Listed(b.list)) <= b.total
    <3>1. Cardinality(Listed(b.list)) \in Nat /\ b.total \in Nat
      BY ListingIds, FS_CardinalityType DEF Listed, Browsing
    <3> QED
      BY <2>1, <3>1
  <2>3. Found(c)
    BY <1>5, <1>7, <1>8, <2>2, LastPage DEF Found
  <2> QED
    BY <1>6, <2>1, <2>3 DEF Promised
<1>9. CASE ~(b.page >= TotalPages(b))
  <2>1. c.op = "count" /\ c.page = b.page + 1
    BY <1>3, <1>4, <1>9 DEF Browsing
  <2>2. Skip(c) = Skip(b) + b.size
    <3>1. b.page \in Nat \ {0} /\ b.size \in Nat \ {0}
      BY SizeAssumption DEF Browsing
    <3>2. (b.page + 1) - 1 = b.page
      BY <3>1
    <3> QED
      BY <1>5, <2>1, <3>1, <3>2, Products DEF Skip
  <2>3. Awaited(c)
    BY <1>5, <1>7, <2>2 DEF Awaited
  <2> QED
    BY <1>6, <2>1, <2>3 DEF Promised
<1> QED
  BY <1>8, <1>9

LEMMA ClientKeeps ==
    ASSUME Typed, BrowseInv, ClientStep
    PROVE  BrowseInv'
<1> USE DEF Typed
<1>1. ASSUME NEW list \in Lists, NEW http \in BOOLEAN, NEW size \in Sizes, Browse(list, http, size)
      PROVE  BrowseInv'
  <2>1. PICK c : c = browse'
    OBVIOUS
  <2>2. /\ c.list = list /\ c.due = Listed(list) /\ c.page = 1 /\ c.op # "done"
        /\ c.size \in 1..MaxPageSize /\ UNCHANGED docs
    BY <1>1, <2>1, SizeAssumption, PageSizeRange DEF Browse
  <2>3. Skip(c) = 0
    <3>1. \A k \in Nat : (1 - 1) * k = 0
      OBVIOUS
    <3> QED
      BY <2>2, <3>1, SizeAssumption DEF Skip
  <2>4. Promised(c)
    BY <2>2, <2>3, NewerFinite DEF Promised, DueListed, Awaited
  <2> QED
    BY <2>1, <2>2, <2>4, PromiseMade
<1>2. ASSUME NEW op, Reading(op)
      PROVE  browse \in Browsing /\ browse.op = op /\ browse # None /\ UNCHANGED docs
  BY <1>2 DEF Reading, BrowseOK
<1>3. ASSUME NEW c, browse' = c, UNCHANGED docs, c \in Browsing, browse \in Browsing, browse # None,
             c # None /\ ~c.excused => /\ ~browse.excused /\ c.op # "done" /\ browse.op # "done"
                                       /\ c.list = browse.list /\ c.due = browse.due
                                       /\ browse.seen \subseteq c.seen
                                       /\ c.page = browse.page /\ c.size = browse.size
      PROVE  BrowseInv'
  <2>1. c # None /\ ~c.excused => Promised(c)
    BY <1>3 DEF BrowseInv, Promised, DueListed, Awaited, Skip
  <2> QED
    BY <1>3, <2>1, PromiseMade
<1>4. ASSUME browse' = None, UNCHANGED docs
      PROVE  BrowseInv'
  BY <1>4 DEF BrowseInv
<1>5. CASE ListScenariosByFeature
  <2>1. browse \in Browsing /\ browse # None /\ browse.op = "lead" /\ UNCHANGED docs
    BY <1>2, <1>5 DEF ListScenariosByFeature
  <2>2. browse.list.name \in Names
    BY <2>1 DEF LeadOK
  <2>3. PICK i : i = global[browse.list.name]
    OBVIOUS
  <2>4. i \in ScenarioIds \cup {None}
    BY <2>2, <2>3 DEF DocsOK
  <2>5. CASE browse' = None
    BY <1>4, <2>1, <2>5
  <2>6. CASE browse' # None
    <3>1. PICK c : c = browse'
      OBVIOUS
    <3>2. c = [browse EXCEPT !.op = "count"]
          \/ (i # None /\ c = [browse EXCEPT !.op = "count", !.seen = browse.seen \cup {i}])
      BY <1>5, <2>1, <2>3, <2>6, <3>1 DEF ListScenariosByFeature
    <3>3. c \in Browsing /\ c.excused = browse.excused /\ c.op = "count" /\ c.list = browse.list
          /\ c.due = browse.due /\ browse.seen \subseteq c.seen /\ c.page = browse.page
          /\ c.size = browse.size
      <4>1. CASE c = [browse EXCEPT !.op = "count"]
        BY <2>1, <4>1 DEF Browsing
      <4>2. CASE i # None /\ c = [browse EXCEPT !.op = "count", !.seen = browse.seen \cup {i}]
        <5>1. browse.seen \cup {i} \in SUBSET Ids
          BY <2>1, <2>4, <4>2 DEF Browsing, Ids
        <5> QED
          BY <2>1, <4>2, <5>1 DEF Browsing
      <4> QED
        BY <3>2, <4>1, <4>2
    <3> QED
      BY <1>3, <2>1, <3>1, <3>3
  <2> QED
    BY <2>5, <2>6
<1>6. CASE Count
  <2>1. browse \in Browsing /\ browse # None /\ browse.op = "count" /\ UNCHANGED docs
    BY <1>2, <1>6 DEF Count
  <2>2. PICK c : c = browse'
    OBVIOUS
  <2>3. PICK n \in Nat : n = Cardinality(Listed(browse.list))
    BY ListingIds, FS_CardinalityType DEF Listed
  <2>4. c = [browse EXCEPT !.op = "find", !.total = n]
    BY <1>6, <2>2, <2>3 DEF Count
  <2>5. c \in Browsing /\ c.excused = browse.excused /\ c.op = "find" /\ c.list = browse.list
        /\ c.due = browse.due /\ c.seen = browse.seen /\ c.page = browse.page
        /\ c.size = browse.size
    BY <2>1, <2>4 DEF Browsing
  <2> QED
    BY <1>3, <2>1, <2>2, <2>5
<1>7. CASE FindManyWithPagination
  <2>1. browse \in Browsing /\ browse # None /\ browse.op = "find" /\ UNCHANGED docs
    BY <1>2, <1>7 DEF FindManyWithPagination
  <2>2. PICK page \in Pages(browse, Listed(browse.list)) : browse' = Turned(browse, page)
    BY <1>7 DEF FindManyWithPagination, Turned
  <2>3. PICK c : c = browse'
    OBVIOUS
  <2>4. c # None /\ ~c.excused => Promised(c)
    BY <2>1, <2>2, <2>3, PageFound DEF BrowseInv
  <2> QED
    BY <2>1, <2>3, <2>4, PromiseMade
<1>8. CASE ListFails
  <2>1. browse \in Browsing /\ browse # None /\ UNCHANGED docs
    BY <1>2, <1>8 DEF ListFails
  <2>2. [browse EXCEPT !.op = "done", !.excused = TRUE].excused
    BY <2>1 DEF Browsing
  <2> QED
    BY <1>8, <2>2 DEF ListFails, BrowseInv
<1>9. CASE Leave
  BY <1>9 DEF Leave, BrowseInv
<1> QED
  BY <1>1, <1>5, <1>6, <1>7, <1>8, <1>9 DEF ClientStep

LEMMA AdminKeeps ==
    ASSUME Typed, BrowseInv, AdminGrows
    PROVE  BrowseInv'
<1> SUFFICES ASSUME browse' # None, ~browse'.excused
             PROVE  Promised(browse)'
  BY DEF BrowseInv
<1>1. PICK b : b = browse
  OBVIOUS
<1>2. CASE b = None
  BY <1>1, <1>2 DEF AdminGrows
<1>3. CASE b # None
  <2>1. b \in Browsing /\ browse' = b /\ Grows(b.list) /\ Promised(b)
    BY <1>1, <1>3 DEF AdminGrows, Typed, BrowseOK, BrowseInv
  <2>2. Promised(b)'
    BY <2>1, GrowthKeeps
  <2> QED
    BY <2>1, <2>2 DEF Promised, DueListed, Found, Awaited, Skip
<1> QED
  BY <1>2, <1>3

(* A client that reads a list of any length page by page, whatever is created, renamed and   *)
(* deleted beside it, ends with every document that was there all the time, but for      *)
(* those that share their time of creation with another, unless documents left the list   *)
(* or it grew between the count and the read of the last page.                            *)
THEOREM BrowsingMissesNothing == Spec => []BrowseMissesNothing
<1>1. Init => Typed /\ BrowseInv
  BY TypedInit DEF Init, BrowseInv
<1>2. Typed /\ BrowseInv /\ [Next]_vars => Typed' /\ BrowseInv'
  <2> SUFFICES ASSUME Typed, BrowseInv, [Next]_vars
               PROVE  BrowseInv'
    BY TypedStep
  <2>1. CASE (\E a \in Admins : HandlerStep(a)) \/ DirectStep
    BY <2>1, HandlerGrows, DirectGrows, AdminKeeps
  <2>2. CASE ClientStep
    BY <2>2, ClientKeeps
  <2>3. CASE UNCHANGED vars
    BY <2>3, KeptGrows, AdminKeeps DEF vars, docs, KeepsFeatures, KeepsScenarios
  <2> QED
    BY <2>1, <2>2, <2>3, NextIs
<1>3. BrowseInv => BrowseMissesNothing
  BY DEF BrowseInv, BrowseMissesNothing, Promised, Found, DueListed, Lonely
<1> QED
  BY <1>1, <1>2, <1>3, PTL DEF Spec
================================================================================
