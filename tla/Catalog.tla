-------------------------------- MODULE Catalog --------------------------------
(***************************************************************************)
(* The catalog of features and scenarios, as the HTTP handlers and the tools   *)
(* write it and as a client browses it page by page.                         *)
(*                                                                          *)
(* A handler is one step per MongoDB operation.  Nothing in the database makes *)
(* a name unique or ties a scenario to its feature: the handlers check before   *)
(* they insert, HTTP and tools in different ways, and features are deleted with *)
(* their scenarios and mocks by name, one collection after another.  The HTTP   *)
(* handlers ignore what fails on the way, the tools stop.                      *)
(*                                                                          *)
(* A list is sorted by the time of creation, newest first, and a page is two     *)
(* operations: the number of documents and then those of the page.             *)
(***************************************************************************)
EXTENDS Integers, FiniteSets

CONSTANTS
    Admins, Names, ScenarioNames,
    FeatureIds, ScenarioIds,  \* numbers; bound: the documents that exist at a time
    None,
    Sizes,                    \* the page sizes that clients ask for
    DefaultPageSize, MaxPageSize,
    MaxHandlers               \* bound: the calls of handlers

ASSUME IdAssumption == /\ FeatureIds \cup ScenarioIds \subseteq Nat /\ FeatureIds \cap ScenarioIds = {}
                       /\ IsFiniteSet(FeatureIds) /\ IsFiniteSet(ScenarioIds)
ASSUME SizeAssumption == /\ Sizes \subseteq Int
                         /\ DefaultPageSize \in 1..MaxPageSize /\ MaxPageSize \in Nat
ASSUME BoundAssumption == MaxHandlers \in Nat

VARIABLES
    features, scenarios,  \* the collections
    mocks,                \* the names of features that have mock APIs
    global,               \* the scenario that is globally active, by name of the feature
    job,                  \* the handler of each admin
    browse,               \* the client that reads a list
    clock,                \* the latest created_at; two documents may share it
    calls,
    blamed                \* history: the names whose scenarios or mocks may lack their feature
                          \* for a rename, a creation without it, or a broken deletion

docs == <<features, scenarios, mocks, global>>
vars == <<docs, job, browse, clock, calls, blamed>>

\* All features, or those that a query for one name finds; all scenarios, or those of
\* one feature.
Lists == [of : {"features", "scenarios"}, name : Names \cup {None}]

FeatureDocs  == [name : Names, active : BOOLEAN, at : Nat]
ScenarioDocs == [feature : Names, name : ScenarioNames, at : Nat]

Creating == [op : {"feature"}, name : Names, at : Nat]
            \cup [op : {"scenario"}, name : Names, scenario : ScenarioNames, at : Nat]
Cascade  == {"delete scenarios", "delete mocks"}
Deleting == [op : {"delete"} \cup Cascade, tool : BOOLEAN, id : FeatureIds, name : Names \cup {None}]
Setting  == [op : {"set active"}, id : FeatureIds, active : BOOLEAN]

ASSUME NoneAssumption == None \notin FeatureDocs \cup ScenarioDocs \cup Deleting

Ids == FeatureIds \cup ScenarioIds
Browsing == [op : {"lead", "count", "find", "done"}, list : Lists, lenient : BOOLEAN, page : Nat \ {0},
             size : 1..MaxPageSize, total : Nat, seen : SUBSET Ids, due : SUBSET Ids,
             excused : BOOLEAN]

TypeOK ==
    /\ features \in [FeatureIds -> FeatureDocs \cup {None}]
    /\ scenarios \in [ScenarioIds -> ScenarioDocs \cup {None}]
    /\ mocks \subseteq Names
    /\ global \in [Names -> ScenarioIds \cup {None}]
    /\ job \in [Admins -> Creating \cup Deleting \cup Setting \cup {None}]
    /\ browse = None \/ browse \in Browsing
    /\ clock \in Nat /\ calls \in 0..MaxHandlers
    /\ blamed \subseteq Names

Init ==
    /\ features = [i \in FeatureIds |-> None]
    /\ scenarios = [i \in ScenarioIds |-> None]
    /\ mocks = {} /\ global = [n \in Names |-> None]
    /\ job = [a \in Admins |-> None]
    /\ browse = None
    /\ clock = 0 /\ calls = 0
    /\ blamed = {}

-------------------------------------------------------------------------------
Exists(n)      == \E i \in FeatureIds : features[i] # None /\ features[i].name = n
Taken(n, s)    == \E i \in ScenarioIds : /\ scenarios[i] # None
                                         /\ scenarios[i].feature = n /\ scenarios[i].name = s
ScenariosOf(n) == {i \in ScenarioIds : scenarios[i] # None /\ scenarios[i].feature = n}

\* The documents of a list.
Listing(list, fs, ss) ==
    IF list.of = "features"
    THEN {i \in FeatureIds : fs[i] # None /\ list.name \in {None, fs[i].name}}
    ELSE {i \in ScenarioIds : ss[i] # None /\ list.name \in {None, ss[i].feature}}
Listed(list) == Listing(list, features, scenarios)
At(i) == IF i \in FeatureIds THEN features[i].at ELSE scenarios[i].at

\* An id is never used again: a new document takes one that nothing holds, the least of
\* them as which one makes no difference.
Held == (IF browse = None THEN {} ELSE browse.due \cup browse.seen)
        \cup {global[n] : n \in Names}
        \cup {job[a].id : a \in {b \in Admins : job[b] # None /\ "id" \in DOMAIN job[b]}}
Least(ids) == {i \in ids : \A j \in ids : i <= j}
FreshFeatures  == Least({i \in FeatureIds \ Held : features[i] = None})
FreshScenarios == Least({i \in ScenarioIds \ Held : scenarios[i] = None})

\* A call of a handler; its first operation is part of the step.
Call == calls < MaxHandlers /\ calls' = calls + 1

\* What a step does to the client: documents that leave its list excuse it.
Watch == browse' = IF browse = None
                      \/ Listed(browse.list) \subseteq Listing(browse.list, features', scenarios')
                   THEN browse ELSE [browse EXCEPT !.excused = TRUE]

Idle(a)      == job[a] = None
Doing(a, op) == job[a] # None /\ job[a].op = op
Finish(a)    == [job EXCEPT ![a] = None]
Continue(a, op) == [job EXCEPT ![a].op = op]

Reads(a) == /\ Call /\ Idle(a)
            /\ UNCHANGED <<docs, browse, blamed>>
Now == clock' \in {clock, clock + 1}

-------------------------------------------------------------------------------
(* Creation. *)

\* The error of the look-up counts as "no such feature".
CreateNewFeature(a, n) ==
    /\ Reads(a) /\ Now
    /\ \E error \in BOOLEAN : ~Exists(n) \/ error
    /\ job' = [job EXCEPT ![a] = [op |-> "feature", name |-> n, at |-> clock']]

InsertFeature(doc) ==
    /\ \E i \in FreshFeatures : features' = [features EXCEPT ![i] = doc]
    /\ UNCHANGED <<scenarios, mocks, global, browse, blamed>>

CreateFeature(a) ==
    /\ Doing(a, "feature")
    /\ InsertFeature([name |-> job[a].name, active |-> TRUE, at |-> job[a].at])
    /\ job' = Finish(a)
    /\ UNCHANGED <<clock, calls>>

\* The tool does not look first.
ToolCreateFeature(n, active) ==
    /\ Call /\ Now
    /\ InsertFeature([name |-> n, active |-> active, at |-> clock'])
    /\ UNCHANGED job

\* HTTP looks for the scenario and not for the feature.
CreateNewScenariosByFeature(a, n, s) ==
    /\ Reads(a) /\ Now
    /\ \E error \in BOOLEAN : ~Taken(n, s) \/ error
    /\ job' = [job EXCEPT ![a] = [op |-> "scenario", name |-> n, scenario |-> s, at |-> clock']]

\* The tool looks for the feature and not for the scenario; a failed look-up is an error.
ToolCreateScenario(a, n, s) ==
    /\ Reads(a) /\ Now
    /\ Exists(n)
    /\ job' = [job EXCEPT ![a] = [op |-> "scenario", name |-> n, scenario |-> s, at |-> clock']]

CreateScenario(a) ==
    /\ Doing(a, "scenario")
    /\ \E i \in FreshScenarios : scenarios' = [scenarios EXCEPT ![i] =
           [feature |-> job[a].name, name |-> job[a].scenario, at |-> job[a].at]]
    /\ blamed' = IF Exists(job[a].name) THEN blamed ELSE blamed \cup {job[a].name}
    /\ job' = Finish(a)
    /\ UNCHANGED <<features, mocks, global, browse, clock, calls>>

\* The mock APIs of a feature are created without a look at it (module MockForward).
CreateMockAPI(n) ==
    /\ Call
    /\ mocks' = mocks \cup {n}
    /\ blamed' = IF Exists(n) THEN blamed ELSE blamed \cup {n}
    /\ UNCHANGED <<features, scenarios, global, job, browse, clock>>

-------------------------------------------------------------------------------
(* Changes of one document. *)

\* A new name is not checked, and goes into the document of the feature alone.
UpdateFeature(i, n, active) ==
    /\ Call
    /\ features[i] # None
    /\ features' = [features EXCEPT ![i] = [@ EXCEPT !.name = n, !.active = active]]
    /\ blamed' = IF n = features[i].name THEN blamed ELSE blamed \cup {features[i].name}
    /\ UNCHANGED <<scenarios, mocks, global, job, clock>>
    /\ Watch

UpdateScenarioByFeature(i, s) ==
    /\ Call
    /\ scenarios[i] # None
    /\ scenarios' = [scenarios EXCEPT ![i].name = s]
    /\ UNCHANGED <<features, mocks, global, job, browse, clock, blamed>>

\* update_feature, enable_feature and disable_feature: by name first, then by id.
FindToSet(a, i, active) ==
    /\ Reads(a)
    /\ features[i] # None
    /\ job' = [job EXCEPT ![a] = [op |-> "set active", id |-> i, active |-> active]]
    /\ UNCHANGED clock

SetActive(a) ==
    /\ Doing(a, "set active")
    /\ features' = IF features[job[a].id] = None THEN features
                   ELSE [features EXCEPT ![job[a].id].active = job[a].active]
    /\ job' = Finish(a)
    /\ UNCHANGED <<scenarios, mocks, global, browse, clock, calls, blamed>>

\* A global activation, in one step (module ScenarioActivation).
ActivateScenario(i) ==
    /\ Call
    /\ scenarios[i] # None
    /\ global' = [global EXCEPT ![scenarios[i].feature] = i]
    /\ UNCHANGED <<features, scenarios, mocks, job, browse, clock, blamed>>

-------------------------------------------------------------------------------
(* Deletion. *)

\* HTTP finds the feature by id and the tool one of the name.  A look-up by HTTP that
\* fails counts as a feature without a name, and the deletion goes on.
FindToDelete(a, i, tool, error) ==
    /\ Reads(a)
    /\ features[i] # None
    /\ tool => ~error
    /\ job' = [job EXCEPT ![a] = [op |-> "delete", tool |-> tool, id |-> i,
                                  name |-> IF error THEN None ELSE features[i].name]]
    /\ UNCHANGED clock

Broken(a) == blamed' = IF job[a].op \in Cascade THEN blamed \cup ({job[a].name} \cap Names) ELSE blamed

\* An operation of a deletion fails: HTTP goes on, the tool stops.
Fails(a, next) ==
    /\ job' = IF job[a].tool THEN Finish(a) ELSE next
    /\ Broken(a)
    /\ UNCHANGED <<docs, browse, clock, calls>>

\* The document may have another name by now, which nothing below deletes.
DeleteById(a) ==
    /\ Doing(a, "delete")
    /\ LET i == job[a].id
           names == IF features[i] = None THEN {} ELSE {features[i].name} IN
       \/ /\ features' = [features EXCEPT ![i] = None]
          /\ job' = Continue(a, "delete scenarios")
          /\ blamed' = blamed \cup (names \ {job[a].name})
          /\ UNCHANGED <<scenarios, mocks, global, clock, calls>>
          /\ Watch
       \/ Fails(a, Continue(a, "delete scenarios"))

DeleteScenarios_OfId(a) ==
    /\ Doing(a, "delete scenarios")
    /\ job' = Continue(a, "delete mocks")
    /\ UNCHANGED <<docs, browse, clock, calls, blamed>>

DeleteScenarios(a) ==
    /\ Doing(a, "delete scenarios")
    /\ \/ /\ scenarios' = [i \in ScenarioIds |-> IF i \in ScenariosOf(job[a].name) THEN None
                                                 ELSE scenarios[i]]
          /\ job' = Continue(a, "delete mocks")
          /\ UNCHANGED <<features, mocks, global, clock, calls, blamed>>
          /\ Watch
       \/ Fails(a, Continue(a, "delete mocks"))

DeleteMocks(a) ==
    /\ Doing(a, "delete mocks")
    /\ \/ /\ mocks' = mocks \ {job[a].name}
          /\ job' = Finish(a)
          /\ UNCHANGED <<features, scenarios, global, browse, clock, calls, blamed>>
       \/ Fails(a, Finish(a))

\* The process dies, or an insert fails.
Stop(a) ==
    /\ ~Idle(a)
    /\ job' = Finish(a)
    /\ Broken(a)
    /\ UNCHANGED <<docs, browse, clock, calls>>

-------------------------------------------------------------------------------
(* Lists. *)

\* Normalize: a size that is missing, zero or negative, and one above the maximum.
PageSize_ZeroIsASize(size) ==
    CASE size < 0 -> DefaultPageSize [] size > MaxPageSize -> MaxPageSize [] OTHER -> size
PageSize(size) ==
    CASE size < 1 -> DefaultPageSize [] size > MaxPageSize -> MaxPageSize [] OTHER -> size

TotalPages_Floor(b) == b.total \div b.size
TotalPages(b) == b.total \div b.size + (IF b.total % b.size > 0 THEN 1 ELSE 0)

Skip(b) == (b.page - 1) * b.size

\* The scenarios of a feature are listed by HTTP with the one that is globally active in
\* front, and leniently: an error is an empty page.
Browse(list, http, size) ==
    LET lenient == http /\ list.of = "scenarios" /\ list.name # None IN
    /\ Call
    /\ browse = None
    /\ browse' = [op |-> IF lenient THEN "lead" ELSE "count", list |-> list, lenient |-> lenient,
                  page |-> 1, size |-> PageSize(size), total |-> 0,
                  seen |-> {}, due |-> Listed(list), excused |-> FALSE]
    /\ UNCHANGED <<docs, job, clock, blamed>>

Reading(op) == browse # None /\ browse.op = op /\ UNCHANGED <<docs, job, clock, calls, blamed>>

\* If it does not exist any more, the list is an error.
ListScenariosByFeature ==
    /\ Reading("lead")
    /\ LET i == global[browse.list.name] IN
       browse' = IF i = None THEN [browse EXCEPT !.op = "count"]
                 ELSE IF scenarios[i] = None THEN None
                 ELSE [browse EXCEPT !.op = "count", !.seen = @ \cup {i}]

Count ==
    /\ Reading("count")
    /\ browse' = [browse EXCEPT !.op = "find", !.total = Cardinality(Listed(browse.list))]

\* The first documents of a set, sorted by created_at; documents with one time in any order.
First(n, set) ==
    {top \in SUBSET set :
        /\ Cardinality(top) = IF n < Cardinality(set) THEN n ELSE Cardinality(set)
        /\ \A i \in top, j \in set \ top : At(i) >= At(j)}

\* Skip, then limit.
Pages(b, set) ==
    {page \in SUBSET set : \E skipped \in First(Skip(b), set) :
        /\ page \cap skipped = {}
        /\ page \cup skipped \in First(Skip(b) + b.size, set)}

FindManyWithPagination ==
    /\ Reading("find")
    /\ \E page \in Pages(browse, Listed(browse.list)) :
           LET b == [browse EXCEPT !.seen = @ \cup page] IN
           browse' = IF b.page >= TotalPages(b)
                     THEN [b EXCEPT !.op = "done",
                              !.excused = @ \/ Cardinality(Listed(b.list)) > b.total]
                     ELSE [b EXCEPT !.op = "count", !.page = @ + 1]

\* A count or a read fails; an empty page without a total has no page after it.
ListFails ==
    /\ Reading("count") \/ Reading("find")
    /\ browse' = IF browse.lenient THEN [browse EXCEPT !.op = "done", !.excused = TRUE] ELSE None

Leave == Reading("done") /\ browse' = None

-------------------------------------------------------------------------------
Next ==
    \/ \E a \in Admins :
        \/ \E n \in Names :
            \/ CreateNewFeature(a, n)
            \/ \E s \in ScenarioNames : CreateNewScenariosByFeature(a, n, s) \/ ToolCreateScenario(a, n, s)
        \/ CreateFeature(a) \/ CreateScenario(a)
        \/ \E i \in FeatureIds, yes \in BOOLEAN :
            \/ FindToSet(a, i, yes)
            \/ \E error \in BOOLEAN : FindToDelete(a, i, yes, error)
        \/ SetActive(a)
        \/ DeleteById(a) \/ DeleteScenarios(a) \/ DeleteMocks(a)
        \/ Stop(a)
    \/ \E n \in Names, active \in BOOLEAN :
        \/ ToolCreateFeature(n, active)
        \/ \E i \in FeatureIds : UpdateFeature(i, n, active)
    \/ \E n \in Names : CreateMockAPI(n)
    \/ \E i \in ScenarioIds : ActivateScenario(i) \/ \E s \in ScenarioNames : UpdateScenarioByFeature(i, s)
    \/ \E list \in Lists, http \in BOOLEAN, size \in Sizes : Browse(list, http, size)
    \/ ListScenariosByFeature \/ Count \/ FindManyWithPagination \/ ListFails \/ Leave

Spec == Init /\ [][Next]_vars

-------------------------------------------------------------------------------
\* Scenarios and mocks of a feature that is not there are the work of a rename, of a
\* creation that did not find or did not look for the feature, or of a deletion that
\* failed, stopped or is going on: a deletion by HTTP or by the tool whose operations
\* succeed leaves nothing behind, whatever is created, renamed and deleted beside it.
Underway(n) == \E a \in Admins : /\ job[a] # None /\ job[a].op \in Cascade
                                 /\ job[a].name = n
OrphansExplained ==
    \A n \in Names : (ScenariosOf(n) # {} \/ n \in mocks) /\ ~Exists(n)
                         => n \in blamed \/ Underway(n)

\* A client that reads a list page by page sees every document that was there all the time,
\* unless documents left the list meanwhile, the list grew between the count and the
\* read of its last page, or two documents have one time of creation.
BrowseMissesNothing ==
    browse # None /\ browse.op = "done" /\ ~browse.excused =>
        \A i \in browse.due \ browse.seen :
            \E j \in Listed(browse.list) \ {i} : i \in Listed(browse.list) /\ At(i) = At(j)
===============================================================================
