-------------------------- MODULE ScenarioActivation --------------------------
(***************************************************************************)
(* The account_scenarios collection: which scenario is active for a        *)
(* feature, globally or for one account.  Every request is one run of an   *)
(* HTTP handler, a tool handler or a forwarded call; each repository or    *)
(* cache call of a handler is one step, because nothing (no transaction,   *)
(* no unique index, no lock) joins two of them together.                   *)
(*                                                                         *)
(* A request that returns an error or whose process dies stops at "failed" *)
(* with the effects of the steps it has taken.                             *)
(***************************************************************************)
CONSTANTS
    Requests,    \* runs of handlers; each starts at most once
    Features,
    Scenarios,   \* scenario document ids
    Accounts,
    Global,      \* the account_id of a global mapping (null)
    None,        \* an absent scenario id or input
    FeatureOf,   \* scenario id -> the feature of its document
    NameOf,      \* scenario id -> its name; unique only inside a feature
    Prevs,       \* the PrevScenarioIds that clients send (None: no id)
    Ops          \* the handlers that run in this instance

ActivateOps == {"activate", "activateTool"}
DeleteOps   == {"delete", "deleteTool"}
ClearOps    == {"deactivateTool", "setInactiveTool"}
ScenarioOps == ActivateOps \cup DeleteOps \cup {"setInactiveTool"}
AllOps      == ActivateOps \cup DeleteOps \cup ClearOps \cup {"forward"}

ASSUME SlotAssumption == Global \notin Accounts
ASSUME IdAssumption   == None \notin Scenarios
ASSUME FeatureAssumption == FeatureOf \in [Scenarios -> Features]
ASSUME NameAssumption ==
    /\ DOMAIN NameOf = Scenarios
    /\ \A s, t \in Scenarios :
          FeatureOf[s] = FeatureOf[t] /\ NameOf[s] = NameOf[t] => s = t
ASSUME OpsAssumption == Ops \subseteq AllOps
ASSUME PrevAssumption == Prevs \subseteq Scenarios \cup {None}

VARIABLES
    scenarios,   \* ids of the existing scenario documents
    apis,        \* <<feature, scenario name>> pairs that own mock APIs
    mappings,    \* documents of account_scenarios
    cached,      \* cache entries, by the prefix that invalidation matches
    pc,          \* the next call of each request
    arg,         \* the input of each request
    target,      \* the scenario id a forwarded call has resolved
    skipped,     \* requests that ignored the error of one of their calls
    overlap      \* history: the requests whose runs overlapped each request

vars == <<scenarios, apis, mappings, cached, pc, arg, target, skipped, overlap>>

Slots == Accounts \cup {Global}
Names == {NameOf[s] : s \in Scenarios}
ApisOf(s) == <<FeatureOf[s], NameOf[s]>>

Input == [op : Ops, feature : Features, scenario : Scenarios \cup {None},
          slot : Slots, prev : Prevs \cup {None}]

(* What a handler can be called with: the feature of a scenario request is  *)
(* the one of the document it looks up, only the HTTP activation names an   *)
(* account and the previously active scenario.                              *)
ValidInputs ==
    {a \in Input :
        /\ a.op \in ScenarioOps =>
              a.scenario \in Scenarios /\ a.feature = FeatureOf[a.scenario]
        /\ a.op \notin ScenarioOps => a.scenario = None
        /\ a.op # "activate" => a.prev = None
        /\ a.op \notin {"activate", "forward"} => a.slot = Global}

ASSUME InputAssumption == None \notin ValidInputs

Mapping    == [req : Requests, feature : Features, slot : Slots, scenario : Scenarios]
CacheEntry == [req : Requests, feature : Features, name : Names, slot : Slots]

Final   == {"done", "failed"}
Running == {"lookup", "clearAccounts", "clearSlot", "create", "lookupPrev",
            "invalidate", "check", "deleteDoc", "deleteApis", "deleteMapping",
            "findAccount", "findGlobal", "getScenario", "cacheGet", "findApi", "fill"}
Live    == {r \in Requests : pc[r] \in Running}

TypeOK ==
    /\ scenarios \subseteq Scenarios
    /\ apis \subseteq (Features \X Names)
    /\ mappings \subseteq Mapping
    /\ cached \subseteq CacheEntry
    /\ pc \in [Requests -> Running \cup Final \cup {"idle"}]
    /\ arg \in [Requests -> ValidInputs \cup {None}]
    /\ \A r \in Requests : pc[r] # "idle" => arg[r] \in ValidInputs
    /\ target \in [Requests -> Scenarios \cup {None}]
    /\ skipped \subseteq Requests
    /\ overlap \in [Requests -> SUBSET Requests]

(***************************************************************************)
(* What the collection says.                                               *)
(***************************************************************************)
MappingsOf(f, k) == {m \in mappings : m.feature = f /\ m.slot = k}

(* GetActiveScenario: the mapping of the account, else the global one.      *)
Resolved(f, k) ==
    LET own == MappingsOf(f, k)
        found == IF own # {} THEN own ELSE MappingsOf(f, Global)
    IN  {m.scenario : m \in found}

(* Variant for testing the properties: a deletion invalidates the keys of    *)
(* calls without an account only.                                           *)
Matches_OneAccount(a, e) ==
    /\ e.feature = a.feature
    /\ a.op \in DeleteOps \cup {"activate"} =>
          /\ e.name = NameOf[IF a.op = "activate" THEN a.prev ELSE a.scenario]
          /\ e.slot = a.slot

(* InvalidAllKey's pattern: feature:*, feature:scenario:* or                *)
(* feature:scenario:account:*.                                              *)
Matches(a, e) ==
    /\ e.feature = a.feature
    /\ a.op \in DeleteOps => e.name = NameOf[a.scenario]
    /\ a.op = "activate"  => /\ e.name = NameOf[a.prev]
                             /\ a.slot # Global => e.slot = a.slot

Init ==
    /\ scenarios = Scenarios
    /\ apis = {ApisOf(s) : s \in Scenarios}
    /\ mappings = {}
    /\ cached = {}
    /\ pc = [r \in Requests |-> "idle"]
    /\ arg = [r \in Requests |-> None]
    /\ target = [r \in Requests |-> None]
    /\ skipped = {}
    /\ overlap = [r \in Requests |-> {}]

Goto(r, p) == pc' = [pc EXCEPT ![r] = p]
Request    == <<arg, skipped, overlap>>

(***************************************************************************)
(* The calls of each admin handler, in order: the call that follows call p  *)
(* when p succeeds.                                                         *)
(***************************************************************************)

(* Variants: an account activation that does not clear its slot, one that     *)
(* clears every account, and a global one that clears none.                 *)
ActivateScenario_NoClear(a, p) ==
    CASE p = "lookup" -> IF a.slot = Global THEN "clearAccounts" ELSE "create"
      [] p = "clearAccounts" -> "clearSlot"
      [] p = "clearSlot" -> "create"
      [] OTHER -> "done"
ActivateScenario_ClearsSlotOnly(a, p) ==
    CASE p = "lookup" -> "clearSlot"
      [] p = "clearSlot" -> "create"
      [] OTHER -> "done"

ActivateScenario(a, p) ==
    CASE p = "lookup" -> IF a.slot = Global THEN "clearAccounts" ELSE "clearSlot"
      [] p = "clearAccounts" -> "clearSlot"
      [] p = "clearSlot" -> "create"
      [] p = "create" -> IF a.prev = None THEN "done" ELSE "lookupPrev"
      [] p = "lookupPrev" -> "invalidate"
      [] OTHER -> "done"

ActivateScenarioTool(p) ==
    CASE p = "lookup" -> "clearAccounts"
      [] p = "clearAccounts" -> "clearSlot"
      [] p = "clearSlot" -> "create"
      [] p = "create" -> "invalidate"
      [] OTHER -> "done"

DeactivateScenarioTool(p) ==
    IF p = "clearSlot" THEN "invalidate" ELSE "done"

(* Variant: the tool deletes without looking.                               *)
SetScenarioInactiveTool_NoCheck(p) ==
    CASE p = "lookup" -> "clearSlot"
      [] p = "clearSlot" -> "invalidate"
      [] OTHER -> "done"

SetScenarioInactiveTool(p) ==
    CASE p = "lookup" -> "check"
      [] p = "check" -> "clearSlot"
      [] p = "clearSlot" -> "invalidate"
      [] OTHER -> "done"

(* Variant: the HTTP deletion forgets the mapping.                           *)
DeleteScenario_KeepsMapping(p) ==
    CASE p = "lookup" -> "deleteDoc"
      [] p = "deleteDoc" -> "deleteApis"
      [] p = "deleteApis" -> "invalidate"
      [] OTHER -> "done"

DeleteScenario(p) ==
    CASE p = "lookup" -> "deleteDoc"
      [] p = "deleteDoc" -> "deleteApis"
      [] p = "deleteApis" -> "invalidate"
      [] p = "invalidate" -> "deleteMapping"
      [] OTHER -> "done"

DeleteScenarioTool(p) ==
    CASE p = "lookup" -> "deleteDoc"
      [] p = "deleteDoc" -> "deleteApis"
      [] p = "deleteApis" -> "deleteMapping"
      [] p = "deleteMapping" -> "invalidate"
      [] OTHER -> "done"

NextCall(r) ==
    LET a == arg[r]
        p == pc[r]
    IN  CASE a.op = "activate"        -> ActivateScenario(a, p)
          [] a.op = "activateTool"    -> ActivateScenarioTool(p)
          [] a.op = "deactivateTool"  -> DeactivateScenarioTool(p)
          [] a.op = "setInactiveTool" -> SetScenarioInactiveTool(p)
          [] a.op = "delete"          -> DeleteScenario(p)
          [] OTHER                    -> DeleteScenarioTool(p)

(* Variant: the account of a call is not looked at.                          *)
FirstCall_GlobalOnly(a) ==
    CASE a.op \in ScenarioOps    -> "lookup"
      [] a.op = "deactivateTool" -> "clearSlot"
      [] OTHER -> "findGlobal"

FirstCall(a) ==
    CASE a.op \in ScenarioOps    -> "lookup"
      [] a.op = "deactivateTool" -> "clearSlot"
      [] OTHER -> IF a.slot = Global THEN "findGlobal" ELSE "findAccount"

Begin(r) ==
    /\ pc[r] = "idle"
    /\ \E a \in ValidInputs :
          /\ arg' = [arg EXCEPT ![r] = a]
          /\ Goto(r, FirstCall(a))
    /\ overlap' = [q \in Requests |->
                      IF q = r THEN Live
                      ELSE IF q \in Live THEN overlap[q] \cup {r}
                      ELSE overlap[q]]
    /\ UNCHANGED <<scenarios, apis, mappings, cached, target, skipped>>

(* A call fails and the handler returns the error, the caller goes away, or *)
(* the process dies.                                                        *)
Fail(r) ==
    /\ r \in Live
    /\ Goto(r, "failed")
    /\ UNCHANGED <<scenarios, apis, mappings, cached, target, Request>>

(***************************************************************************)
(* Activation, deactivation and deletion.                                  *)
(***************************************************************************)
Lookup(r) ==
    /\ pc[r] = "lookup"
    /\ Goto(r, IF arg[r].scenario \in scenarios THEN NextCall(r) ELSE "failed")
    /\ UNCHANGED <<scenarios, apis, mappings, cached, target, Request>>

(* set_scenario_inactive reads one global mapping and stops when it is not   *)
(* the named scenario's.                                                    *)
Check(r) ==
    /\ pc[r] = "check"
    /\ LET active == MappingsOf(arg[r].feature, Global) IN
       \/ \E m \in active : /\ m.scenario = arg[r].scenario
                            /\ Goto(r, NextCall(r))
       \/ /\ \/ active = {}
             \/ \E m \in active : m.scenario # arg[r].scenario
          /\ Goto(r, "done")
    /\ UNCHANGED <<scenarios, apis, mappings, cached, target, Request>>

DeactivateAllAccountSpecificMappings(r) ==
    /\ pc[r] = "clearAccounts"
    /\ mappings' = {m \in mappings : ~(m.feature = arg[r].feature /\ m.slot # Global)}
    /\ Goto(r, NextCall(r))
    /\ UNCHANGED <<scenarios, apis, cached, target, Request>>

DeactivateByFeatureAndAccount(r) ==
    /\ pc[r] = "clearSlot"
    /\ mappings' = mappings \ MappingsOf(arg[r].feature, arg[r].slot)
    /\ Goto(r, NextCall(r))
    /\ UNCHANGED <<scenarios, apis, cached, target, Request>>

(* Variant: the mapping loses its account.                                   *)
NewMapping_NoAccount(r) == [req |-> r, feature |-> arg[r].feature, slot |-> Global,
                            scenario |-> arg[r].scenario]

NewMapping(r) == [req |-> r, feature |-> arg[r].feature, slot |-> arg[r].slot,
                  scenario |-> arg[r].scenario]

Create(r) ==
    /\ pc[r] = "create"
    /\ mappings' = mappings \cup {NewMapping(r)}
    /\ Goto(r, NextCall(r))
    /\ UNCHANGED <<scenarios, apis, cached, target, Request>>

LookupPrev(r) ==
    /\ pc[r] = "lookupPrev"
    /\ Goto(r, IF arg[r].prev \in scenarios THEN NextCall(r) ELSE "failed")
    /\ UNCHANGED <<scenarios, apis, mappings, cached, target, Request>>

InvalidAllKey(r) ==
    /\ pc[r] = "invalidate"
    /\ cached' = {e \in cached : ~Matches(arg[r], e)}
    /\ Goto(r, NextCall(r))
    /\ UNCHANGED <<scenarios, apis, mappings, target, Request>>

(* A failing SCAN or DEL leaves part of the keys; every caller ignores it.   *)
InvalidAllKeyError(r) ==
    /\ pc[r] = "invalidate"
    /\ \E kept \in SUBSET {e \in cached : Matches(arg[r], e)} :
          cached' = {e \in cached : ~Matches(arg[r], e)} \cup kept
    /\ Goto(r, NextCall(r))
    /\ skipped' = skipped \cup {r}
    /\ UNCHANGED <<scenarios, apis, mappings, target, arg, overlap>>

DeleteByObjectID(r) ==
    /\ pc[r] = "deleteDoc"
    /\ scenarios' = scenarios \ {arg[r].scenario}
    /\ Goto(r, NextCall(r))
    /\ UNCHANGED <<apis, mappings, cached, target, Request>>

(* The filter is the scenario's name alone.                                 *)
DeleteByScenarioName(r) ==
    /\ pc[r] = "deleteApis"
    /\ apis' = {x \in apis : x[2] # NameOf[arg[r].scenario]}
    /\ Goto(r, NextCall(r))
    /\ UNCHANGED <<scenarios, mappings, cached, target, Request>>

(* The HTTP handler drops the errors of both deletions and goes on.          *)
DeleteErrorIgnored(r) ==
    /\ pc[r] \in {"deleteDoc", "deleteApis"}
    /\ arg[r].op = "delete"
    /\ Goto(r, NextCall(r))
    /\ skipped' = skipped \cup {r}
    /\ UNCHANGED <<scenarios, apis, mappings, cached, target, arg, overlap>>

(* DeleteOne: a single mapping of the scenario, whichever the server finds.  *)
DeleteByScenarioId(r) ==
    /\ pc[r] = "deleteMapping"
    /\ LET held == {m \in mappings : m.scenario = arg[r].scenario} IN
       \/ held = {} /\ mappings' = mappings
       \/ \E m \in held : mappings' = mappings \ {m}
    /\ Goto(r, NextCall(r))
    /\ UNCHANGED <<scenarios, apis, cached, target, Request>>

(***************************************************************************)
(* A forwarded call, as far as it reads this state and fills the cache.    *)
(***************************************************************************)
(* Falls back to the global mapping when there is no mapping of the account   *)
(* and also when the query for it fails.                                    *)
FindAccountMapping(r) ==
    /\ pc[r] = "findAccount"
    /\ LET own == MappingsOf(arg[r].feature, arg[r].slot) IN
       \/ \E m \in own : /\ target' = [target EXCEPT ![r] = m.scenario]
                         /\ Goto(r, "getScenario")
                         /\ UNCHANGED skipped
       \/ /\ own = {}
          /\ Goto(r, "findGlobal")
          /\ UNCHANGED <<target, skipped>>
       \/ /\ Goto(r, "findGlobal")
          /\ skipped' = skipped \cup {r}
          /\ UNCHANGED target
    /\ UNCHANGED <<scenarios, apis, mappings, cached, arg, overlap>>

FindGlobalMapping(r) ==
    /\ pc[r] = "findGlobal"
    /\ LET active == MappingsOf(arg[r].feature, Global) IN
       \/ \E m \in active : /\ target' = [target EXCEPT ![r] = m.scenario]
                            /\ Goto(r, "getScenario")
       \/ /\ active = {}
          /\ Goto(r, "failed")
          /\ UNCHANGED target
    /\ UNCHANGED <<scenarios, apis, mappings, cached, Request>>

GetScenario(r) ==
    /\ pc[r] = "getScenario"
    /\ Goto(r, IF target[r] \in scenarios THEN "cacheGet" ELSE "failed")
    /\ UNCHANGED <<scenarios, apis, mappings, cached, target, Request>>

KeyOf(r, e) == /\ e.feature = arg[r].feature
               /\ e.name = NameOf[target[r]]
               /\ e.slot = arg[r].slot

CacheGet(r) ==
    /\ pc[r] = "cacheGet"
    /\ Goto(r, IF \E e \in cached : KeyOf(r, e) THEN "done" ELSE "findApi")
    /\ UNCHANGED <<scenarios, apis, mappings, cached, target, Request>>

FindApi(r) ==
    /\ pc[r] = "findApi"
    /\ Goto(r, IF <<arg[r].feature, NameOf[target[r]]>> \in apis THEN "fill" ELSE "failed")
    /\ UNCHANGED <<scenarios, apis, mappings, cached, target, Request>>

Fill(r) ==
    /\ pc[r] = "fill"
    /\ cached' = {e \in cached : ~KeyOf(r, e)} \cup
                 {[req |-> r, feature |-> arg[r].feature,
                   name |-> NameOf[target[r]], slot |-> arg[r].slot]}
    /\ Goto(r, "done")
    /\ UNCHANGED <<scenarios, apis, mappings, target, Request>>

(* Every request has returned: the instance has nothing left to run.        *)
AllReturned ==
    /\ \A r \in Requests : pc[r] \in Final
    /\ UNCHANGED vars

Next ==
    \/ \E r \in Requests :
          \/ Begin(r) \/ Fail(r)
          \/ Lookup(r) \/ Check(r)
          \/ DeactivateAllAccountSpecificMappings(r)
          \/ DeactivateByFeatureAndAccount(r)
          \/ Create(r) \/ LookupPrev(r)
          \/ InvalidAllKey(r) \/ InvalidAllKeyError(r)
          \/ DeleteByObjectID(r) \/ DeleteByScenarioName(r)
          \/ DeleteErrorIgnored(r) \/ DeleteByScenarioId(r)
          \/ FindAccountMapping(r) \/ FindGlobalMapping(r) \/ GetScenario(r)
          \/ CacheGet(r) \/ FindApi(r) \/ Fill(r)
    \/ AllReturned

Spec == Init /\ [][Next]_vars

(***************************************************************************)
(* Properties.                                                             *)
(***************************************************************************)

(* A slot (a feature, globally or for one account) holds two mappings only   *)
(* when the activations that made them ran at the same time: one admin at a  *)
(* time keeps the "only 1 active scenario" of the README.                    *)
DuplicatesOnlyFromOverlap ==
    \A m, n \in mappings :
        /\ m # n
        /\ m.feature = n.feature
        /\ m.slot = n.slot
        => n.req \in overlap[m.req]

(* Once an activation has inserted its mapping, its slot is empty again only *)
(* because of another request: one that stands between its delete and its    *)
(* insert (or failed there), a global activation that cleared the accounts,  *)
(* a deactivation, or the deletion of a scenario.                            *)
Inserted(r) ==
    /\ arg[r] # None /\ arg[r].op \in ActivateOps
    /\ pc[r] \in {"lookupPrev", "invalidate", "done"}
MayEmpty(q, f, k) ==
    /\ arg[q] # None
    /\ \/ /\ arg[q].op \in ActivateOps
          /\ arg[q].feature = f
          /\ \/ arg[q].slot = k /\ pc[q] \in {"create", "failed"}
             \/ arg[q].slot = Global /\ k # Global
       \/ arg[q].op \in ClearOps /\ arg[q].feature = f /\ k = Global
       \/ arg[q].op \in DeleteOps /\ arg[q].feature = f
SlotLostOnlyToAnother ==
    \A r \in Requests :
        /\ Inserted(r)
        /\ MappingsOf(arg[r].feature, arg[r].slot) = {}
        => \E q \in Requests \ {r} : MayEmpty(q, arg[r].feature, arg[r].slot)

(* A mapping outlives its scenario (every call it resolves then fails) only  *)
(* when the deletion is unfinished or dropped an error, raced with the       *)
(* activation, or removed another mapping of the scenario: it deletes one.   *)
DanglingExplained ==
    \A m \in mappings :
        m.scenario \notin scenarios =>
        \E d \in Requests :
            /\ arg[d] # None
            /\ arg[d].op \in DeleteOps
            /\ arg[d].scenario = m.scenario
            /\ \/ pc[d] # "done"
               \/ d \in overlap[m.req]
               \/ \E q \in Requests \ {m.req} :
                     /\ arg[q] # None
                     /\ arg[q].op \in ActivateOps
                     /\ arg[q].scenario = m.scenario

(* A cache entry of a scenario whose deletion returned without an error was  *)
(* written by a call that was in flight during the deletion.  Such an entry  *)
(* never expires and answers for a later scenario of the same name.          *)
StaleEntryOnlyFromOverlap ==
    \A e \in cached, d \in Requests :
        /\ pc[d] = "done" /\ d \notin skipped
        /\ arg[d].op \in DeleteOps
        /\ ApisOf(arg[d].scenario) = <<e.feature, e.name>>
        => d \in overlap[e.req]

(* The two reads of GetActiveScenario answer like one: a call that goes on to *)
(* the global mapping has no mapping of its own account at that moment either *)
(* (so that both the scenario it gets and "not found" are what is active),     *)
(* unless an activation for the account overlapped it or its query failed.   *)
FallbackExplained ==
    \A r \in Requests :
        /\ pc[r] = "findGlobal" /\ r \notin skipped
        /\ arg[r].slot # Global
        => \A m \in MappingsOf(arg[r].feature, arg[r].slot) : m.req \in overlap[r]

Stepping(r) == pc'[r] # pc[r]

ReachesEveryone(r) ==
    /\ pc[r] = "create" /\ Stepping(r) /\ pc'[r] # "failed"
    /\ arg[r].slot = Global
    => \A k \in Slots :
           \/ Resolved(arg[r].feature, k)' = {arg[r].scenario}
           \/ \E m \in mappings' : /\ m.feature = arg[r].feature /\ m.slot \in {k, Global}
                                   /\ m.req \in overlap[r]

(* A global activation leaves every account of the feature, and the requests *)
(* without one, on the scenario it activates, but for an account that an     *)
(* activation overlapping it has given a mapping, between its two deletes or *)
(* after them: whatever was there before it, or was inserted by an           *)
(* activation that had returned, is gone.                                  *)
GlobalActivationReachesEveryone ==
    [][\A r \in Requests : ReachesEveryone(r)]_vars

SparesOthers(r) ==
    Stepping(r) /\ arg[r] # None /\ arg[r].op = "setInactiveTool"
    => \A m \in mappings \ mappings' :
           \/ m.scenario = arg[r].scenario
           \/ m.req \in overlap[r]
           \/ \E q \in overlap[m.req] : /\ arg[q].op \in ActivateOps
                                        /\ arg[q].scenario = arg[r].scenario

(* set_scenario_inactive: "If the scenario is not currently active this is a *)
(* no-op".  A mapping it removes is the named scenario's, or was inserted by *)
(* an activation that overlapped it or an activation of that scenario.       *)
SetInactiveSparesOthers == [][\A r \in Requests : SparesOthers(r)]_vars

(* delete_scenario: "Delete a scenario and all its mock APIs", hence not the *)
(* mock APIs of a scenario of another feature.                              *)
DeleteRemovesOnlyOwnApis ==
    [][\A r \in Requests :
          (Stepping(r) /\ arg[r] # None /\ arg[r].op \in DeleteOps)
          => (apis \ apis') \subseteq {ApisOf(arg[r].scenario)}]_vars
===============================================================================
