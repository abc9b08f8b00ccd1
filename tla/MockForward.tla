------------------------------ MODULE MockForward ------------------------------
(***************************************************************************)
(* How a forwarded call is answered, against the handlers that write mock   *)
(* APIs.  A call looks its key up in Redis; on a miss it leads or joins the  *)
(* singleflight of its pod, which reads the document from MongoDB and fills  *)
(* the cache.  An admin handler writes the document and then deletes the     *)
(* keys of a feature and scenario.  Every call to MongoDB or Redis is a step *)
(* of its own: no lock or transaction spans two of them, and pods share only *)
(* the two stores.                                                          *)
(*                                                                          *)
(* The model starts where the active scenario of the call is known (module  *)
(* ScenarioActivation resolves it).                                         *)
(*                                                                          *)
(* A key is formatted by joining its parts with ':', which nothing escapes,  *)
(* so two different keys may read alike.  The cache and the singleflight see *)
(* what a key reads like, its text, and nothing else.                       *)
(***************************************************************************)
EXTENDS Naturals

CONSTANTS
    Requests,    \* forwarded calls; each runs once
    Writers,     \* runs of admin handlers; each runs once
    Pods,        \* processes that serve forwarded calls
    Accounts,    \* the account part of a cache key
    Prefixes,    \* feature + scenario: what an invalidation names
    Shapes,      \* path + method + request hash
    Seeds,       \* documents that exist at the start
    SeedScope,   \* where each of them is found
    Texts,       \* what keys read like
    TextOf,      \* the text of each key
    Named,       \* the texts that the pattern of a prefix matches
    None,
    WriteOps,    \* the handlers that run in this instance
    Settings,    \* what writers set a document to: active or not, static or a sequence
    MaxRestarts  \* bound: restarts of pods

CreateOps == {"createHTTP", "createTool"}
UpdateOps == {"updateHTTP", "updateTool"}
DeleteOps == {"deleteHTTP", "deleteTool"}

Scopes  == [prefix : Prefixes, shape : Shapes]
Docs    == Seeds \cup Writers     \* a created document is named after its writer
Keys    == [scope : Scopes, account : Accounts]

ASSUME OpsAssumption  == WriteOps \subseteq CreateOps \cup UpdateOps \cup DeleteOps
ASSUME SeedAssumption == /\ Seeds \cap Writers = {}
                         /\ SeedScope \in [Seeds -> Scopes]
                         /\ \A d, e \in Seeds : SeedScope[d] = SeedScope[e] => d = e
(* Nothing is assumed of Named: a pattern also matches longer prefixes, and  *)
(* that of a name with a '[' need not match the name's own keys.            *)
ASSUME TextAssumption == /\ TextOf \in [Keys -> Texts]
                         /\ Named \in [Prefixes -> SUBSET Texts]
ASSUME SettingsAssumption == Settings \subseteq [active : BOOLEAN, seq : BOOLEAN]
ASSUME MaxAssumption  == MaxRestarts \in Nat

VARIABLES
    docs,      \* the mock_apis collection
    cached,    \* the response cache in Redis, by text
    flight,    \* the singleflight calls of every pod, by text
    pc,        \* where each forwarded call is
    on,        \* the pod and key of each forwarded call
    answer,    \* the content each call was answered with
    wpc, warg, \* where each admin handler is, and its input
    plan,      \* the prefix that the handler is going to invalidate
    restarts,
    skipped,   \* history: handlers that went on after a failed check or invalidation
    dirty,     \* history: handlers that changed a prefix since it was last invalidated
    late,      \* history: creations overtaken between their check and their insert
    ever       \* history: what a scope has ever contained

vars == <<docs, cached, flight, pc, on, answer, wpc, warg, plan, restarts,
          skipped, dirty, late, ever>>

writing == <<docs, wpc, warg, plan, skipped, dirty, late, ever>>

(* The content of a document is identified by its last writer.              *)
Contents == [doc : Docs, ver : Writers \cup {None}]
DocRec   == [scope : Scopes, ver : Writers \cup {None}, set : [active : BOOLEAN, seq : BOOLEAN]]
Initially == [active |-> TRUE, seq |-> FALSE]
(* An entry's scope is the one that the fetch behind it asked MongoDB for.   *)
Entry    == [scope : Scopes, content : Contents, raced : BOOLEAN]
Places   == Pods \X Keys
Flights  == Pods \X Texts
(* A flight's fetch: the scope of the call that leads it, its step, what it  *)
(* found (None: nothing, or an error), and whether the scope was written     *)
(* after the read.                                                          *)
Fetch    == [scope : Scopes, step : {"find", "set", "return"},
             found : Contents \cup {None}, seq : BOOLEAN, raced : BOOLEAN]

ASSUME NoneAssumption == /\ None \notin Docs \cup Prefixes
                         /\ None \notin Contents /\ None \notin DocRec
                         /\ None \notin Entry /\ None \notin Fetch
                         /\ None \notin Places

(* The inputs of the handlers; names tells whether a PUT carries both names, *)
(* which is what its invalidation is built from.                            *)
Inputs ==
    [op : WriteOps \cap CreateOps, doc : {None}, prefix : Prefixes, shape : Shapes,
     names : {TRUE}, set : {x \in Settings : x.active}]
    \cup
    [op : WriteOps \cap {"updateHTTP"}, doc : Docs, prefix : Prefixes, shape : Shapes,
     names : BOOLEAN, set : Settings]
    \cup
    [op : WriteOps \cap {"updateTool"}, doc : Docs, prefix : {None}, shape : Shapes,
     names : {TRUE}, set : Settings]
    \cup
    [op : WriteOps \cap DeleteOps, doc : Docs, prefix : {None}, shape : {None},
     names : {TRUE}, set : {Initially}]

Answered == {"answered", "failed"}
WLive    == {"check", "insert", "write", "reread", "find", "remove", "invalidate"}

TypeOK ==
    /\ docs \in [Docs -> DocRec \cup {None}]
    /\ cached \in [Texts -> Entry \cup {None}]
    /\ flight \in [Flights -> Fetch \cup {None}]
    /\ pc \in [Requests -> {"idle", "get", "do", "wait", "incr"} \cup Answered]
    /\ on \in [Requests -> Places \cup {None}]
    /\ \A r \in Requests : pc[r] \in {"get", "do", "wait", "incr", "answered"}
                              => on[r] \in Places
    /\ answer \in [Requests -> Contents \cup {None}]
    /\ wpc \in [Writers -> WLive \cup {"idle", "done", "failed"}]
    /\ warg \in [Writers -> Inputs \cup {None}]
    /\ \A w \in Writers : wpc[w] # "idle" => warg[w] \in Inputs
    /\ plan \in [Writers -> Prefixes \cup {None}]
    /\ restarts \in 0..MaxRestarts
    /\ skipped \subseteq Writers
    /\ dirty \in [Prefixes -> SUBSET Writers]
    /\ late \subseteq Writers
    /\ ever \in [Scopes -> SUBSET Contents]

(***************************************************************************)
(* The collection.                                                         *)
(***************************************************************************)
(* What FindByFeatureScenarioPathMethodAndHash can return.                  *)
Matching(s) == {d \in Docs : /\ docs[d] # None
                             /\ docs[d].scope = s
                             /\ docs[d].set.active}
ContentOf(d) == [doc |-> d, ver |-> docs[d].ver]
Cacheable(s) == {ContentOf(d) : d \in {e \in Matching(s) : ~docs[e].set.seq}}

Init ==
    /\ docs = [d \in Docs |->
                 IF d \in Seeds
                 THEN [scope |-> SeedScope[d], ver |-> None, set |-> Initially]
                 ELSE None]
    /\ cached = [t \in Texts |-> None]
    /\ flight = [f \in Flights |-> None]
    /\ pc = [r \in Requests |-> "idle"]
    /\ on = [r \in Requests |-> None]
    /\ answer = [r \in Requests |-> None]
    /\ wpc = [w \in Writers |-> "idle"]
    /\ warg = [w \in Writers |-> None]
    /\ plan = [w \in Writers |-> None]
    /\ restarts = 0
    /\ skipped = {}
    /\ dirty = [p \in Prefixes |-> {}]
    /\ late = {}
    /\ ever = [s \in Scopes |-> {ContentOf(d) : d \in Matching(s)}]

(***************************************************************************)
(* Forwarded calls.                                                        *)
(***************************************************************************)
Goto(r, p) == pc' = [pc EXCEPT ![r] = p]

Text(r)     == TextOf[on[r][2]]
FlightOf(r) == <<on[r][1], Text(r)>>

Arrive(r) ==
    /\ pc[r] = "idle"
    /\ \E place \in Places : on' = [on EXCEPT ![r] = place]
    /\ Goto(r, "get")
    /\ UNCHANGED <<cached, flight, answer, restarts, writing>>

(* Variant: the key leaves the scenario out, so an entry of another one with *)
(* the same shape and account answers.                                      *)
Hits_NoScenario(r, t) ==
    \E k \in Keys : /\ TextOf[k] = t
                    /\ k.scope.shape = on[r][2].scope.shape
                    /\ k.account = on[r][2].account

Hits(r, t) == t = Text(r)

CacheHit(r) ==
    /\ pc[r] = "get"
    /\ \E t \in Texts : /\ Hits(r, t)
                        /\ cached[t] # None
                        /\ answer' = [answer EXCEPT ![r] = cached[t].content]
    /\ Goto(r, "answered")
    /\ UNCHANGED <<cached, flight, on, restarts, writing>>

(* An error of Redis is treated like a miss.                                *)
CacheMiss(r) ==
    /\ pc[r] = "get"
    /\ Goto(r, "do")
    /\ UNCHANGED <<cached, flight, on, answer, restarts, writing>>

(* Do: lead the flight of the text in this pod, or wait for the one there    *)
(* is, which fetches for the key of the call that leads it.  Its context is   *)
(* detached, so a caller that goes away does not disturb it.                *)
Do(r) ==
    /\ pc[r] = "do"
    /\ IF flight[FlightOf(r)] = None
       THEN flight' = [flight EXCEPT ![FlightOf(r)] =
                         [scope |-> on[r][2].scope, step |-> "find", found |-> None,
                          seq |-> FALSE, raced |-> FALSE]]
       ELSE UNCHANGED flight
    /\ Goto(r, "wait")
    /\ UNCHANGED <<cached, on, answer, restarts, writing>>

(* The flight reads one matching document, or ends with an error.           *)
Find(f) ==
    /\ flight[f] # None /\ flight[f].step = "find"
    /\ \/ \E d \in Matching(flight[f].scope) :
            flight' = [flight EXCEPT ![f] =
                         [scope |-> flight[f].scope,
                          step |-> IF docs[d].set.seq THEN "return" ELSE "set",
                          found |-> ContentOf(d), seq |-> docs[d].set.seq, raced |-> FALSE]]
       \/ flight' = [flight EXCEPT ![f].step = "return"]
    /\ UNCHANGED <<cached, pc, on, answer, restarts, writing>>

(* Set has no TTL, and its error is ignored.                                *)
Set(f) ==
    /\ flight[f] # None /\ flight[f].step = "set"
    /\ \/ cached' = [cached EXCEPT ![f[2]] =
                       [scope |-> flight[f].scope, content |-> flight[f].found,
                        raced |-> flight[f].raced]]
       \/ UNCHANGED cached
    /\ flight' = [flight EXCEPT ![f].step = "return"]
    /\ UNCHANGED <<pc, on, answer, restarts, writing>>

(* Variant: a failed fetch wakes up one of the callers that wait for it.      *)
Woken_OneOnError(f) ==
    LET waiting == {r \in Requests : pc[r] = "wait" /\ FlightOf(r) = f}
    IN  IF flight[f].found = None /\ waiting # {}
        THEN {CHOOSE r \in waiting : TRUE} ELSE waiting

Woken(f) == {r \in Requests : pc[r] = "wait" /\ FlightOf(r) = f}

(* Variant: the result stays for the calls that come next.                   *)
Forget_Never(f) == flight

(* Do deletes the call of a flight when it has returned.                    *)
Forget(f) == [flight EXCEPT ![f] = None]

(* Every caller of the flight gets its result; a sequence document makes each *)
(* of them count its own call.                                              *)
Return(f) ==
    /\ flight[f] # None /\ flight[f].step = "return"
    /\ flight' = Forget(f)
    /\ pc' = [r \in Requests |->
                IF r \notin Woken(f) THEN pc[r]
                ELSE IF flight[f].found = None THEN "failed"
                ELSE IF flight[f].seq THEN "incr" ELSE "answered"]
    /\ answer' = [r \in Requests |->
                    IF r \in Woken(f) THEN flight[f].found ELSE answer[r]]
    /\ UNCHANGED <<cached, on, restarts, writing>>

(* The counter of the sequence (module SequenceCounter); its error, for one  *)
(* that of a caller who went away, fails the call.                          *)
Incr(r) ==
    /\ pc[r] = "incr"
    /\ \/ Goto(r, "answered") /\ UNCHANGED answer
       \/ Goto(r, "failed") /\ answer' = [answer EXCEPT ![r] = None]
    /\ UNCHANGED <<cached, flight, on, restarts, writing>>

(* A pod dies and starts again; every start deletes the keys of all pods, and *)
(* a failing deletion leaves some of them.                                  *)
Restart(p) ==
    /\ restarts < MaxRestarts
    /\ restarts' = restarts + 1
    /\ flight' = [f \in Flights |-> IF f[1] = p THEN None ELSE flight[f]]
    /\ pc' = [r \in Requests |->
                IF pc[r] \in {"get", "do", "wait", "incr"} /\ on[r][1] = p
                THEN "failed" ELSE pc[r]]
    /\ \/ /\ cached' = [t \in Texts |-> None]
          /\ dirty' = [q \in Prefixes |-> {}]
       \/ /\ \E kept \in SUBSET Texts :
                cached' = [t \in Texts |-> IF t \in kept THEN cached[t] ELSE None]
          /\ UNCHANGED dirty
    /\ UNCHANGED <<docs, on, answer, wpc, warg, plan, skipped, late, ever>>

(***************************************************************************)
(* Admin handlers.                                                         *)
(***************************************************************************)
WGoto(w, p) == wpc' = [wpc EXCEPT ![w] = p]
Writing     == <<cached, pc, on, answer, restarts>>

FirstStep(a) == IF a.op \in CreateOps THEN "check"
                ELSE IF a.op \in UpdateOps THEN "write" ELSE "find"

Begin(w) ==
    /\ wpc[w] = "idle"
    /\ \E a \in Inputs :
          /\ a.doc \in Writers => docs[a.doc] # None
          /\ warg' = [warg EXCEPT ![w] = a]
          /\ WGoto(w, FirstStep(a))
    /\ UNCHANGED <<docs, plan, skipped, dirty, late, ever, flight, Writing>>

(* A call fails and the handler returns, or its process dies.               *)
WFail(w) ==
    /\ wpc[w] \in WLive
    /\ WGoto(w, "failed")
    /\ UNCHANGED <<docs, warg, plan, skipped, dirty, late, ever, flight, Writing>>

ScopeOf(a) == [prefix |-> a.prefix, shape |-> a.shape]

(* Replaces document d by doc (None: deletes it) and keeps the histories: a  *)
(* scope that loses content is dirty until its prefix is invalidated, and a  *)
(* fetch that has read it is overtaken.                                     *)
Touch(w, d, doc) ==
    LET old == docs[d] IN
    /\ docs' = [docs EXCEPT ![d] = doc]
    /\ ever' = [s \in Scopes |->
                  IF doc # None /\ doc.scope = s THEN ever[s] \cup {[doc |-> d, ver |-> doc.ver]}
                  ELSE ever[s]]
    /\ IF old = None
       THEN UNCHANGED <<dirty, flight>>
       ELSE /\ dirty' = [dirty EXCEPT ![old.scope.prefix] = @ \cup {w}]
            /\ flight' = [f \in Flights |->
                            IF flight[f] # None /\ flight[f].scope = old.scope
                                                /\ flight[f].step = "set"
                            THEN [flight[f] EXCEPT !.raced = TRUE] ELSE flight[f]]

(* Variant: a creation that checks the name only.                           *)
Check_NameOnly(w) ==
    /\ wpc[w] = "check"
    /\ WGoto(w, "insert")
    /\ UNCHANGED <<docs, warg, plan, skipped, dirty, late, ever, flight, Writing>>

(* The check sees active documents only; when its query fails the handler    *)
(* takes it for no duplicate.  The check by name is left to WFail.          *)
Check(w) ==
    /\ wpc[w] = "check"
    /\ \/ /\ Matching(ScopeOf(warg[w])) # {}
          /\ WGoto(w, "done")
          /\ UNCHANGED skipped
       \/ /\ Matching(ScopeOf(warg[w])) = {}
          /\ WGoto(w, "insert")
          /\ UNCHANGED skipped
       \/ /\ WGoto(w, "insert")
          /\ skipped' = skipped \cup {w}
    /\ UNCHANGED <<docs, warg, plan, dirty, late, ever, flight, Writing>>

Insert(w) ==
    /\ wpc[w] = "insert"
    /\ LET a == warg[w] IN
       /\ Touch(w, w, [scope |-> ScopeOf(a), ver |-> w, set |-> a.set])
       /\ late' = late \cup {v \in Writers \ {w} : /\ wpc[v] = "insert"
                                                   /\ ScopeOf(warg[v]) = ScopeOf(a)}
       /\ plan' = [plan EXCEPT ![w] = a.prefix]
       /\ WGoto(w, IF a.op = "createTool" THEN "invalidate" ELSE "done")
    /\ UNCHANGED <<warg, skipped, Writing>>

(* Where an update leaves the document: a PUT can move it to another prefix, *)
(* the tool only to another shape.                                          *)
Moved(a, s) == IF a.op = "updateHTTP" THEN ScopeOf(a)
               ELSE [prefix |-> s.prefix, shape |-> a.shape]

(* An update of a document that is gone changes nothing and goes on.        *)
Write(w) ==
    /\ wpc[w] = "write"
    /\ LET a == warg[w]
           d == a.doc
       IN  /\ IF docs[d] = None
              THEN UNCHANGED <<docs, ever, dirty, flight>>
              ELSE Touch(w, d, [scope |-> Moved(a, docs[d].scope), ver |-> w, set |-> a.set])
           /\ plan' = IF a.op = "updateHTTP" /\ a.names
                      THEN [plan EXCEPT ![w] = a.prefix] ELSE plan
           /\ WGoto(w, IF a.op = "updateTool" THEN "reread" ELSE "invalidate")
    /\ UNCHANGED <<warg, skipped, late, Writing>>

(* FindByObjectID drops its error: a document that is gone or unreadable has *)
(* no names, and nothing will be invalidated.                               *)
Reread(w) ==
    /\ wpc[w] = "reread"
    /\ LET d == warg[w].doc IN
       \/ /\ docs[d] # None
          /\ plan' = [plan EXCEPT ![w] = docs[d].scope.prefix]
       \/ UNCHANGED plan
    /\ WGoto(w, "invalidate")
    /\ UNCHANGED <<docs, warg, skipped, dirty, late, ever, flight, Writing>>

(* The tool stops when it finds no document, the HTTP handler deletes anyway. *)
FindDoc(w) ==
    /\ wpc[w] = "find"
    /\ LET d == warg[w].doc IN
       \/ /\ docs[d] # None
          /\ plan' = [plan EXCEPT ![w] = docs[d].scope.prefix]
          /\ WGoto(w, "remove")
       \/ /\ UNCHANGED plan
          /\ WGoto(w, IF warg[w].op = "deleteHTTP" THEN "remove" ELSE "failed")
    /\ UNCHANGED <<docs, warg, skipped, dirty, late, ever, flight, Writing>>

(* The HTTP handler ignores the error of the deletion.                       *)
Remove(w) ==
    /\ wpc[w] = "remove"
    /\ \/ Touch(w, warg[w].doc, None)
       \/ warg[w].op = "deleteHTTP" /\ UNCHANGED <<docs, ever, dirty, flight>>
    /\ WGoto(w, IF plan[w] = None THEN "done" ELSE "invalidate")
    /\ UNCHANGED <<warg, plan, skipped, late, Writing>>

(* Variant: the keys of only one account are deleted.                        *)
Covers_OneAccount(w, t) ==
    /\ plan[w] \in Prefixes /\ t \in Named[plan[w]]
    /\ \E k \in Keys : TextOf[k] = t /\ k.account = CHOOSE a \in Accounts : TRUE

Covers(w, t) == plan[w] \in Prefixes /\ t \in Named[plan[w]]

InvalidAllKey(w) ==
    /\ wpc[w] = "invalidate"
    /\ cached' = [t \in Texts |-> IF Covers(w, t) THEN None ELSE cached[t]]
    /\ dirty' = [p \in Prefixes |-> IF p = plan[w] THEN {} ELSE dirty[p]]
    /\ WGoto(w, "done")
    /\ UNCHANGED <<docs, warg, plan, skipped, late, ever, flight, pc, on, answer, restarts>>

(* A failing SCAN or DEL leaves keys behind; no handler looks at the error.   *)
InvalidAllKeyError(w) ==
    /\ wpc[w] = "invalidate"
    /\ \E kept \in SUBSET {t \in Texts : Covers(w, t)} :
          cached' = [t \in Texts |-> IF Covers(w, t) /\ t \notin kept THEN None ELSE cached[t]]
    /\ skipped' = skipped \cup {w}
    /\ WGoto(w, "done")
    /\ UNCHANGED <<docs, warg, plan, dirty, late, ever, flight, pc, on, answer, restarts>>

AllReturned ==
    /\ \A r \in Requests : pc[r] \in Answered
    /\ \A w \in Writers : wpc[w] \in {"done", "failed"}
    /\ \A f \in Flights : flight[f] = None
    /\ UNCHANGED vars

Call(r) == CacheHit(r) \/ CacheMiss(r) \/ Do(r) \/ Incr(r)
Fly(f)  == Find(f) \/ Set(f) \/ Return(f)

Next ==
    \/ \E r \in Requests : Arrive(r) \/ Call(r)
    \/ \E f \in Flights : Fly(f)
    \/ \E w \in Writers :
          \/ Begin(w) \/ WFail(w)
          \/ Check(w) \/ Insert(w) \/ Write(w) \/ Reread(w)
          \/ FindDoc(w) \/ Remove(w)
          \/ InvalidAllKey(w) \/ InvalidAllKeyError(w)
    \/ \E p \in Pods : Restart(p)
    \/ AllReturned

Spec == Init /\ [][Next]_vars

(* The goroutines of a live pod go on: each call and each flight takes its   *)
(* next step.  Nothing is assumed of clients, admins and restarts.          *)
Fairness == /\ \A r \in Requests : WF_vars(Call(r))
            /\ \A f \in Flights : WF_vars(Fly(f))

FairSpec == Spec /\ Fairness

(***************************************************************************)
(* Properties.                                                             *)
(***************************************************************************)

Excused(t) ==
    LET p == cached[t].scope.prefix IN
    \/ cached[t].raced
    \/ t \notin Named[p]
    \/ \E w \in dirty[p] : wpc[w] # "done" \/ w \in skipped \/ plan[w] # p

(* An entry of the cache that is not what MongoDB has now for the scope it   *)
(* was fetched for was filled by a fetch that a write overtook, or the       *)
(* pattern of its names does not match its key, or the handler that made it  *)
(* stale has not invalidated it: it is still running, it failed, its         *)
(* invalidation failed, or it planned for another prefix.  A handler that    *)
(* returned cleanly after invalidating the prefix it changed is never the    *)
(* reason.                                                                  *)
StaleExplained ==
    \A t \in Texts :
        (cached[t] # None /\ cached[t].content \notin Cacheable(cached[t].scope)) => Excused(t)

(* A call is answered with something that its own feature, scenario, path,   *)
(* method and body have had, or, when its account, path or names hold a ':', *)
(* with what another call has fetched whose key reads like its own           *)
(* (forwarder.go:163-171): the scope of a call with a different text never   *)
(* answers it.                                                              *)
AnswerFromScope ==
    \A r \in Requests : pc[r] = "answered" =>
        \E q \in Requests : /\ on[q] # None
                            /\ Text(q) = Text(r)
                            /\ answer[r] \in ever[on[q][2].scope]

(* "hash uniquely identifies an entry along with path+method"                *)
(* (handlers_apis.go): two active documents for one scope only when an update *)
(* moved or activated one of them, one creation overtook another, or the     *)
(* check of one failed.                                                     *)
DuplicatesExplained ==
    \A s \in Scopes : \A d, e \in Matching(s) :
        d # e =>
            \/ \E x \in {d, e} : docs[x].ver \in Writers /\ warg[docs[x].ver].op \in UpdateOps
            \/ {d, e} \cap (late \cup skipped) # {}

(* A shared fetch runs exactly while a call waits for it: nobody is left      *)
(* waiting for a flight that has ended, failed or died with its pod, and no   *)
(* ended flight stays to answer the calls that come next.                    *)
FlightsAreAwaited ==
    \A f \in Flights :
        flight[f] # None <=> \E r \in Requests : pc[r] = "wait" /\ FlightOf(r) = f

(* Every call of a live pod is answered, with the mock or with an error: the *)
(* callers that joined a flight too, and those whose flight found nothing.   *)
EveryCallReturns == \A r \in Requests : (pc[r] = "get") ~> (pc[r] \in Answered)
===============================================================================
