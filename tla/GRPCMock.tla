------------------------------- MODULE GRPCMock -------------------------------
(***************************************************************************)
(* The gRPC mocks: the admin's operations on their documents, the unknown-    *)
(* service handler that answers calls from them, and the reflection that      *)
(* lists and describes the services they name.                              *)
(*                                                                          *)
(* There is no cache: a call reads the database once for the hash of its own  *)
(* body and, when that finds nothing, once more for the mock of every body.   *)
(* A toggle reads is_active and writes its negation.  An import inserts its    *)
(* requests one by one, without the validation that a create has.           *)
(*                                                                          *)
(* The output, the status and the latency are left out: nothing else reads     *)
(* them, and an output that was accepted can always be sent.                *)
(***************************************************************************)
EXTENDS Naturals, FiniteSets

CONSTANTS
    Admins,      \* clients of the admin API; each has one request at a time
    Callers,     \* gRPC clients; each has one call at a time
    Explorers,   \* reflection clients
    Ids,         \* bound: the documents ever created
    Routes,      \* feature, scenario, service and method
    Nameless,    \* the routes with an empty name, which only an import accepts
    Describable, \* the routes whose service and method are names a descriptor may have
    Services,
    ServiceOf,   \* the service of a route
    Objects,     \* JSON objects with at least one field
    EmptyObject, \* {}
    NoInput,     \* no input, or null; no bytes
    Foreign,     \* bytes that are not a Struct
    NoMock,
    MaxImport    \* bound: the requests of an import

Inputs == Objects \cup {EmptyObject, NoInput}
Bodies == Inputs \cup {Foreign}

ASSUME RoutesAssumption == /\ Nameless \subseteq Routes
                           /\ Describable \subseteq Routes
                           /\ ServiceOf \in [Routes -> Services]
ASSUME InputsAssumption == /\ EmptyObject \notin Objects
                           /\ NoInput \notin Objects
                           /\ Foreign \notin Inputs
                           /\ EmptyObject # NoInput
ASSUME ImportAssumption == MaxImport \in Nat

VARIABLES
    mocks,     \* the collection
    created,   \* the ids used so far
    job,       \* what each admin is in the middle of
    call,      \* what each caller is in the middle of
    view,      \* what each explorer was told
    flipped,   \* history: ids with an odd number of toggles, none of which overlapped
    overlap,   \* history: ids of which two toggles were under way at once
    steady,    \* history: the mocks that fitted the call when it began and have not changed since
    listed     \* history: the mocks that were listed and have not changed since

db   == <<mocks, created>>
hist == <<flipped, overlap, steady, listed>>
vars == <<db, job, call, view, hist>>

Mocks == [route : Routes, input : Inputs, active : BOOLEAN]

Idle     == [pc |-> "idle"]
Jobs     == {Idle}
            \cup [pc : {"toggle"}, id : Ids, saw : BOOLEAN]
            \cup [pc : {"import"}, left : 0..MaxImport]
Requests == [route : Routes, body : Bodies]
Calls    == {Idle}
            \cup [pc : {"exact", "any", "missing"}, req : Requests]
            \cup [pc : {"found"}, req : Requests, mock : Mocks]

\* Why a service is not described.  The client is told the same in all three cases.
NotFound == {"unread", "unknown", "refused"}

TypeOK ==
    /\ created \subseteq Ids
    /\ mocks \in [Ids -> Mocks \cup {NoMock}]
    /\ \A i \in Ids \ created : mocks[i] = NoMock
    /\ job \in [Admins -> Jobs]
    /\ call \in [Callers -> Calls]
    /\ view \in [Explorers -> {"idle", "listed"} \cup NotFound]
    /\ flipped \subseteq Ids
    /\ overlap \subseteq Ids
    /\ steady \in [Callers -> SUBSET Ids]
    /\ listed \in [Explorers -> SUBSET Ids]

Init ==
    /\ mocks = [i \in Ids |-> NoMock]
    /\ created = {}
    /\ job = [a \in Admins |-> Idle]
    /\ call = [c \in Callers |-> Idle]
    /\ view = [x \in Explorers |-> "idle"]
    /\ flipped = {}
    /\ overlap = {}
    /\ steady = [c \in Callers |-> {}]
    /\ listed = [x \in Explorers |-> {}]

-------------------------------------------------------------------------------
(* The two hashes.  An object stands for its own hash. *)

HashInputConsistent(input) == input

\* No bytes and a Struct without fields both look up the mock of every body.
HashStructProto(body) == IF body = EmptyObject THEN NoInput ELSE body

\* FindByFeatureScenarioServiceMethodAndHash
Found(ms, route, hash) ==
    {i \in Ids : /\ ms[i] # NoMock
                 /\ ms[i].active
                 /\ ms[i].route = route
                 /\ HashInputConsistent(ms[i].input) = hash}

\* What a user calls the mocks for a body: its own and the one of every body.
Own(ms, req) == {i \in Ids : /\ ms[i] # NoMock
                             /\ ms[i].active
                             /\ ms[i].route = req.route
                             /\ ms[i].input = req.body}
Fits(ms, req) == Own(ms, req) \cup Own(ms, [req EXCEPT !.body = NoInput])

\* The histories lose the mocks that a write touches.
Unwritten(S) == {i \in S : mocks'[i] = mocks[i]}

Watch ==
    /\ steady' = [c \in Callers |-> Unwritten(steady[c])]
    /\ listed' = [x \in Explorers |-> Unwritten(listed[x])]

-------------------------------------------------------------------------------
(* Admins. *)

BuildGRPCMockDomain(route, input) == [route |-> route, input |-> input, active |-> FALSE]

\* Create of the repository: a new document is active.
Insert(i, m) ==
    /\ i \in Ids \ created
    /\ mocks' = [mocks EXCEPT ![i] = [m EXCEPT !.active = TRUE]]
    /\ created' = created \cup {i}
    /\ UNCHANGED <<flipped, overlap>>
    /\ Watch

CreateGRPCMockAPI(a, i, route, input) ==
    /\ job[a] = Idle
    /\ route \notin Nameless
    /\ Insert(i, BuildGRPCMockDomain(route, input))
    /\ UNCHANGED <<job, call, view>>

ImportGRPCMockAPIs(a, n) ==
    /\ job[a] = Idle
    /\ job' = [job EXCEPT ![a] = [pc |-> "import", left |-> n]]
    /\ UNCHANGED <<db, call, view, hist>>

OneLess(a) == [job EXCEPT ![a].left = @ - 1]

ImportOne(a, i, route, input) ==
    /\ job[a].pc = "import"
    /\ job[a].left > 0
    /\ Insert(i, BuildGRPCMockDomain(route, input))
    /\ job' = OneLess(a)
    /\ UNCHANGED <<call, view>>

\* A request that cannot be parsed or inserted is skipped.
ImportSkip(a) ==
    /\ job[a].pc = "import"
    /\ job[a].left > 0
    /\ job' = OneLess(a)
    /\ UNCHANGED <<db, call, view, hist>>

ImportDone(a) ==
    /\ job[a].pc = "import"
    /\ job[a].left = 0
    /\ job' = [job EXCEPT ![a] = Idle]
    /\ UNCHANGED <<db, call, view, hist>>

\* One UpdateOne; its answer is the same when the id matches nothing.
UpdateByID(i, new) ==
    /\ mocks' = IF mocks[i] = NoMock THEN mocks ELSE [mocks EXCEPT ![i] = new]
    /\ Watch

\* Service, method and input change when the request has them, without validation; a name
\* that an import left empty may be filled in.
UpdateGRPCMockAPI(a, i, route, input) ==
    /\ job[a] = Idle
    /\ mocks[i] # NoMock
    /\ route \in Nameless => mocks[i].route \in Nameless
    /\ UpdateByID(i, [mocks[i] EXCEPT !.route = route,
                                      !.input = IF input = NoInput THEN @ ELSE input])
    /\ UNCHANGED <<created, job, call, view, flipped, overlap>>

DeleteGRPCMockAPI(a, i) ==
    /\ job[a] = Idle
    /\ mocks' = [mocks EXCEPT ![i] = NoMock]
    /\ flipped' = flipped \ {i}
    /\ overlap' = overlap \ {i}
    /\ Watch
    /\ UNCHANGED <<created, job, call, view>>

\* FindByID; any error is answered as a missing mock.
ToggleRead(a, i) ==
    /\ job[a] = Idle
    /\ mocks[i] # NoMock
    /\ job' = [job EXCEPT ![a] = [pc |-> "toggle", id |-> i, saw |-> mocks[i].active]]
    /\ IF \E b \in Admins : job[b].pc = "toggle" /\ job[b].id = i
       THEN overlap' = overlap \cup {i} /\ flipped' = flipped \ {i}
       ELSE UNCHANGED <<overlap, flipped>>
    /\ UNCHANGED <<db, call, view, steady, listed>>

Toggled(i) == IF i \in flipped THEN flipped \ {i} ELSE flipped \cup {i}

ToggleWrite_Same(a) ==
    /\ job[a].pc = "toggle"
    /\ LET i == job[a].id IN
        /\ UpdateByID(i, [mocks[i] EXCEPT !.active = job[a].saw])
        /\ flipped' = IF mocks[i] = NoMock \/ i \in overlap THEN flipped ELSE Toggled(i)
    /\ job' = [job EXCEPT ![a] = Idle]
    /\ UNCHANGED <<created, call, view, overlap>>

ToggleWrite(a) ==
    /\ job[a].pc = "toggle"
    /\ LET i == job[a].id IN
        /\ UpdateByID(i, [mocks[i] EXCEPT !.active = ~job[a].saw])
        /\ flipped' = IF mocks[i] = NoMock \/ i \in overlap THEN flipped ELSE Toggled(i)
    /\ job' = [job EXCEPT ![a] = Idle]
    /\ UNCHANGED <<created, call, view, overlap>>

ToggleFails(a) ==
    /\ job[a].pc = "toggle"
    /\ job' = [job EXCEPT ![a] = Idle]
    /\ UNCHANGED <<db, call, view, hist>>

-------------------------------------------------------------------------------
(* Calls. *)

\* Without the feature or the scenario in its metadata a call is refused at once.
UnknownServiceHandler(c, route, body) ==
    /\ call[c] = Idle
    /\ route \notin Nameless
    /\ LET req == [route |-> route, body |-> body] IN
        /\ call' = [call EXCEPT ![c] = [pc |-> "exact", req |-> req]]
        /\ steady' = [steady EXCEPT ![c] = Fits(mocks, req)]
    /\ UNCHANGED <<db, job, view, flipped, overlap, listed>>

Finish(c) ==
    /\ call' = [call EXCEPT ![c] = Idle]
    /\ steady' = [steady EXCEPT ![c] = {}]
    /\ UNCHANGED <<db, job, view, flipped, overlap, listed>>

\* Internal
LookUpFails(c) == call[c].pc \in {"exact", "any"} /\ Finish(c)

\* One look-up of HandleCall: the database picks any of the documents that fit.
LookUp(c, hash, otherwise) ==
    LET req == call[c].req
        S   == Found(mocks, req.route, hash)
    IN  /\ \/ \E i \in S : call' = [call EXCEPT ![c] =
                               [pc |-> "found", req |-> req, mock |-> mocks[i]]]
           \/ /\ S = {}
              /\ call' = [call EXCEPT ![c] = [pc |-> otherwise, req |-> req]]
        /\ UNCHANGED <<db, job, view, hist>>

HandleCall_NoFallback(c) ==
    /\ call[c].pc = "exact"
    /\ LookUp(c, HashStructProto(call[c].req.body), "missing")

HandleCall(c) ==
    /\ call[c].pc = "exact"
    /\ LET hash == HashStructProto(call[c].req.body) IN
           LookUp(c, hash, IF hash = NoInput THEN "missing" ELSE "any")

HandleCallAny(c) ==
    /\ call[c].pc = "any"
    /\ LookUp(c, NoInput, "missing")

\* The output, the mock's status, or NotFound
Answer(c) == call[c].pc \in {"found", "missing"} /\ Finish(c)

-------------------------------------------------------------------------------
(* Reflection. *)

ListAll(ms) == {i \in Ids : ms[i] # NoMock /\ ms[i].active}

Tell(x, what, S) ==
    /\ view' = [view EXCEPT ![x] = what]
    /\ listed' = [listed EXCEPT ![x] = S]

List(x, S) ==
    /\ view[x] = "idle"
    /\ Tell(x, "listed", S)
    /\ UNCHANGED <<db, job, call, flipped, overlap, steady>>

\* A query that fails lists nothing.
GetServiceInfo_AllMocks(x) == List(x, {i \in Ids : mocks[i] # NoMock}) \/ List(x, {})

GetServiceInfo(x) == List(x, ListAll(mocks)) \/ List(x, {})

OfService(ms, s) == {i \in ListAll(ms) : ServiceOf[ms[i].route] = s}

\* The query fails, or is cut off after its five seconds; it finds nothing; or one of the
\* names it finds is not one that NewFile takes, which fails the whole service.  The history
\* keeps what bears on a service that was not found.
BuildServiceFile(x, s) ==
    /\ view[x] = "listed"
    /\ LET found == OfService(mocks, s) IN
       \/ Tell(x, "unread", {})
       \/ /\ found = {}
          /\ Tell(x, "unknown", {i \in listed[x] : ServiceOf[mocks[i].route] = s})
       \/ /\ \E i \in found : mocks[i].route \notin Describable
          /\ Tell(x, "refused", {})
       \/ /\ found # {}
          /\ \A i \in found : mocks[i].route \in Describable
          /\ Tell(x, "idle", {})
    /\ UNCHANGED <<db, job, call, flipped, overlap, steady>>

Leave(x) ==
    /\ view[x] \in NotFound
    /\ Tell(x, "idle", {})
    /\ UNCHANGED <<db, job, call, flipped, overlap, steady>>

-------------------------------------------------------------------------------
AdminStep(a) ==
    \/ \E i \in Ids, r \in Routes, n \in Inputs :
           \/ CreateGRPCMockAPI(a, i, r, n)
           \/ ImportOne(a, i, r, n)
           \/ UpdateGRPCMockAPI(a, i, r, n)
    \/ \E n \in 0..MaxImport : ImportGRPCMockAPIs(a, n)
    \/ ImportSkip(a)
    \/ ImportDone(a)
    \/ \E i \in created : DeleteGRPCMockAPI(a, i) \/ ToggleRead(a, i)
    \/ ToggleWrite(a)
    \/ ToggleFails(a)

CallStep(c) ==
    \/ \E r \in Routes, b \in Bodies : UnknownServiceHandler(c, r, b)
    \/ HandleCall(c)
    \/ HandleCallAny(c)
    \/ LookUpFails(c)
    \/ Answer(c)

ExplorerStep(x) ==
    \/ GetServiceInfo(x)
    \/ \E s \in Services : BuildServiceFile(x, s)
    \/ Leave(x)

Next == \/ \E a \in Admins : AdminStep(a)
        \/ \E c \in Callers : CallStep(c)
        \/ \E x \in Explorers : ExplorerStep(x)

Spec == Init /\ [][Next]_vars

-------------------------------------------------------------------------------
\* A mock that was active, fitted a call when it began and was not written to meanwhile
\* is not passed over: the call is not told that there is none, and one with the call's own body is preferred to
\* the one for every body, whatever admins do between the two look-ups of HandleCall.
\* A body {} is left out: it is looked up as no body at all.
SteadyMockAnswers ==
    \A c \in Callers : call[c].pc \in {"missing", "found"} /\ call[c].req.body # EmptyObject =>
        /\ call[c].pc = "missing" => steady[c] = {}
        /\ call[c].pc = "found" /\ call[c].mock.input # call[c].req.body =>
               ~\E i \in steady[c] : mocks[i].input = call[c].req.body

\* Toggles are lost only to each other: unless two toggles of a mock were under way at
\* once, it is active exactly when it has been toggled an even number of times since it
\* was created, whatever updates came in between.
ToggleLostOnlyToOverlap ==
    \A i \in Ids \ overlap : mocks[i] # NoMock => (mocks[i].active <=> i \notin flipped)

\* A service that reflection listed is still found by the request that describes it, unless
\* every mock that put it on the list was changed, switched off or deleted between the two
\* requests, or the second query failed.  Whether it is then described depends on the names of
\* all its mocks, those that did not put it on the list included: one that an import let
\* through takes the description from all of them.
ListedIsFound ==
    \A x \in Explorers : view[x] = "unknown" => listed[x] = {}
===============================================================================
