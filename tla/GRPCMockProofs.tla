---------------------------- MODULE GRPCMockProofs ----------------------------
(***************************************************************************)
(* Proofs about GRPCMock, for any number of admins, callers and reflection     *)
(* clients, any documents, routes, services and bodies.                      *)
(***************************************************************************)
EXTENDS GRPCMock, TLAPS

Toggling(a) == job[a].pc = "toggle"

(* What a toggle has read is still so unless another toggle was under way, and two  *)
(* toggles of one mock know of each other.                                    *)
Toggles ==
    /\ flipped \subseteq created
    /\ \A a \in Admins : Toggling(a) => job[a].id \in created
    /\ \A a \in Admins : Toggling(a) /\ mocks[job[a].id] # NoMock /\ job[a].id \notin overlap
                             => job[a].saw = mocks[job[a].id].active
    /\ \A a, b \in Admins : (/\ a # b /\ Toggling(a) /\ Toggling(b)
                             /\ job[a].id = job[b].id /\ mocks[job[a].id] # NoMock)
                                => job[a].id \in overlap

(* A call whose first look-up found nothing has no steady mock with its own body. *)
Calling ==
    \A c \in Callers :
        /\ call[c].pc # "idle" => steady[c] \subseteq Fits(mocks, call[c].req)
        /\ call[c].pc = "any" => /\ call[c].req.body \notin {NoInput, EmptyObject}
                                 /\ \A i \in steady[c] : mocks[i].input # call[c].req.body

(* What reflection listed and nobody touched is still active.                  *)
Listing ==
    \A x \in Explorers : view[x] = "listed" => listed[x] \subseteq ListAll(mocks)

Inv == /\ TypeOK
       /\ Toggles /\ ToggleLostOnlyToOverlap
       /\ Calling /\ SteadyMockAnswers
       /\ Listing /\ ListedIsFound

USE DEF db, hist

-------------------------------------------------------------------------------
(* What an admin's step can be.                                             *)

(* Every step of an admin that writes the collection leaves calls and views alone,  *)
(* and the histories lose what it writes.                                     *)
AdminFrame ==
    /\ UNCHANGED <<call, view>>
    /\ (mocks' = mocks /\ steady' = steady /\ listed' = listed) \/ Watch

LEMMA AdminSteps ==
    ASSUME NEW a \in Admins, AdminStep(a)
    PROVE  AdminFrame
BY Zenon DEF AdminStep, AdminFrame, CreateGRPCMockAPI, ImportGRPCMockAPIs, ImportOne, Insert,
       ImportSkip, ImportDone, UpdateGRPCMockAPI, UpdateByID, DeleteGRPCMockAPI, ToggleRead,
       ToggleWrite, ToggleFails

LEMMA MockType ==
    ASSUME TypeOK, NEW i \in Ids, mocks[i] # NoMock
    PROVE  /\ i \in created
           /\ mocks[i] \in Mocks
           /\ mocks[i].active \in BOOLEAN
BY DEF TypeOK, Mocks

LEMMA JobType ==
    ASSUME TypeOK, NEW a \in Admins
    PROVE  /\ Toggling(a) => /\ job[a].id \in Ids /\ job[a].saw \in BOOLEAN
                             /\ job[a] = [pc |-> "toggle", id |-> job[a].id, saw |-> job[a].saw]
           /\ job[a].pc = "import" => /\ job[a].left \in 0..MaxImport
                                      /\ job[a] = [pc |-> "import", left |-> job[a].left]
BY DEF TypeOK, Jobs, Idle, Toggling

LEMMA CallType ==
    ASSUME TypeOK, NEW c \in Callers
    PROVE  /\ call[c].pc \in {"idle", "exact", "any", "missing", "found"}
           /\ call[c].pc # "idle" => call[c].req \in Requests
           /\ call[c].pc = "found" => call[c].mock \in Mocks
BY DEF TypeOK, Calls, Idle

-------------------------------------------------------------------------------
(* Types.                                                                   *)

LEMMA InsertType ==
    ASSUME TypeOK, NEW i \in Ids, NEW r \in Routes, NEW n \in Inputs,
           Insert(i, BuildGRPCMockDomain(r, n))
    PROVE  /\ i \notin created /\ mocks[i] = NoMock
           /\ created' = created \cup {i}
           /\ mocks' = [mocks EXCEPT ![i] = [route |-> r, input |-> n, active |-> TRUE]]
           /\ [route |-> r, input |-> n, active |-> TRUE] \in Mocks
           /\ UNCHANGED <<flipped, overlap>>
           /\ Watch
<1> DEFINE m == [route |-> r, input |-> n, active |-> TRUE]
<1>1. [BuildGRPCMockDomain(r, n) EXCEPT !.active = TRUE] = m
  <2> DEFINE d == BuildGRPCMockDomain(r, n)
  <2>1. d = [route |-> r, input |-> n, active |-> FALSE]
    BY DEF BuildGRPCMockDomain
  <2>2. d \in Mocks /\ m \in Mocks
    BY <2>1 DEF Mocks
  <2>3. [d EXCEPT !.active = TRUE] \in Mocks
    BY <2>2 DEF Mocks
  <2>4. /\ [d EXCEPT !.active = TRUE].route = r
        /\ [d EXCEPT !.active = TRUE].input = n
        /\ [d EXCEPT !.active = TRUE].active = TRUE
    BY <2>1
  <2>5. ASSUME NEW x \in Mocks, NEW y \in Mocks,
               x.route = y.route, x.input = y.input, x.active = y.active
        PROVE  x = y
    BY <2>5 DEF Mocks
  <2>6. m.route = r /\ m.input = n /\ m.active = TRUE
    OBVIOUS
  <2> DEFINE e == [d EXCEPT !.active = TRUE]
  <2>7. e \in Mocks /\ m \in Mocks /\ e.route = m.route /\ e.input = m.input /\ e.active = m.active
    BY <2>2, <2>3, <2>4, <2>6
  <2>8. e = m
    <3> HIDE DEF e, m
    <3> QED
      BY <2>5, <2>7
  <2> QED
    BY <2>8
<1>2. m \in Mocks
  BY DEF Mocks
<1> HIDE DEF m
<1>3. mocks' = [mocks EXCEPT ![i] = m]
  BY <1>1 DEF Insert
<1>4. i \notin created /\ mocks[i] = NoMock
  BY DEF Insert, TypeOK
<1>5. created' = created \cup {i} /\ UNCHANGED <<flipped, overlap>> /\ Watch
  BY DEF Insert
<1> QED
  BY <1>2, <1>3, <1>4, <1>5 DEF m

LEMMA WatchType ==
    ASSUME TypeOK, Watch
    PROVE  steady' \in [Callers -> SUBSET Ids] /\ listed' \in [Explorers -> SUBSET Ids]
BY DEF TypeOK, Watch, Unwritten

LEMMA InsertTypeKept ==
    ASSUME TypeOK, NEW i \in Ids, NEW r \in Routes, NEW n \in Inputs,
           Insert(i, BuildGRPCMockDomain(r, n)), UNCHANGED <<call, view>>,
           job' \in [Admins -> Jobs]
    PROVE  TypeOK'
<1> DEFINE m == [route |-> r, input |-> n, active |-> TRUE]
<1>1. /\ created' = created \cup {i} /\ mocks' = [mocks EXCEPT ![i] = m] /\ m \in Mocks
      /\ UNCHANGED <<flipped, overlap>> /\ Watch
  BY InsertType
<1> HIDE DEF m
<1>2. mocks' \in [Ids -> Mocks \cup {NoMock}] /\ \A j \in Ids \ created' : mocks'[j] = NoMock
  BY <1>1 DEF TypeOK
<1> QED
  BY <1>1, <1>2, WatchType DEF TypeOK

LEMMA AdminType ==
    ASSUME TypeOK, NEW a \in Admins, AdminStep(a)
    PROVE  TypeOK'
<1>1. ASSUME NEW i \in Ids, NEW r \in Routes, NEW n \in Inputs,
             CreateGRPCMockAPI(a, i, r, n)
      PROVE  TypeOK'
  <2>1. Insert(i, BuildGRPCMockDomain(r, n)) /\ UNCHANGED <<job, call, view>>
    BY <1>1 DEF CreateGRPCMockAPI
  <2>2. job' \in [Admins -> Jobs]
    BY <2>1 DEF TypeOK
  <2> QED
    BY <2>1, <2>2, InsertTypeKept
<1>2. ASSUME NEW i \in Ids, NEW r \in Routes, NEW n \in Inputs,
             ImportOne(a, i, r, n)
      PROVE  TypeOK'
  <2>1. Insert(i, BuildGRPCMockDomain(r, n)) /\ UNCHANGED <<call, view>>
    BY <1>2 DEF ImportOne
  <2>2. job' \in [Admins -> Jobs]
    BY <1>2, JobType, ImportAssumption DEF ImportOne, OneLess, TypeOK, Jobs
  <2> QED
    BY <2>1, <2>2, InsertTypeKept
<1>3. ASSUME NEW i \in Ids, NEW r \in Routes, NEW n \in Inputs,
             UpdateGRPCMockAPI(a, i, r, n)
      PROVE  TypeOK'
  <2>1. Watch /\ UNCHANGED <<created, job, call, view, flipped, overlap>>
    BY <1>3 DEF UpdateGRPCMockAPI, UpdateByID
  <2>2. mocks' \in [Ids -> Mocks \cup {NoMock}] /\ \A j \in Ids \ created : mocks'[j] = NoMock
    BY <1>3, MockType DEF UpdateGRPCMockAPI, UpdateByID, TypeOK, Mocks
  <2> QED
    BY <2>1, <2>2, WatchType DEF TypeOK
<1>4. ASSUME NEW n \in 0..MaxImport, ImportGRPCMockAPIs(a, n)
      PROVE  TypeOK'
  BY <1>4 DEF ImportGRPCMockAPIs, TypeOK, Jobs
<1>5. CASE ImportSkip(a)
  <2>1. job' \in [Admins -> Jobs]
    BY <1>5, JobType, ImportAssumption DEF ImportSkip, OneLess, TypeOK, Jobs
  <2> QED
    BY <1>5, <2>1 DEF ImportSkip, TypeOK
<1>6. CASE ImportDone(a) \/ ToggleFails(a)
  BY <1>6 DEF ImportDone, ToggleFails, TypeOK, Jobs
<1>7. ASSUME NEW i \in created, DeleteGRPCMockAPI(a, i)
      PROVE  TypeOK'
  BY <1>7, WatchType DEF DeleteGRPCMockAPI, TypeOK
<1>8. ASSUME NEW i \in created, ToggleRead(a, i)
      PROVE  TypeOK'
  <2>1. i \in Ids /\ mocks[i].active \in BOOLEAN
    BY <1>8, MockType DEF ToggleRead, TypeOK
  <2>2. job' \in [Admins -> Jobs]
    BY <1>8, <2>1 DEF ToggleRead, TypeOK, Jobs
  <2>3. flipped' \subseteq Ids /\ overlap' \subseteq Ids
    BY <1>8, <2>1 DEF ToggleRead, TypeOK
  <2> QED
    BY <1>8, <2>2, <2>3 DEF ToggleRead, TypeOK
<1>9. CASE ToggleWrite(a)
  <2> DEFINE i == job[a].id
             new == [mocks[i] EXCEPT !.active = ~job[a].saw]
  <2>1. i \in Ids /\ job[a].saw \in BOOLEAN /\ UpdateByID(i, new)
    BY <1>9, JobType DEF ToggleWrite, Toggling
  <2>2. mocks[i] # NoMock => new \in Mocks
    BY <2>1, MockType DEF Mocks
  <2>3. mocks' \in [Ids -> Mocks \cup {NoMock}] /\ \A j \in Ids \ created : mocks'[j] = NoMock
    BY <2>1, <2>2 DEF UpdateByID, TypeOK
  <2>4. flipped' \subseteq Ids
    BY <1>9, <2>1 DEF ToggleWrite, Toggled, TypeOK
  <2>5. job' \in [Admins -> Jobs]
    BY <1>9 DEF ToggleWrite, TypeOK, Jobs
  <2>6. Watch /\ UNCHANGED <<created, call, view, overlap>>
    BY <1>9 DEF ToggleWrite, UpdateByID
  <2> QED
    BY <2>3, <2>4, <2>5, <2>6, WatchType DEF TypeOK
<1> QED
  BY <1>1, <1>2, <1>3, <1>4, <1>5, <1>6, <1>7, <1>8, <1>9 DEF AdminStep

LEMMA FoundType ==
    ASSUME TypeOK, NEW req, NEW hash, NEW i \in Found(mocks, req, hash)
    PROVE  i \in Ids /\ mocks[i] \in Mocks
BY MockType DEF Found

LEMMA LookUpType ==
    ASSUME TypeOK, NEW c \in Callers, NEW hash, NEW otherwise \in {"any", "missing"},
           call[c].pc \in {"exact", "any"}, LookUp(c, hash, otherwise)
    PROVE  TypeOK'
<1>1. call[c].req \in Requests
  BY CallType
<1>2. call' \in [Callers -> Calls]
  <2>1. CASE \E i \in Found(mocks, call[c].req.route, hash) : call' = [call EXCEPT ![c] =
                [pc |-> "found", req |-> call[c].req, mock |-> mocks[i]]]
    BY <1>1, <2>1, FoundType DEF TypeOK, Calls
  <2>2. CASE call' = [call EXCEPT ![c] = [pc |-> otherwise, req |-> call[c].req]]
    BY <1>1, <2>2 DEF TypeOK, Calls
  <2> QED
    BY <2>1, <2>2 DEF LookUp
<1> QED
  BY <1>2 DEF LookUp, TypeOK

LEMMA CallTypeKept ==
    ASSUME TypeOK, NEW c \in Callers, CallStep(c)
    PROVE  TypeOK'
<1>1. ASSUME NEW r \in Routes, NEW b \in Bodies, UnknownServiceHandler(c, r, b)
      PROVE  TypeOK'
  <2>1. [route |-> r, body |-> b] \in Requests
    BY <1>1 DEF UnknownServiceHandler, Requests
  <2> QED
    BY <1>1, <2>1 DEF UnknownServiceHandler, TypeOK, Calls, Fits, Own
<1>2. CASE HandleCall(c)
  BY <1>2, LookUpType DEF HandleCall
<1>3. CASE HandleCallAny(c)
  BY <1>3, LookUpType DEF HandleCallAny
<1>4. CASE LookUpFails(c) \/ Answer(c)
  BY <1>4 DEF LookUpFails, Answer, Finish, TypeOK, Calls
<1> QED
  BY <1>1, <1>2, <1>3, <1>4 DEF CallStep

(* What a request for a description may be told.                                *)
LEMMA BuiltTells ==
    ASSUME TypeOK, NEW x \in Explorers, NEW s \in Services, BuildServiceFile(x, s)
    PROVE  \E what \in {"idle"} \cup NotFound, S \in SUBSET Ids :
               /\ Tell(x, what, S)
               /\ what = "unknown" => /\ OfService(mocks, s) = {}
                                      /\ S = {i \in listed[x] : ServiceOf[mocks[i].route] = s}
<1> DEFINE kept == {i \in listed[x] : ServiceOf[mocks[i].route] = s}
<1>1. \/ Tell(x, "unread", {}) \/ Tell(x, "refused", {}) \/ Tell(x, "idle", {})
      \/ Tell(x, "unknown", kept) /\ OfService(mocks, s) = {}
  BY Zenon DEF BuildServiceFile
<1>2. kept \in SUBSET Ids /\ {} \in SUBSET Ids
  BY DEF TypeOK
<1>3. /\ "unread" \in {"idle"} \cup NotFound /\ "refused" \in {"idle"} \cup NotFound
      /\ "idle" \in {"idle"} \cup NotFound /\ "unknown" \in {"idle"} \cup NotFound
  BY DEF NotFound
<1>4. "unread" # "unknown" /\ "refused" # "unknown" /\ "idle" # "unknown"
  OBVIOUS
<1> QED
  BY <1>1, <1>2, <1>3, <1>4

LEMMA ExplorerType ==
    ASSUME TypeOK, NEW x \in Explorers, ExplorerStep(x)
    PROVE  TypeOK'
<1>1. CASE GetServiceInfo(x)
  BY <1>1 DEF GetServiceInfo, List, Tell, ListAll, TypeOK
<1>2. ASSUME NEW s \in Services, BuildServiceFile(x, s)
      PROVE  TypeOK'
  <2>1. PICK what \in {"idle"} \cup NotFound, S \in SUBSET Ids : Tell(x, what, S)
    BY <1>2, Zenon, BuiltTells
  <2>2. /\ view' \in [Explorers -> {"idle", "listed"} \cup NotFound]
        /\ listed' \in [Explorers -> SUBSET Ids]
    BY <2>1 DEF Tell, TypeOK
  <2> QED
    BY <1>2, <2>2 DEF BuildServiceFile, TypeOK
<1>3. CASE Leave(x)
  BY <1>3 DEF Leave, Tell, TypeOK
<1> QED
  BY <1>1, <1>2, <1>3 DEF ExplorerStep

-------------------------------------------------------------------------------
(* Toggles.                                                                 *)

LEMMA InsertToggles ==
    ASSUME TypeOK, Toggles, ToggleLostOnlyToOverlap,
           NEW i \in Ids, NEW r \in Routes, NEW n \in Inputs,
           Insert(i, BuildGRPCMockDomain(r, n)),
           \A b \in Admins : (job'[b].pc = "toggle") <=> Toggling(b),
           \A b \in Admins : Toggling(b) => job'[b] = job[b]
    PROVE  Toggles' /\ ToggleLostOnlyToOverlap'
<1> DEFINE m == [route |-> r, input |-> n, active |-> TRUE]
<1>1. /\ created' = created \cup {i} /\ i \notin created /\ mocks' = [mocks EXCEPT ![i] = m]
      /\ flipped' = flipped /\ overlap' = overlap
  BY InsertType
<1>2. m.active = TRUE
  OBVIOUS
<1> HIDE DEF m
<1>3. /\ mocks'[i].active = TRUE /\ i \notin flipped'
      /\ \A j \in Ids \ {i} : mocks'[j] = mocks[j]
  BY <1>1, <1>2 DEF TypeOK, Toggles
<1>4. \A b \in Admins : Toggling(b) => job[b].id \in Ids /\ job[b].id # i
  BY <1>1, JobType DEF Toggles
<1>5. \A b \in Admins : (Toggling(b))' <=> Toggling(b)
  BY DEF Toggling
<1>6. ToggleLostOnlyToOverlap'
  BY <1>1, <1>3 DEF ToggleLostOnlyToOverlap
<1>7. \A b \in Admins : Toggling(b) => job'[b].id = job[b].id /\ job'[b].saw = job[b].saw
                                       /\ mocks'[job[b].id] = mocks[job[b].id]
  BY <1>3, <1>4
<1> QED
  BY <1>1, <1>5, <1>6, <1>7 DEF Toggles

LEMMA UpdateToggles ==
    ASSUME TypeOK, Toggles, ToggleLostOnlyToOverlap, NEW a \in Admins, NEW i \in Ids,
           NEW r \in Routes, NEW n \in Inputs, UpdateGRPCMockAPI(a, i, r, n)
    PROVE  Toggles' /\ ToggleLostOnlyToOverlap'
<1>1. /\ job' = job /\ flipped' = flipped /\ overlap' = overlap /\ created' = created
      /\ mocks[i] # NoMock
  BY DEF UpdateGRPCMockAPI
<1>2. \A j \in Ids : mocks[j] # NoMock => mocks'[j].active = mocks[j].active
  <2> DEFINE new == [mocks[i] EXCEPT !.route = r, !.input = IF n = NoInput THEN @ ELSE n]
  <2>1. mocks' = [mocks EXCEPT ![i] = new]
    BY <1>1 DEF UpdateGRPCMockAPI, UpdateByID
  <2>2. new.active = mocks[i].active
    BY <1>1, MockType DEF Mocks
  <2> HIDE DEF new
  <2> QED
    BY <1>1, <2>1, <2>2 DEF TypeOK
<1>3. \A j \in Ids : mocks[j] = NoMock => mocks'[j] = NoMock
  BY <1>1 DEF UpdateGRPCMockAPI, UpdateByID, TypeOK
<1>4. \A b \in Admins : Toggling(b) => job[b].id \in Ids
  BY JobType
<1>5. Toggles'
  BY <1>1, <1>2, <1>3, <1>4 DEF Toggles, Toggling
<1>6. ToggleLostOnlyToOverlap'
  BY <1>1, <1>2, <1>3, MockType DEF ToggleLostOnlyToOverlap
<1> QED
  BY <1>5, <1>6

LEMMA DeleteToggles ==
    ASSUME TypeOK, Toggles, ToggleLostOnlyToOverlap, NEW a \in Admins, NEW i \in created,
           DeleteGRPCMockAPI(a, i)
    PROVE  Toggles' /\ ToggleLostOnlyToOverlap'
<1>1. /\ job' = job /\ created' = created /\ mocks' = [mocks EXCEPT ![i] = NoMock]
      /\ flipped' = flipped \ {i} /\ overlap' = overlap \ {i}
  BY DEF DeleteGRPCMockAPI
<1>2. \A j \in Ids : mocks'[j] # NoMock => j # i /\ mocks'[j] = mocks[j]
  BY <1>1 DEF TypeOK
<1>3. \A b \in Admins : Toggling(b) => job[b].id \in Ids
  BY JobType
<1>4. Toggles'
  BY <1>1, <1>2, <1>3 DEF Toggles, Toggling
<1>5. ToggleLostOnlyToOverlap'
  BY <1>1, <1>2 DEF ToggleLostOnlyToOverlap
<1> QED
  BY <1>4, <1>5

LEMMA ReadToggles ==
    ASSUME TypeOK, Toggles, ToggleLostOnlyToOverlap, NEW a \in Admins, NEW i \in created,
           ToggleRead(a, i)
    PROVE  Toggles' /\ ToggleLostOnlyToOverlap'
<1> DEFINE busy == \E b \in Admins : job[b].pc = "toggle" /\ job[b].id = i
<1>1. /\ mocks' = mocks /\ created' = created /\ mocks[i] # NoMock /\ job[a] = Idle
      /\ job' = [job EXCEPT ![a] = [pc |-> "toggle", id |-> i, saw |-> mocks[i].active]]
      /\ busy => overlap' = overlap \cup {i} /\ flipped' = flipped \ {i}
      /\ ~busy => overlap' = overlap /\ flipped' = flipped
  BY DEF ToggleRead
<1>2. job[a].pc # "toggle"
  BY <1>1 DEF Idle
<1>3. /\ job'[a].pc = "toggle" /\ job'[a].id = i /\ job'[a].saw = mocks[i].active
      /\ \A b \in Admins \ {a} : job'[b] = job[b]
  BY <1>1 DEF TypeOK
<1>4. /\ overlap \subseteq overlap' /\ flipped' \subseteq flipped
      /\ \A j \in Ids \ overlap' : j \in flipped' <=> j \in flipped
      /\ busy => i \in overlap'
  BY <1>1
<1>5. flipped' \subseteq created' /\ \A b \in Admins : job'[b].pc = "toggle" => job'[b].id \in created'
  BY <1>1, <1>3, <1>4 DEF Toggles, Toggling
<1>6. \A b \in Admins : job'[b].pc = "toggle" /\ mocks'[job'[b].id] # NoMock /\ job'[b].id \notin overlap'
                            => job'[b].saw = mocks'[job'[b].id].active
  BY <1>1, <1>3, <1>4 DEF Toggles, Toggling
<1>7. \A b, c \in Admins : (/\ b # c /\ job'[b].pc = "toggle" /\ job'[c].pc = "toggle"
                            /\ job'[b].id = job'[c].id /\ mocks'[job'[b].id] # NoMock)
                               => job'[b].id \in overlap'
  BY <1>1, <1>3, <1>4 DEF Toggles, Toggling
<1>8. Toggles'
  BY <1>5, <1>6, <1>7 DEF Toggles, Toggling
<1>9. ToggleLostOnlyToOverlap'
  BY <1>1, <1>4 DEF ToggleLostOnlyToOverlap
<1> QED
  BY <1>8, <1>9

LEMMA WriteToggles ==
    ASSUME TypeOK, Toggles, ToggleLostOnlyToOverlap, NEW a \in Admins, ToggleWrite(a)
    PROVE  Toggles' /\ ToggleLostOnlyToOverlap'
<1> DEFINE i == job[a].id
           new == [mocks[i] EXCEPT !.active = ~job[a].saw]
<1>1. /\ Toggling(a) /\ i \in Ids /\ i \in created /\ job[a].saw \in BOOLEAN
  BY JobType DEF ToggleWrite, Toggling, Toggles
<1>2. /\ job' = [job EXCEPT ![a] = Idle] /\ created' = created /\ overlap' = overlap
      /\ mocks' = IF mocks[i] = NoMock THEN mocks ELSE [mocks EXCEPT ![i] = new]
      /\ flipped' = IF mocks[i] = NoMock \/ i \in overlap THEN flipped ELSE Toggled(i)
  BY DEF ToggleWrite, UpdateByID
<1>3. /\ job'[a].pc # "toggle"
      /\ \A b \in Admins \ {a} : job'[b] = job[b]
  BY <1>2 DEF TypeOK, Idle
<1>4. /\ \A j \in Ids \ {i} : mocks'[j] = mocks[j] /\ (j \in flipped' <=> j \in flipped)
      /\ \A j \in Ids : mocks[j] = NoMock => mocks'[j] = NoMock
      /\ flipped' \subseteq created
  <2> HIDE DEF new
  <2> QED
    BY <1>1, <1>2 DEF TypeOK, Toggled, Toggles
<1>5. \A b \in Admins \ {a} : Toggling(b) /\ mocks'[job[b].id] # NoMock /\ job[b].id \notin overlap
                                  => job[b].id # i
  BY <1>1, <1>4 DEF Toggles
<1>6. \A b \in Admins : Toggling(b) => job[b].id \in Ids
  BY JobType
<1>7. \A b \in Admins : job'[b].pc = "toggle" => b # a /\ Toggling(b) /\ job'[b] = job[b]
  BY <1>3 DEF Toggling
<1>8. /\ \A b \in Admins : job'[b].pc = "toggle" => job'[b].id \in created'
      /\ \A b \in Admins : job'[b].pc = "toggle" /\ mocks'[job'[b].id] # NoMock /\ job'[b].id \notin overlap'
                               => job'[b].saw = mocks'[job'[b].id].active
      /\ \A b, c \in Admins : (/\ b # c /\ job'[b].pc = "toggle" /\ job'[c].pc = "toggle"
                               /\ job'[b].id = job'[c].id /\ mocks'[job'[b].id] # NoMock)
                                  => job'[b].id \in overlap'
  <2> HIDE DEF new, i
  <2> QED
    BY <1>2, <1>4, <1>5, <1>6, <1>7 DEF Toggles
<1>9. Toggles'
  BY <1>2, <1>4, <1>8 DEF Toggles, Toggling
<1>10. ASSUME i \notin overlap, mocks'[i] # NoMock
       PROVE  mocks'[i].active <=> i \notin flipped'
  <2>1. mocks[i] # NoMock /\ mocks[i] \in Mocks
    BY <1>1, <1>4, <1>10, MockType
  <2>2. new.active = ~job[a].saw
    BY <2>1, <1>1 DEF Mocks
  <2>3. mocks'[i] = new /\ flipped' = Toggled(i)
    <3> HIDE DEF new
    <3> QED
      BY <1>1, <1>2, <1>10, <2>1 DEF TypeOK
  <2>4. job[a].saw = mocks[i].active /\ (mocks[i].active <=> i \notin flipped)
    BY <1>1, <1>10, <2>1 DEF Toggles, ToggleLostOnlyToOverlap
  <2>5. i \in flipped' <=> i \notin flipped
    BY <2>3 DEF Toggled
  <2>6. mocks'[i].active = ~mocks[i].active
    BY <2>2, <2>3, <2>4
  <2> QED
    BY <2>4, <2>5, <2>6
<1>11. ToggleLostOnlyToOverlap'
  BY <1>2, <1>4, <1>10 DEF ToggleLostOnlyToOverlap
<1> QED
  BY <1>9, <1>11

LEMMA AdminToggles ==
    ASSUME TypeOK, Toggles, ToggleLostOnlyToOverlap, NEW a \in Admins, AdminStep(a)
    PROVE  Toggles' /\ ToggleLostOnlyToOverlap'
<1>1. ASSUME NEW i \in Ids, NEW r \in Routes, NEW n \in Inputs,
             CreateGRPCMockAPI(a, i, r, n) \/ ImportOne(a, i, r, n)
      PROVE  Toggles' /\ ToggleLostOnlyToOverlap'
  <2>1. Insert(i, BuildGRPCMockDomain(r, n))
    BY <1>1 DEF CreateGRPCMockAPI, ImportOne
  <2>2. \A b \in Admins : ((job'[b].pc = "toggle") <=> Toggling(b)) /\ (Toggling(b) => job'[b] = job[b])
    <3>1. CASE CreateGRPCMockAPI(a, i, r, n)
      BY <3>1 DEF CreateGRPCMockAPI, Toggling
    <3>2. CASE ImportOne(a, i, r, n)
      BY <3>2, JobType DEF ImportOne, OneLess, Toggling, TypeOK
    <3> QED
      BY <1>1, <3>1, <3>2
  <2> QED
    BY <2>1, <2>2, InsertToggles
<1>2. ASSUME NEW i \in Ids, NEW r \in Routes, NEW n \in Inputs,
             UpdateGRPCMockAPI(a, i, r, n)
      PROVE  Toggles' /\ ToggleLostOnlyToOverlap'
  BY <1>2, UpdateToggles
<1>3. ASSUME NEW n \in 0..MaxImport, ImportGRPCMockAPIs(a, n)
      PROVE  Toggles' /\ ToggleLostOnlyToOverlap'
  <2>1. /\ \A b \in Admins : (Toggling(b))' => Toggling(b) /\ job'[b] = job[b]
        /\ UNCHANGED <<mocks, created, flipped, overlap>>
    BY <1>3 DEF ImportGRPCMockAPIs, Toggling, TypeOK
  <2> QED
    BY <2>1 DEF Toggles, ToggleLostOnlyToOverlap
<1>4. CASE ImportSkip(a) \/ ImportDone(a) \/ ToggleFails(a)
  <2>1. /\ \A b \in Admins : (Toggling(b))' => Toggling(b) /\ job'[b] = job[b]
        /\ UNCHANGED <<mocks, created, flipped, overlap>>
    BY <1>4, JobType DEF ImportSkip, ImportDone, ToggleFails, OneLess, Idle, Toggling, TypeOK
  <2> QED
    BY <2>1 DEF Toggles, ToggleLostOnlyToOverlap
<1>5. ASSUME NEW i \in created, DeleteGRPCMockAPI(a, i) \/ ToggleRead(a, i)
      PROVE  Toggles' /\ ToggleLostOnlyToOverlap'
  BY <1>5, DeleteToggles, ReadToggles
<1>6. CASE ToggleWrite(a)
  BY <1>6, WriteToggles
<1> QED
  BY <1>1, <1>2, <1>3, <1>4, <1>5, <1>6 DEF AdminStep

LEMMA OthersToggles ==
    ASSUME Toggles, ToggleLostOnlyToOverlap, UNCHANGED <<mocks, created, job, flipped, overlap>>
    PROVE  Toggles' /\ ToggleLostOnlyToOverlap'
BY DEF Toggles, Toggling, ToggleLostOnlyToOverlap

-------------------------------------------------------------------------------
(* Calls.                                                                   *)

LEMMA AdminCalls ==
    ASSUME TypeOK, Calling, SteadyMockAnswers, AdminFrame
    PROVE  Calling' /\ SteadyMockAnswers'
<1>1. call' = call /\ \A c \in Callers : /\ steady'[c] \subseteq steady[c]
                                         /\ \A i \in steady'[c] : mocks'[i] = mocks[i]
  BY DEF AdminFrame, Watch, Unwritten, TypeOK
<1>2. \A c \in Callers : call[c].pc # "idle" => steady'[c] \subseteq Fits(mocks', call[c].req)
  BY <1>1 DEF Calling, Fits, Own
<1>3. Calling'
  BY <1>1, <1>2 DEF Calling
<1>4. SteadyMockAnswers'
  BY <1>1 DEF SteadyMockAnswers
<1> QED
  BY <1>3, <1>4

LEMMA FoundOwn ==
    ASSUME TypeOK, NEW req \in Requests, NEW hash
    PROVE  /\ hash = req.body => Own(mocks, req) \subseteq Found(mocks, req.route, hash)
           /\ hash = NoInput => Own(mocks, [req EXCEPT !.body = NoInput])
                                    \subseteq Found(mocks, req.route, hash)
           /\ \A i \in Found(mocks, req.route, hash) : mocks[i].input = hash
BY DEF Found, Own, HashInputConsistent, Requests

LEMMA FirstLookUp ==
    ASSUME TypeOK, Calling, SteadyMockAnswers, NEW c \in Callers, HandleCall(c)
    PROVE  Calling' /\ SteadyMockAnswers'
<1> DEFINE req  == call[c].req
           hash == HashStructProto(req.body)
           S    == Found(mocks, req.route, hash)
           next == IF hash = NoInput THEN "missing" ELSE "any"
<1>1. call[c].pc = "exact" /\ req \in Requests /\ steady[c] \subseteq Fits(mocks, req)
  BY CallType DEF HandleCall, Calling
<1>2. UNCHANGED <<mocks, steady>>
  BY DEF HandleCall, LookUp
<1>3. /\ \A d \in Callers \ {c} : call'[d] = call[d]
      /\ call'[c].req = req
      /\ \/ call'[c].pc = "found" /\ \E i \in S : call'[c].mock = mocks[i]
         \/ call'[c].pc = next /\ S = {}
  BY DEF HandleCall, LookUp, TypeOK
<1>4. hash = NoInput <=> req.body \in {NoInput, EmptyObject}
  BY InputsAssumption DEF HashStructProto
<1>5. hash # NoInput => hash = req.body
  BY <1>4 DEF HashStructProto
<1>6. call'[c].pc = "any" => /\ req.body \notin {NoInput, EmptyObject}
                             /\ \A i \in steady[c] : mocks[i].input # req.body
  <2> SUFFICES ASSUME call'[c].pc = "any"
               PROVE  /\ req.body \notin {NoInput, EmptyObject}
                      /\ \A i \in steady[c] : mocks[i].input # req.body
    OBVIOUS
  <2>1. S = {} /\ hash # NoInput
    BY <1>3
  <2>2. Own(mocks, req) = {} /\ req.body # NoInput /\ req.body # EmptyObject
    BY <1>1, <1>4, <1>5, <2>1, FoundOwn
  <2>3. \A i \in Own(mocks, [req EXCEPT !.body = NoInput]) : mocks[i].input = NoInput
    BY <1>1 DEF Own, Requests
  <2> QED
    BY <1>1, <2>2, <2>3 DEF Fits
<1>7. call'[c].pc = "missing" /\ req.body # EmptyObject => steady[c] = {}
  <2> SUFFICES ASSUME call'[c].pc = "missing", req.body # EmptyObject
               PROVE  steady[c] = {}
    OBVIOUS
  <2>1. S = {} /\ hash = NoInput
    BY <1>3
  <2>2. req.body = NoInput
    BY <1>4, <2>1
  <2>3. Own(mocks, req) = {} /\ Own(mocks, [req EXCEPT !.body = NoInput]) = {}
    BY <1>1, <2>1, <2>2, FoundOwn
  <2> QED
    BY <1>1, <2>3 DEF Fits
<1>8. call'[c].pc = "found" /\ req.body # EmptyObject => call'[c].mock.input = req.body
  <2>1. req.body # EmptyObject => hash = req.body
    BY DEF HashStructProto
  <2>2. \A i \in S : mocks[i].input = hash
    BY DEF Found, HashInputConsistent
  <2>3. call'[c].pc = "found" => call'[c].mock.input = hash
    <3> HIDE DEF hash, S
    <3> QED
      BY <1>3, <2>2
  <2> QED
    BY <2>1, <2>3
<1> HIDE DEF req, hash, S, next
<1>9. Calling'
  <2>1. call[c].req = req
    BY DEF req
  <2> QED
    BY <1>1, <1>2, <1>3, <1>6, <2>1 DEF Calling
<1>10. SteadyMockAnswers'
  BY <1>2, <1>3, <1>7, <1>8 DEF SteadyMockAnswers
<1> QED
  BY <1>9, <1>10

LEMMA SecondLookUp ==
    ASSUME TypeOK, Calling, SteadyMockAnswers, NEW c \in Callers, HandleCallAny(c)
    PROVE  Calling' /\ SteadyMockAnswers'
<1> DEFINE req  == call[c].req
           S    == Found(mocks, req.route, NoInput)
<1>1. /\ call[c].pc = "any" /\ req \in Requests /\ steady[c] \subseteq Fits(mocks, req)
      /\ \A i \in steady[c] : mocks[i].input # req.body
  BY CallType DEF HandleCallAny, Calling
<1>2. UNCHANGED <<mocks, steady>>
  BY DEF HandleCallAny, LookUp
<1>3. /\ \A d \in Callers \ {c} : call'[d] = call[d]
      /\ call'[c].req = req
      /\ call'[c].pc \in {"found", "missing"}
      /\ call'[c].pc = "missing" => S = {}
  BY DEF HandleCallAny, LookUp, TypeOK
<1>4. call'[c].pc = "missing" => steady[c] = {}
  <2>1. \A i \in Own(mocks, req) : mocks[i].input = req.body
    BY DEF Own
  <2>2. S = {} => Own(mocks, [req EXCEPT !.body = NoInput]) = {}
    BY <1>1, FoundOwn
  <2> QED
    BY <1>1, <1>3, <2>1, <2>2 DEF Fits
<1> HIDE DEF req, S
<1>5. Calling'
  <2>1. call[c].req = req
    BY DEF req
  <2> QED
    BY <1>1, <1>2, <1>3, <2>1 DEF Calling
<1>6. SteadyMockAnswers'
  BY <1>1, <1>2, <1>3, <1>4 DEF SteadyMockAnswers
<1> QED
  BY <1>5, <1>6

LEMMA CallSteps ==
    ASSUME TypeOK, Calling, SteadyMockAnswers, NEW c \in Callers, CallStep(c)
    PROVE  Calling' /\ SteadyMockAnswers'
<1>1. ASSUME NEW r \in Routes, NEW b \in Bodies, UnknownServiceHandler(c, r, b)
      PROVE  Calling' /\ SteadyMockAnswers'
  <2> DEFINE req == [route |-> r, body |-> b]
  <2>1. /\ call' = [call EXCEPT ![c] = [pc |-> "exact", req |-> req]]
        /\ steady' = [steady EXCEPT ![c] = Fits(mocks, req)] /\ mocks' = mocks
    BY <1>1 DEF UnknownServiceHandler
  <2> HIDE DEF req
  <2>2. /\ call'[c].pc = "exact" /\ steady'[c] = Fits(mocks, call'[c].req)
        /\ \A d \in Callers \ {c} : call'[d] = call[d] /\ steady'[d] = steady[d]
    BY <2>1 DEF TypeOK
  <2>3. Calling'
    BY <2>1, <2>2 DEF Calling
  <2>4. SteadyMockAnswers'
    BY <2>1, <2>2 DEF SteadyMockAnswers
  <2> QED
    BY <2>3, <2>4
<1>2. CASE HandleCall(c)
  BY <1>2, FirstLookUp
<1>3. CASE HandleCallAny(c)
  BY <1>3, SecondLookUp
<1>4. CASE LookUpFails(c) \/ Answer(c)
  <2>1. /\ call'[c].pc = "idle" /\ mocks' = mocks
        /\ \A d \in Callers \ {c} : call'[d] = call[d] /\ steady'[d] = steady[d]
    BY <1>4 DEF LookUpFails, Answer, Finish, TypeOK, Idle
  <2> QED
    BY <2>1 DEF Calling, SteadyMockAnswers
<1> QED
  BY <1>1, <1>2, <1>3, <1>4 DEF CallStep

LEMMA OthersCalls ==
    ASSUME Calling, SteadyMockAnswers, UNCHANGED <<mocks, call, steady>>
    PROVE  Calling' /\ SteadyMockAnswers'
BY DEF Calling, SteadyMockAnswers

-------------------------------------------------------------------------------
(* Reflection.                                                              *)

LEMMA AdminListing ==
    ASSUME TypeOK, Listing, ListedIsFound, AdminFrame
    PROVE  Listing' /\ ListedIsFound'
<1>1. view' = view /\ \A x \in Explorers : /\ listed'[x] \subseteq listed[x]
                                           /\ \A i \in listed'[x] : mocks'[i] = mocks[i]
  BY DEF AdminFrame, Watch, Unwritten, TypeOK
<1> QED
  BY <1>1 DEF Listing, ListedIsFound, ListAll

LEMMA ExplorerSteps ==
    ASSUME TypeOK, Listing, ListedIsFound, NEW x \in Explorers, ExplorerStep(x)
    PROVE  Listing' /\ ListedIsFound'
<1>1. CASE GetServiceInfo(x)
  BY <1>1 DEF GetServiceInfo, List, Tell, TypeOK, Listing, ListedIsFound
<1>2. ASSUME NEW s \in Services, BuildServiceFile(x, s)
      PROVE  Listing' /\ ListedIsFound'
  <2> PICK what \in {"idle"} \cup NotFound, S \in SUBSET Ids :
           /\ Tell(x, what, S)
           /\ what = "unknown" => /\ OfService(mocks, s) = {}
                                  /\ S = {i \in listed[x] : ServiceOf[mocks[i].route] = s}
    BY <1>2, BuiltTells
  <2>1. /\ mocks' = mocks /\ view[x] = "listed" /\ listed[x] \subseteq ListAll(mocks)
        /\ view'[x] = what /\ listed'[x] = S /\ what # "listed"
        /\ \A y \in Explorers \ {x} : view'[y] = view[y] /\ listed'[y] = listed[y]
    BY <1>2 DEF BuildServiceFile, Tell, NotFound, TypeOK, Listing
  <2>2. what = "unknown" => S = {}
    BY <2>1 DEF OfService
  <2> QED
    BY <2>1, <2>2 DEF Listing, ListedIsFound
<1>3. CASE Leave(x)
  BY <1>3 DEF Leave, Tell, TypeOK, Listing, ListedIsFound
<1> QED
  BY <1>1, <1>2, <1>3 DEF ExplorerStep

LEMMA OthersListing ==
    ASSUME Listing, ListedIsFound, UNCHANGED <<mocks, view, listed>>
    PROVE  Listing' /\ ListedIsFound'
BY DEF Listing, ListedIsFound

-------------------------------------------------------------------------------
LEMMA InitInv == Init => Inv
<1> SUFFICES ASSUME Init
             PROVE  Inv
  OBVIOUS
<1>1. TypeOK
  BY DEF Init, TypeOK, Jobs, Calls
<1>2. Toggles /\ ToggleLostOnlyToOverlap
  <2>1. \A a \in Admins : ~Toggling(a)
    BY DEF Init, Idle, Toggling
  <2>2. flipped = {} /\ \A i \in Ids : mocks[i] = NoMock
    BY DEF Init
  <2>3. Toggles
    <3>1. flipped \subseteq created
      BY <2>2
    <3> QED
      BY <2>1, <3>1, Zenon DEF Toggles
  <2>4. ToggleLostOnlyToOverlap
    BY <2>2, Zenon DEF ToggleLostOnlyToOverlap
  <2> QED
    BY <2>3, <2>4
<1>3. Calling /\ SteadyMockAnswers
  BY DEF Init, Idle, Calling, SteadyMockAnswers
<1>4. Listing /\ ListedIsFound
  BY DEF Init, Listing, ListedIsFound
<1> QED
  BY <1>1, <1>2, <1>3, <1>4 DEF Inv

LEMMA CallFrame ==
    ASSUME NEW c \in Callers, CallStep(c)
    PROVE  UNCHANGED <<mocks, created, job, view, flipped, overlap, listed>>
BY Zenon DEF CallStep, UnknownServiceHandler, HandleCall, HandleCallAny, LookUp, LookUpFails,
             Answer, Finish

LEMMA ExplorerFrame ==
    ASSUME NEW x \in Explorers, ExplorerStep(x)
    PROVE  UNCHANGED <<mocks, created, job, call, flipped, overlap, steady>>
BY Zenon DEF ExplorerStep, GetServiceInfo, List, Tell, BuildServiceFile, Leave

LEMMA NextInv == Inv /\ [Next]_vars => Inv'
<1> SUFFICES ASSUME Inv, [Next]_vars
             PROVE  Inv'
  OBVIOUS
<1> USE DEF Inv
<1>1. ASSUME NEW a \in Admins, AdminStep(a)
      PROVE  Inv'
  BY <1>1, AdminType, AdminSteps, AdminToggles, AdminCalls, AdminListing
<1>2. ASSUME NEW c \in Callers, CallStep(c)
      PROVE  Inv'
  BY <1>2, CallTypeKept, CallFrame, OthersToggles, CallSteps, OthersListing
<1>3. ASSUME NEW x \in Explorers, ExplorerStep(x)
      PROVE  Inv'
  BY <1>3, ExplorerType, ExplorerFrame, OthersToggles, OthersCalls, ExplorerSteps
<1>4. CASE UNCHANGED vars
  <2>1. TypeOK'
    BY <1>4 DEF vars, TypeOK
  <2> QED
    BY <1>4, <2>1, OthersToggles, OthersCalls, OthersListing DEF vars
<1> QED
  BY <1>1, <1>2, <1>3, <1>4 DEF Next

(* The invariant from which the theorems below follow.                        *)
LEMMA Invariant == Spec => []Inv
BY InitInv, NextInv, PTL DEF Spec

(* The collection, the jobs, calls and views always have their types.           *)
THEOREM TypeCorrect == Spec => []TypeOK
BY Invariant, PTL DEF Inv

(* Unless two toggles of a mock were under way at once, the mock is active exactly   *)
(* when it was toggled an even number of times: no update, import or deletion of     *)
(* others is a reason for a lost toggle.                                      *)
THEOREM TogglesAreNotLost == Spec => []ToggleLostOnlyToOverlap
BY Invariant, PTL DEF Inv

(* A mock that fits a call and is not written to while the call looks twice is not     *)
(* passed over: HandleCall needs no snapshot of the collection.                 *)
THEOREM SteadyMocksAnswer == Spec => []SteadyMockAnswers
BY Invariant, PTL DEF Inv

(* A service that reflection listed is found again if one of the mocks that put it on   *)
(* the list is untouched; whether it is described is another matter.             *)
THEOREM ListedAreFound == Spec => []ListedIsFound
BY Invariant, PTL DEF Inv

===============================================================================
