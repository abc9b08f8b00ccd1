------------------------- MODULE LoadTestRunnerProofs -------------------------
(***************************************************************************)
(* Proofs about LoadTestRunner, for any accounts, steps and variables and any   *)
(* number of workers: what a run reports, whose variables an account reads,     *)
(* what can take the process down, and that the pool implements Batch.         *)
(***************************************************************************)
EXTENDS LoadTestRunner, SequenceTheorems, FiniteSetTheorems, TLAPS

-------------------------------------------------------------------------------
(***************************************************************************)
(* Types.                                                                    *)
(***************************************************************************)

RunOK == run \in [phase : {"none", "running", "done", "crashed"}, steps : StepLists \cup {<<>>},
                  concurrency : Nat, accounts : Lists \cup {<<>>}]
FeederOK == feeder \in [pc : {"feed", "collect"}, fed : 0..N] /\ taken \in 0..feeder.fed
LocalOK(l) ==
    /\ l \in Locals
    /\ l.pc \notin {"receive", "exit"} => l.account > 0
    /\ l.pc \in Inner => l.step > 0 /\ l.own # Nil
    /\ l.pc \in Inner \ {"condition"} => l.step <= Len(run.steps) /\ l.tries <= run.steps[l.step].max
    /\ l.pc \in {"curl", "build"} /\ run.steps[l.step].max > 0 => l.tries < run.steps[l.step].max
WorkersOK == worker \in [Workers -> Locals] /\ \A w \in Workers : LocalOK(worker[w])
VarsOK    == globalVars \in [Names -> Entries \cup {Nil}]
ResultsOK == /\ resultChan \in Seq(Results) /\ resultClosed \in BOOLEAN
             /\ result \in [accounts : Seq(Results), success : Nat, failure : Nat]

(* A step that may be tried again has an attempt left, which TypeOK does not say.         *)
Typed == RunOK /\ FeederOK /\ WorkersOK /\ VarsOK /\ ResultsOK

LEMMA TypedTypeOK == Typed => TypeOK
BY DEF Typed, TypeOK, RunOK, FeederOK, WorkersOK, VarsOK, ResultsOK, LocalOK, StepOf

LEMMA RunFacts ==
    ASSUME RunOK
    PROVE  /\ N \in Nat /\ \A a \in 1..N : run.accounts[a] \in Names
           /\ Len(run.steps) \in Nat /\ \A i \in 1..Len(run.steps) : run.steps[i] \in Steps
<1>1. run.accounts \in Seq(Names) /\ run.steps \in Seq(Steps)
  BY ListAssumption, StepAssumption, EmptySeq DEF RunOK
<1> QED
  BY <1>1, LenProperties, ElementOfSeq DEF N

LEMMA FeedFacts ==
    ASSUME RunOK, FeederOK
    PROVE  N \in Nat /\ feeder.fed \in Nat /\ taken \in Nat /\ taken <= feeder.fed /\ feeder.fed <= N
BY RunFacts DEF FeederOK

LEMMA OneWorker == 1 \in Workers /\ IsFiniteSet(Workers)
BY BoundsAssumption, FS_Interval DEF Workers

(* A worker that has an account.                                                *)
LEMMA BusyFacts ==
    ASSUME RunOK, FeederOK, WorkersOK, NEW w \in Busy
    PROVE  /\ w \in Workers /\ worker[w].account \in 1..taken
           /\ worker[w].account \in 1..N /\ NameOf(w) \in Names
<1>1. worker[w].account \in 0..taken /\ worker[w].account > 0
  BY DEF Busy, WorkersOK, LocalOK, Locals
<1> QED
  BY <1>1, FeedFacts, RunFacts DEF NameOf, Busy

LEMMA FreshEntry == Fresh \in Entries /\ Fresh # Nil
BY NilAssumption DEF Fresh, Entries, Values

LEMMA FreeOK ==
    ASSUME RunOK, FeederOK
    PROVE  LocalOK(Free) /\ LocalOK(Gone)
<1>1. 0 \in 0..taken /\ 0 \in 0..Len(run.steps) + 1 /\ 0 \in 0..MaxTries
  BY FeedFacts, RunFacts, BoundsAssumption
<1> QED
  BY <1>1 DEF LocalOK, Locals, Free, Gone, PCs, Inner

-------------------------------------------------------------------------------
(* The steps of a worker, by what they do.                                      *)

(* A step inside an account, with the variables as they are or with new ones.          *)
Moved(w, new) ==
    /\ Running /\ worker[w].pc \in Inner
    /\ LocalOK(new) /\ new.pc \in Inner \cup {"report"}
    /\ new.account = worker[w].account /\ new.shared = worker[w].shared
    /\ worker' = [worker EXCEPT ![w] = new]
    /\ \/ new.own = worker[w].own /\ UNCHANGED globalVars
       \/ \E entry \in Entries :
              /\ globalVars[NameOf(w)] # Nil
              /\ globalVars[NameOf(w)] = worker[w].own => new.own = entry
              /\ globalVars' = [globalVars EXCEPT ![NameOf(w)] = entry]
    /\ UNCHANGED <<run, pool, results>>

(* A step that stays with its variables.                                         *)
Keeps(w, new) ==
    /\ LocalOK(new) /\ new.pc \in Inner \cup {"report"}
    /\ new.account = worker[w].account /\ new.shared = worker[w].shared /\ new.own = worker[w].own

LEMMA KeepsMoved ==
    ASSUME NEW w \in Workers, NEW new, Keeps(w, new), Running, worker[w].pc \in Inner, Move(w, new)
    PROVE  Moved(w, new)
BY DEF Keeps, Move, Moved

LEMMA Ends ==
    ASSUME WorkersOK, NEW w \in Workers, worker[w].pc \in Inner, NEW success \in BOOLEAN
    PROVE  Keeps(w, Finished(w, success))
BY DEF WorkersOK, LocalOK, Locals, Keeps, Finished, PCs, Inner

LEMMA GoesTo ==
    ASSUME WorkersOK, NEW w \in Workers, worker[w].pc \in Inner \ {"condition"},
           NEW pc \in Inner \ {"condition"},
           pc \in {"curl", "build"} => worker[w].pc \in {"curl", "build"}
                                      \/ (StepOf(w).max > 0 => worker[w].tries < StepOf(w).max)
    PROVE  Keeps(w, [worker[w] EXCEPT !.pc = pc])
BY DEF WorkersOK, LocalOK, Locals, Keeps, PCs, Inner, StepOf

LEMMA GoesOn ==
    ASSUME RunOK, WorkersOK, NEW w \in Workers, worker[w].pc \in Inner, worker[w].step <= Len(run.steps)
    PROVE  Keeps(w, NextStep(w))
<1>1. worker[w].step + 1 \in 0..Len(run.steps) + 1 /\ worker[w].step + 1 > 0
  BY RunFacts DEF WorkersOK, LocalOK, Locals
<1> QED
  BY <1>1 DEF WorkersOK, LocalOK, Locals, Keeps, PCs, Inner, NextStep

LEMMA StepFacts ==
    ASSUME RunOK, WorkersOK, NEW w \in Workers, worker[w].pc \in Inner, worker[w].step <= Len(run.steps)
    PROVE  StepOf(w) \in Steps
<1>1. worker[w].step \in 1..Len(run.steps)
  BY RunFacts DEF WorkersOK, LocalOK, Locals
<1> QED
  BY <1>1, RunFacts DEF StepOf

InnerStep(w) ==
    \/ EndSteps(w) \/ EvaluateCondition(w) \/ ParseCurl(w) \/ BuildRequest(w)
    \/ RequestFails(w) \/ WrongStatus(w) \/ GoodAnswer(w) \/ Deadline(w)
    \/ SaveVariables(w) \/ (SaveLost(w, FALSE))

LEMMA InnerMoves ==
    ASSUME RunOK, FeederOK, WorkersOK, VarsOK, NEW w \in Workers, InnerStep(w)
    PROVE  \E new : Moved(w, new)
<1>a. /\ worker[w] \in Locals /\ LocalOK(worker[w])
      /\ worker[w].pc \in Inner \ {"condition"} => worker[w].step <= Len(run.steps)
  BY DEF WorkersOK, LocalOK
<1>1. CASE EndSteps(w)
  BY <1>1, Ends, KeepsMoved DEF EndSteps, At, Inner
<1>2. CASE EvaluateCondition(w)
  <2>1. /\ worker[w].pc = "condition" /\ worker[w].pc \in Inner /\ worker[w].step <= Len(run.steps)
        /\ Running
    BY <1>2 DEF EvaluateCondition, At, Inner
  <2> DEFINE next(pc) == [worker[w] EXCEPT !.pc = pc, !.tries = 0, !.late = FALSE]
  <2>2. \A pc \in {"curl", "build"} : Keeps(w, next(pc))
    <3>1. StepOf(w) \in Steps
      BY <2>1, StepFacts
    <3>2. 0 <= run.steps[worker[w].step].max /\ 0 \in 0..MaxTries
      BY <3>1, BoundsAssumption DEF Steps, StepOf
    <3> QED
      BY <1>a, <2>1, <3>2 DEF LocalOK, Locals, Keeps, PCs, Inner
  <2>3. Move(w, Finished(w, FALSE)) \/ Move(w, NextStep(w)) \/ \E pc \in {"curl", "build"} : Move(w, next(pc))
    BY <1>2 DEF EvaluateCondition
  <2> QED
    BY <2>1, <2>2, <2>3, Ends, GoesOn, KeepsMoved
<1>3. CASE ParseCurl(w)
  <2>1. /\ Running /\ worker[w].pc = "curl" /\ worker[w].pc \in Inner \ {"condition"}
        /\ (Move(w, Finished(w, FALSE)) \/ Move(w, [worker[w] EXCEPT !.pc = "build"]))
    BY <1>3 DEF ParseCurl, At, Inner
  <2>2. "build" \in Inner \ {"condition"}
    BY DEF Inner
  <2> QED
    BY <2>1, <2>2, Ends, GoesTo, KeepsMoved
<1>4. CASE BuildRequest(w)
  <2>1. /\ Running /\ worker[w].pc = "build" /\ worker[w].pc \in Inner \ {"condition"}
        /\ \/ Move(w, Finished(w, FALSE))
           \/ Move(w, [worker[w] EXCEPT !.pc = "send", !.tries = Counted(w)])
    BY <1>4 DEF BuildRequest, At, Inner
  <2>2. StepOf(w) \in Steps /\ worker[w].step <= Len(run.steps)
    BY <1>a, <2>1, StepFacts
  <2>3. Counted(w) \in 0..MaxTries /\ Counted(w) <= StepOf(w).max
    <3>1. StepOf(w).max \in 0..MaxTries /\ worker[w].tries \in Nat
      BY <1>a, <2>2 DEF Steps, Locals
    <3>2. StepOf(w).max > 0 => worker[w].tries < StepOf(w).max
      BY <1>a, <2>1 DEF LocalOK, StepOf
    <3> QED
      BY <3>1, <3>2, BoundsAssumption DEF Counted
  <2>4. Keeps(w, [worker[w] EXCEPT !.pc = "send", !.tries = Counted(w)])
    BY <1>a, <2>1, <2>3 DEF LocalOK, Locals, Keeps, PCs, Inner, StepOf
  <2> QED
    BY <2>1, <2>4, Ends, KeepsMoved
<1>5. CASE RequestFails(w) \/ WrongStatus(w)
  <2>1. /\ Running /\ worker[w].pc = "send" /\ worker[w].pc \in Inner \ {"condition"}
        /\ \/ Move(w, Finished(w, FALSE))
           \/ ShouldRetry(w) /\ Move(w, [worker[w] EXCEPT !.pc = "build"])
    BY <1>5 DEF RequestFails, WrongStatus, RetryOrFail, At, Inner
  <2>2. "build" \in Inner \ {"condition"}
    BY DEF Inner
  <2>3. ShouldRetry(w) => Keeps(w, [worker[w] EXCEPT !.pc = "build"])
    BY <2>1, <2>2, GoesTo DEF ShouldRetry
  <2> QED
    BY <2>1, <2>3, Ends, KeepsMoved
<1>6. CASE GoodAnswer(w)
  <2>1. /\ Running /\ worker[w].pc = "send" /\ worker[w].pc \in Inner \ {"condition"}
        /\ Move(w, [worker[w] EXCEPT !.pc = "save"])
    BY <1>6 DEF GoodAnswer, At, Inner
  <2>2. "save" \in Inner \ {"condition"}
    BY DEF Inner
  <2> QED
    BY <2>1, <2>2, GoesTo, KeepsMoved
<1>7. CASE Deadline(w)
  <2>1. /\ Running /\ worker[w].pc \in {"build", "send"} /\ worker[w].pc \in Inner
        /\ Move(w, [worker[w] EXCEPT !.late = TRUE])
    BY <1>7 DEF Deadline, Inner
  <2>2. Keeps(w, [worker[w] EXCEPT !.late = TRUE])
    BY <1>a, <2>1 DEF LocalOK, Locals, Keeps, PCs, Inner
  <2> QED
    BY <2>1, <2>2, KeepsMoved
<1>8. CASE SaveVariables(w) \/ SaveLost(w, FALSE)
  <2>1. /\ Running /\ worker[w].pc = "save" /\ worker[w].pc \in Inner
        /\ worker[w].step <= Len(run.steps)
    BY <1>a, <1>8 DEF SaveVariables, SaveLost, At, Inner
  <2>2. Keeps(w, NextStep(w))
    BY <2>1, GoesOn
  <2>3. CASE SaveLost(w, FALSE)
    BY <2>1, <2>2, <2>3, KeepsMoved DEF SaveLost
  <2>4. CASE SaveVariables(w)
    <3>1. w \in Busy /\ NameOf(w) \in Names
      BY <2>1, BusyFacts DEF Busy
    <3>2. globalVars[NameOf(w)] # Nil /\ globalVars[NameOf(w)] \in Entries
      BY <2>4, <3>1 DEF SaveVariables, VarsOK
    <3>3. PICK names \in SUBSET StepOf(w).saves : \E found \in [names -> {"yes", "no"}] :
              /\ globalVars' = [globalVars EXCEPT ![NameOf(w)] = Extracted(globalVars[NameOf(w)], found)]
              /\ worker' = [worker EXCEPT ![w] =
                                [NextStep(w) EXCEPT !.own = Extracted(NextStep(w).own, found)]]
              /\ UNCHANGED <<run, pool, results>>
      BY <2>4 DEF SaveVariables
    <3>4. PICK found \in [names -> {"yes", "no"}] :
              /\ globalVars' = [globalVars EXCEPT ![NameOf(w)] = Extracted(globalVars[NameOf(w)], found)]
              /\ worker' = [worker EXCEPT ![w] =
                                [NextStep(w) EXCEPT !.own = Extracted(NextStep(w).own, found)]]
              /\ UNCHANGED <<run, pool, results>>
      BY <3>3
    <3>5. \A entry \in Entries : Extracted(entry, found) \in Entries
      BY DEF Extracted, Entries, Values
    <3>6. PICK own \in Entries : own = worker[w].own /\ NextStep(w).own = own
      BY <1>a, <2>1, <2>2 DEF LocalOK, Locals, Keeps
    <3>7. PICK mine, entry \in Entries : mine = Extracted(own, found)
                                       /\ entry = Extracted(globalVars[NameOf(w)], found)
      BY <3>2, <3>5
    <3>8. PICK new : new = [NextStep(w) EXCEPT !.own = mine]
      OBVIOUS
    <3>9. /\ LocalOK(new) /\ new.own = mine /\ new.pc \in Inner \cup {"report"}
          /\ new.account = worker[w].account /\ new.shared = worker[w].shared
      BY <2>2, <3>7, <3>8, NilAssumption DEF Keeps, LocalOK, Locals
    <3>10. /\ globalVars' = [globalVars EXCEPT ![NameOf(w)] = entry]
           /\ worker' = [worker EXCEPT ![w] = new]
           /\ globalVars[NameOf(w)] = worker[w].own => mine = entry
      BY <3>4, <3>6, <3>7, <3>8
    <3>11. Moved(w, new)
      BY <2>1, <3>2, <3>4, <3>7, <3>9, <3>10 DEF Moved
    <3> QED
      BY <3>11
  <2> QED
    BY <1>8, <2>3, <2>4
<1> QED
  BY <1>1, <1>2, <1>3, <1>4, <1>5, <1>6, <1>7, <1>8 DEF InnerStep

(* What becomes of an entry when w begins: a race may take it.                          *)
Survives(w, entry, new) == new = entry \/ (new = Nil /\ Touching(w) # {})

(* The worker w begins its account; the others that are inside an account of its name know. *)
Begins(w, others, shared) ==
    /\ Running /\ worker[w].pc = "init"
    /\ others \in SUBSET Inside(w) /\ shared \in BOOLEAN /\ (shared => Inside(w) # {})
    /\ worker' = [v \in Workers |->
           IF v = w THEN [worker[w] EXCEPT !.pc = "condition", !.step = 1, !.own = Fresh,
                                           !.shared = shared]
           ELSE IF v \in others THEN [worker[v] EXCEPT !.shared = TRUE]
           ELSE worker[v]]
    /\ \A v \in Inside(w) : NameOf(v) = NameOf(w) => shared /\ v \in others
    /\ globalVars' \in [Names -> Entries \cup {Nil}]
    /\ Survives(w, Fresh, globalVars'[NameOf(w)])
    /\ \A v \in Inside(w) \ others : Survives(w, globalVars[NameOf(v)], globalVars'[NameOf(v)])
    /\ UNCHANGED <<run, pool, results>>

LEMMA AccountBegins ==
    ASSUME RunOK, FeederOK, WorkersOK, VarsOK, NEW w \in Workers, StartAccount(w) \/ LoseEntry(w)
    PROVE  \E others, shared : Begins(w, others, shared)
<1> DEFINE others == Namesakes(w)
           shared == others # {}
<1>1. /\ Running /\ worker[w].pc = "init" /\ UNCHANGED <<run, pool, results>>
      /\ worker' = [v \in Workers |->
             IF v = w THEN [worker[w] EXCEPT !.pc = "condition", !.step = 1, !.own = Fresh,
                                             !.shared = shared]
             ELSE IF v \in others THEN [worker[v] EXCEPT !.shared = TRUE]
             ELSE worker[v]]
  BY DEF StartAccount, LoseEntry, At, Begin
<1>2. NameOf(w) \in Names /\ \A v \in Inside(w) : NameOf(v) \in Names
  <2>1. w \in Busy /\ \A v \in Inside(w) : v \in Busy
    BY <1>1 DEF Busy, Inside, Inner
  <2> QED
    BY <2>1, BusyFacts
<1>3. /\ others \in SUBSET Inside(w) /\ shared \in BOOLEAN /\ (shared => Inside(w) # {})
      /\ \A v \in Inside(w) : NameOf(v) = NameOf(w) => shared /\ v \in others
      /\ \A v \in Inside(w) \ others : NameOf(v) # NameOf(w)
  BY DEF Namesakes
<1>4. /\ globalVars' \in [Names -> Entries \cup {Nil}]
      /\ Survives(w, Fresh, globalVars'[NameOf(w)])
      /\ \A v \in Inside(w) \ others : Survives(w, globalVars[NameOf(v)], globalVars'[NameOf(v)])
  <2>1. CASE StartAccount(w)
    BY <1>2, <1>3, <2>1, FreshEntry DEF StartAccount, Survives, VarsOK
  <2>2. CASE LoseEntry(w)
    <3>1. PICK lost \in SUBSET Names :
              globalVars' = [n \in Names |-> IF n \in lost THEN Nil
                              ELSE IF n = NameOf(w) THEN Fresh ELSE globalVars[n]]
      BY <2>2 DEF LoseEntry
    <3>2. \A n \in Names : globalVars'[n] = IF n \in lost THEN Nil
                                           ELSE IF n = NameOf(w) THEN Fresh ELSE globalVars[n]
      BY <3>1
    <3>3. Touching(w) # {}
      BY <2>2 DEF LoseEntry
    <3>4. globalVars' \in [Names -> Entries \cup {Nil}]
      BY <3>1, <3>2, FreshEntry DEF VarsOK
    <3> QED
      BY <1>2, <1>3, <3>2, <3>3, <3>4 DEF Survives
  <2> QED
    BY <2>1, <2>2
<1> HIDE DEF shared, others
<1>5. Begins(w, others, shared)
  BY <1>1, <1>3, <1>4 DEF Begins
<1> QED
  BY <1>5

(* What takes the process down.                                                  *)
Dies(w) ==
    /\ Running /\ Crash
    /\ \/ worker[w].pc \in {"init", "save"} /\ Touching(w) # {}
       \/ worker[w].pc = "save" /\ globalVars[NameOf(w)] = Nil
       \/ worker[w].pc = "report" /\ resultClosed

Reports(w) ==
    /\ Running /\ worker[w].pc = "report" /\ ~resultClosed
    /\ resultChan' = Append(resultChan, [account |-> worker[w].account, success |-> worker[w].success])
    /\ worker' = [worker EXCEPT ![w] = Free]
    /\ UNCHANGED <<run, pool, globalVars, resultClosed, result>>

Launch(steps, concurrency, accounts) ==
    /\ steps \in StepLists \cup {<<>>} /\ concurrency \in Nat /\ accounts \in Lists \cup {<<>>}
    /\ Run(Scenario(steps, concurrency), accounts)

PoolStep(w) ==
    \/ Receive(w) \/ Exit(w) \/ Reports(w) \/ Dies(w)
    \/ \E new : Moved(w, new)
    \/ \E others, shared : Begins(w, others, shared)

LEMMA DocumentLaunches ==
    ASSUME NEW doc \in Docs, RunLoadTest(doc)
    PROVE  \E steps, concurrency, accounts : Launch(steps, concurrency, accounts)
<1>1. \A d \in Written : d.steps \in StepLists /\ d.accounts \in Lists \cup {<<>>}
  BY DEF Written, Created, Any
<1>2. doc.steps \in StepLists \cup {<<>>} /\ doc.accounts \in Lists \cup {<<>>}
  BY <1>1 DEF Docs, Updated, Any
<1>3. Launch(doc.steps, 0, doc.accounts)
  BY <1>2 DEF RunLoadTest, FromDomain, Launch
<1> QED
  BY <1>3

LEMMA FileLaunches ==
    ASSUME NEW steps \in StepLists, NEW c \in 0..MaxWorkers, NEW accounts \in Any(Lists),
           RunFile(steps, c, accounts) \/ RunSaved(steps, c, accounts)
    PROVE  \E st, concurrency, acc : Launch(st, concurrency, acc)
<1>1. c \in Nat /\ accounts \in Lists \cup {<<>>}
  BY DEF Any
<1>2. FromDomain(ToDomain(LoadScenarioFromFile(steps, c))) = Scenario(steps, 0)
  BY DEF FromDomain, ToDomain, LoadScenarioFromFile, Created, Scenario
<1>3. Launch(steps, c, accounts) \/ Launch(steps, 0, accounts)
  BY <1>1, <1>2 DEF RunFile, RunSaved, LoadScenarioFromFile, Launch
<1> QED
  BY <1>3

LEMMA WorkerKinds ==
    ASSUME RunOK, FeederOK, WorkersOK, VarsOK, NEW w \in Workers, WorkerStep(w) \/ Deadline(w)
    PROVE  PoolStep(w)
<1>1. CASE StartAccount(w) \/ LoseEntry(w)
  BY <1>1, AccountBegins DEF PoolStep
<1>2. CASE Fatal(w)
  <2>1. \A u \in Touching(w) : Touching(w) # {}
    OBVIOUS
  <2> QED
    BY <1>2, <2>1 DEF Fatal, Dies, At, PoolStep
<1>3. CASE SaveLost(w, TRUE)
  BY <1>3 DEF SaveLost, Dies, At, PoolStep
<1>4. CASE Report(w)
  BY <1>4 DEF Report, Dies, Reports, At, PoolStep
<1>5. CASE InnerStep(w)
  BY <1>5, InnerMoves DEF PoolStep
<1>6. CASE Receive(w) \/ Exit(w)
  BY <1>6 DEF PoolStep
<1> QED
  BY <1>1, <1>2, <1>3, <1>4, <1>5, <1>6 DEF WorkerStep, InnerStep

LEMMA StepKinds ==
    ASSUME RunOK, FeederOK, WorkersOK, VarsOK, Next
    PROVE  \/ \E steps, concurrency, accounts : Launch(steps, concurrency, accounts)
           \/ RunStep
           \/ \E w \in Workers : PoolStep(w)
BY DocumentLaunches, FileLaunches, WorkerKinds DEF Next

LEMMA LocalsGrow ==
    ASSUME RunOK, FeederOK, run' = run, taken' \in {taken, taken + 1}, NEW l, LocalOK(l)
    PROVE  LocalOK(l)'
<1>1. 0..taken \subseteq 0..taken'
  BY FeedFacts
<1> QED
  BY <1>1 DEF LocalOK, Locals

(* A step that changes one worker.                                                *)
LEMMA OneMoves ==
    ASSUME RunOK, FeederOK, WorkersOK, NEW w \in Workers, NEW new, LocalOK(new)',
           run' = run, taken' \in {taken, taken + 1}, worker' = [worker EXCEPT ![w] = new]
    PROVE  WorkersOK'
<1>1. \A v \in Workers : LocalOK(worker[v])'
  <2> SUFFICES ASSUME NEW v \in Workers PROVE LocalOK(worker[v])'
    OBVIOUS
  <2>1. PICK l : l = worker[v]
    OBVIOUS
  <2>2. LocalOK(l)'
    BY <2>1, LocalsGrow DEF WorkersOK
  <2>3. worker'[v] = IF v = w THEN new ELSE l
    BY <2>1 DEF WorkersOK
  <2> QED
    BY <2>2, <2>3 DEF LocalOK
<1>2. worker' = [v \in Workers |-> worker'[v]]
  BY DEF WorkersOK
<1> QED
  BY <1>1, <1>2 DEF WorkersOK, LocalOK

LEMMA LaunchTyped ==
    ASSUME NEW steps, NEW concurrency, NEW accounts, Launch(steps, concurrency, accounts)
    PROVE  Typed'
<1>1. /\ run' = [phase |-> "running", steps |-> steps, concurrency |-> concurrency, accounts |-> accounts]
      /\ feeder' = [pc |-> "feed", fed |-> 0] /\ taken' = 0
      /\ globalVars' = [n \in Names |-> Nil]
      /\ resultChan' = <<>> /\ resultClosed' = FALSE /\ result' = NoResult
      /\ \E set : worker' = [w \in Workers |-> IF w \in set THEN Free ELSE Gone]
  <2>1. worker' = [w \in Workers |->
             IF w \in {v \in Workers : v <= PoolSize(Scenario(steps, concurrency), Len(accounts))}
             THEN Free ELSE Gone]
    BY DEF Launch, Run
  <2> QED
    BY <2>1 DEF Launch, Run, Scenario
<1>2. RunOK'
  BY <1>1 DEF Launch, RunOK
<1>3. N' \in Nat /\ Len(run.steps)' \in Nat
  <2>1. accounts \in Seq(Names) /\ steps \in Seq(Steps)
    BY ListAssumption, StepAssumption, EmptySeq DEF Launch
  <2> QED
    BY <1>1, <2>1, LenProperties DEF N
<1>4. FeederOK'
  BY <1>1, <1>3 DEF FeederOK
<1>5. LocalOK(Free)' /\ LocalOK(Gone)'
  <2>1. 0 \in 0..taken' /\ 0 \in 0..Len(run.steps)' + 1 /\ 0 \in 0..MaxTries
    BY <1>1, <1>3, BoundsAssumption
  <2> QED
    BY <2>1 DEF LocalOK, Locals, Free, Gone, PCs, Inner
<1>6. WorkersOK'
  <2>1. PICK set : worker' = [w \in Workers |-> IF w \in set THEN Free ELSE Gone]
    BY <1>1
  <2>2. \A w \in Workers : worker'[w] \in {Free, Gone}
    BY <2>1
  <2>3. \A w \in Workers : LocalOK(worker[w])'
    BY <1>5, <2>2 DEF LocalOK
  <2> QED
    BY <2>1, <2>3 DEF WorkersOK, LocalOK
<1>7. VarsOK' /\ ResultsOK'
  BY <1>1, EmptySeq DEF VarsOK, ResultsOK, NoResult
<1> QED
  BY <1>2, <1>4, <1>6, <1>7 DEF Typed

LEMMA RunStepTyped ==
    ASSUME Typed, RunStep
    PROVE  Typed'
<1> USE DEF Typed
<1>1. ASSUME UNCHANGED <<worker, globalVars, taken>>, RunOK', FeederOK', ResultsOK',
             run'.steps = run.steps
      PROVE  Typed'
  BY <1>1 DEF WorkersOK, LocalOK, Locals, VarsOK
<1>2. CASE Send
  <2>1. feeder.fed + 1 \in 0..N /\ 0..feeder.fed \subseteq 0..feeder.fed + 1
    BY <1>2, FeedFacts DEF Send
  <2>2. FeederOK' /\ run' = run
    BY <1>2, <2>1 DEF Send, FeederOK, N
  <2> QED
    BY <1>1, <1>2, <2>2 DEF Send, RunOK, ResultsOK, results, Results, N
<1>3. CASE Close \/ CloseResults
  BY <1>1, <1>3 DEF Close, CloseResults, RunOK, FeederOK, ResultsOK, results, Results, pool, N
<1>4. CASE Collect
  <2>1. /\ Head(resultChan) \in Results /\ Tail(resultChan) \in Seq(Results)
        /\ result.accounts \in Seq(Results) /\ result.success + 1 \in Nat /\ result.failure + 1 \in Nat
    BY <1>4, HeadTailProperties DEF Collect, ResultsOK
  <2>2. Append(result.accounts, Head(resultChan)) \in Seq(Results)
    BY <2>1, AppendProperties
  <2>3. ResultsOK'
    <3>1. Results' = Results
      BY <1>4 DEF Collect, Results, N
    <3>2. result' \in [accounts : Seq(Results), success : Nat, failure : Nat]
      BY <1>4, <2>1, <2>2 DEF Collect, ResultsOK
    <3> QED
      BY <1>4, <2>1, <3>1, <3>2 DEF Collect, ResultsOK
  <2> QED
    BY <1>1, <1>4, <2>3 DEF Collect, RunOK, FeederOK, pool, N
<1>5. CASE Return
  <2>1. run' = [run EXCEPT !.phase = "done"]
    BY <1>5 DEF Return
  <2>2. RunOK' /\ run'.accounts = run.accounts /\ run'.steps = run.steps
    BY <2>1 DEF RunOK
  <2> QED
    BY <1>1, <1>5, <2>2 DEF Return, FeederOK, ResultsOK, results, Results, pool, N
<1> QED
  BY <1>2, <1>3, <1>4, <1>5 DEF RunStep

LEMMA PoolStepTyped ==
    ASSUME Typed, NEW w \in Workers, PoolStep(w)
    PROVE  Typed'
<1> USE DEF Typed
<1>1. ASSUME UNCHANGED <<run, pool, results>>, WorkersOK', VarsOK'
      PROVE  Typed'
  BY <1>1 DEF RunOK, FeederOK, ResultsOK, Results, pool, results, N
<1>2. CASE Receive(w)
  <2>1. /\ taken' = taken + 1 /\ taken < feeder.fed
        /\ worker' = [worker EXCEPT ![w] = [Free EXCEPT !.pc = "init", !.account = taken + 1]]
        /\ UNCHANGED <<run, feeder, globalVars, results>>
    BY <1>2 DEF Receive
  <2>2. PICK free, new : free = Free /\ new = [free EXCEPT !.pc = "init", !.account = taken + 1]
    OBVIOUS
  <2>3. LocalOK(new)'
    <3>1. taken + 1 \in 0..taken' /\ taken + 1 > 0
      BY <2>1, FeedFacts
    <3>2. LocalOK(free)'
      BY <2>1, <2>2, FreeOK, LocalsGrow
    <3> QED
      BY <2>2, <3>1, <3>2 DEF LocalOK, Locals, PCs, Inner
  <2>4. WorkersOK'
    BY <2>1, <2>2, <2>3, OneMoves
  <2>5. FeederOK'
    BY <2>1, FeedFacts DEF FeederOK, N
  <2> QED
    BY <2>1, <2>4, <2>5 DEF RunOK, VarsOK, ResultsOK, results, Results, N
<1>3. CASE Exit(w)
  <2>1. LocalOK(Gone)'
    BY <1>3, FreeOK DEF Exit, Move, pool, LocalOK, Locals
  <2> QED
    BY <1>1, <1>3, <2>1, OneMoves DEF Exit, Move, pool, VarsOK
<1>4. CASE Reports(w)
  <2>1. LocalOK(Free)'
    BY <1>4, FreeOK DEF Reports, pool, LocalOK, Locals
  <2>2. WorkersOK'
    BY <1>4, <2>1, OneMoves DEF Reports, pool
  <2>3. [account |-> worker[w].account, success |-> worker[w].success] \in Results
    <3>1. worker[w].account \in 1..N
      BY <1>4, BusyFacts DEF Reports, Busy
    <3> QED
      BY <3>1 DEF WorkersOK, Locals, Results
  <2>4. ResultsOK'
    <3>1. Results' = Results
      BY <1>4 DEF Reports, Results, N
    <3>2. resultChan' \in Seq(Results)
      BY <1>4, <2>3, AppendProperties DEF Reports, ResultsOK
    <3> QED
      BY <1>4, <3>1, <3>2 DEF Reports, ResultsOK
  <2> QED
    BY <1>4, <2>2, <2>4 DEF Reports, pool, RunOK, FeederOK, VarsOK, N
<1>5. CASE Dies(w)
  <2>1. run' = [run EXCEPT !.phase = "crashed"] /\ UNCHANGED <<pool, worker, globalVars, results>>
    BY <1>5 DEF Dies, Crash
  <2>2. RunOK' /\ run'.accounts = run.accounts /\ run'.steps = run.steps
    BY <2>1 DEF RunOK
  <2> QED
    BY <2>1, <2>2 DEF FeederOK, WorkersOK, LocalOK, Locals, VarsOK, ResultsOK, Results, pool, results, N
<1>6. ASSUME NEW new, Moved(w, new)
      PROVE  Typed'
  <2>1. LocalOK(new)'
    BY <1>6 DEF Moved, pool, LocalOK, Locals
  <2>2. WorkersOK'
    BY <1>6, <2>1, OneMoves DEF Moved, pool
  <2>3. VarsOK'
    BY <1>6 DEF Moved, VarsOK
  <2> QED
    BY <1>1, <1>6, <2>2, <2>3 DEF Moved
<1>7. ASSUME NEW others, NEW shared, Begins(w, others, shared)
      PROVE  Typed'
  <2>1. \A v \in Workers : LocalOK(worker'[v])
    <3>1. 1 \in 0..Len(run.steps) + 1
      BY RunFacts
    <3>2. worker'[w] = [worker[w] EXCEPT !.pc = "condition", !.step = 1, !.own = Fresh, !.shared = shared]
          /\ shared \in BOOLEAN
      BY <1>7 DEF Begins
    <3>3. LocalOK(worker'[w])
      <4>1. LocalOK(worker[w]) /\ worker[w].pc = "init"
        BY <1>7 DEF Begins, WorkersOK
      <4>2. PICK old, new, fresh : old = worker[w] /\ new = worker'[w] /\ fresh = Fresh
        OBVIOUS
      <4>3. new = [old EXCEPT !.pc = "condition", !.step = 1, !.own = fresh, !.shared = shared]
        BY <3>2, <4>2
      <4>4. LocalOK(old) /\ old.pc = "init" /\ fresh \in Entries /\ fresh # Nil
        BY <4>1, <4>2, FreshEntry
      <4>5. old \in Locals /\ old.account > 0 /\ "condition" \in PCs /\ shared \in BOOLEAN
        BY <3>2, <4>4 DEF LocalOK, PCs, Inner
      <4>6. /\ new \in Locals /\ new.pc = "condition" /\ new.account = old.account /\ new.step = 1
            /\ new.own = fresh
        BY <3>1, <4>3, <4>4, <4>5 DEF Locals
      <4>7. LocalOK(new)
        BY <4>4, <4>5, <4>6 DEF LocalOK
      <4> QED
        BY <4>2, <4>7
    <3>4. \A v \in Workers \ {w} : worker'[v] \in {worker[v], [worker[v] EXCEPT !.shared = TRUE]}
      BY <1>7 DEF Begins
    <3>5. \A l : LocalOK(l) => LocalOK([l EXCEPT !.shared = TRUE])
      BY DEF LocalOK, Locals
    <3> QED
      BY <3>3, <3>4, <3>5 DEF WorkersOK
  <2>2. WorkersOK'
    BY <1>7, <2>1 DEF Begins, WorkersOK, LocalOK, Locals, pool
  <2>3. VarsOK'
    BY <1>7 DEF Begins, VarsOK
  <2> QED
    BY <1>1, <1>7, <2>2, <2>3 DEF Begins
<1> QED
  BY <1>2, <1>3, <1>4, <1>5, <1>6, <1>7 DEF PoolStep

LEMMA TypedInit == Init => Typed
<1> SUFFICES ASSUME Init PROVE Typed
  OBVIOUS
<1>1. RunOK
  BY DEF Init, RunOK
<1>2. N = 0 /\ Len(run.steps) = 0
  BY DEF Init, N
<1>3. FeederOK
  BY <1>2 DEF Init, FeederOK
<1>4. WorkersOK
  BY <1>1, <1>3, FreeOK DEF Init, WorkersOK, LocalOK
<1>5. VarsOK /\ ResultsOK
  BY EmptySeq DEF Init, VarsOK, ResultsOK, NoResult
<1> QED
  BY <1>1, <1>3, <1>4, <1>5 DEF Typed

LEMMA TypedStep ==
    ASSUME Typed, [Next]_vars
    PROVE  Typed'
<1>1. CASE UNCHANGED vars
  BY <1>1 DEF vars, pool, results, Typed, RunOK, FeederOK, WorkersOK, LocalOK, Locals, VarsOK, ResultsOK,
              Results, N
<1> QED
  BY <1>1, StepKinds, LaunchTyped, RunStepTyped, PoolStepTyped DEF Typed

(* The run, its channels, its workers and their variables have their types: attempts stay    *)
(* within the count of their step, and every account and step is one of the run's.          *)
THEOREM TypeCorrect == Spec => []TypeOK
<1> QED
  BY TypedInit, TypedStep, TypedTypeOK, PTL DEF Spec

-------------------------------------------------------------------------------
(***************************************************************************)
(* OwnVariables.  Of two workers that are inside accounts of one name, both     *)
(* know that they share it; and an entry is lost only beside another worker.      *)
(***************************************************************************)

AtStep(w)  == worker[w].pc \in Inner
Exited(w)  == worker[w].pc = "exit"
Several    == run.concurrency > 1 /\ N > 1
Mine(w)    == AtStep(w) /\ ~worker[w].shared
                  => \/ globalVars[NameOf(w)] = worker[w].own
                     \/ globalVars[NameOf(w)] = Nil /\ Several
Known(v, w) == AtStep(v) /\ AtStep(w) /\ NameOf(v) = NameOf(w) => worker[v].shared /\ worker[w].shared
OwnInv     == \A w \in Workers : Mine(w) /\ \A v \in Workers \ {w} : Known(v, w)

(* With one worker, or one account, nobody else is there (see CrashNeedsConcurrency).    *)
Alone == run.concurrency <= 1 \/ N <= 1 =>
             /\ run.phase # "crashed"
             /\ \A w \in Workers \ {1} : Exited(w)
             /\ ~worker[1].shared

(* A step after which those at a step are as they were.                              *)
LEMMA OwnSame ==
    ASSUME OwnInv, run'.accounts = run.accounts, run'.concurrency = run.concurrency,
           globalVars' = globalVars,
           \A v \in Workers : AtStep(v)' => AtStep(v) /\ worker'[v].account = worker[v].account
                                /\ worker'[v].shared = worker[v].shared
                                /\ worker'[v].own = worker[v].own
    PROVE  OwnInv'
<1>1. \A v \in Workers : AtStep(v)' => NameOf(v)' = NameOf(v)
  BY DEF NameOf
<1>2. Several' = Several
  BY DEF Several, N
<1> QED
  BY <1>1, <1>2 DEF OwnInv, Mine, Known

LEMMA OthersSame ==
    ASSUME OwnInv, WorkersOK, NEW w \in Workers, NEW new, new.pc \notin Inner,
           worker' = [worker EXCEPT ![w] = new], UNCHANGED <<run, globalVars>>
    PROVE  OwnInv'
<1>1. \A v \in Workers : AtStep(v)' => AtStep(v) /\ worker'[v] = worker[v]
  BY DEF AtStep, WorkersOK
<1> QED
  BY <1>1, OwnSame

LEMMA OwnMoved ==
    ASSUME Typed, OwnInv, NEW w \in Workers, NEW new, Moved(w, new)
    PROVE  OwnInv'
<1> USE DEF Typed
<1>1. /\ AtStep(w) /\ NameOf(w) \in Names
      /\ \A v \in Workers : AtStep(v) => NameOf(v) \in Names
  BY BusyFacts DEF Moved, AtStep, Busy, Inner
<1>2. /\ worker'[w] = new /\ \A v \in Workers \ {w} : worker'[v] = worker[v]
      /\ new.account = worker[w].account /\ new.shared = worker[w].shared
      /\ run' = run
  BY DEF Moved, WorkersOK
<1>3. \A v \in Workers : /\ AtStep(v)' => AtStep(v)
                          /\ NameOf(v)' = NameOf(v) /\ worker'[v].shared = worker[v].shared
  BY <1>1, <1>2 DEF AtStep, NameOf
<1>4. CASE new.own = worker[w].own /\ UNCHANGED globalVars
  <2>1. \A v \in Workers : worker'[v].own = worker[v].own /\ worker'[v].account = worker[v].account
    BY <1>2, <1>4
  <2> QED
    BY <1>2, <1>3, <1>4, <2>1, OwnSame
<1>5. ASSUME NEW entry, globalVars[NameOf(w)] # Nil,
             globalVars[NameOf(w)] = worker[w].own => new.own = entry,
             globalVars' = [globalVars EXCEPT ![NameOf(w)] = entry]
      PROVE  OwnInv'
  <2>1. Mine(w)'
    BY <1>1, <1>2, <1>3, <1>5 DEF Mine, OwnInv, VarsOK
  <2>2. ASSUME NEW v \in Workers \ {w}
        PROVE  Mine(v)'
    <3>1. CASE AtStep(v) /\ NameOf(v) = NameOf(w)
      BY <1>1, <1>3, <3>1 DEF Mine, OwnInv, Known
    <3>2. CASE AtStep(v) /\ NameOf(v) # NameOf(w)
      <4>1. globalVars'[NameOf(v)] = globalVars[NameOf(v)]
        BY <1>1, <1>5, <3>2 DEF VarsOK
      <4> QED
        BY <1>2, <1>3, <3>2, <4>1 DEF Mine, OwnInv, Several, N
    <3>3. CASE ~AtStep(v)
      BY <1>3, <3>3 DEF Mine
    <3> QED
      BY <3>1, <3>2, <3>3
  <2>3. \A u \in Workers : \A v \in Workers \ {u} : Known(v, u)'
    BY <1>3 DEF Known, OwnInv
  <2> QED
    BY <2>1, <2>2, <2>3 DEF OwnInv
<1> QED
  BY <1>4, <1>5 DEF Moved

LEMMA OwnBegins ==
    ASSUME Typed, OwnInv, NEW w \in Workers, Touching(w) # {} => Several,
           NEW others, NEW shared, Begins(w, others, shared)
    PROVE  OwnInv'
<1> USE DEF Typed
<1>1. PICK old, new : /\ old = worker[w] /\ new = worker'[w]
                      /\ new = [old EXCEPT !.pc = "condition", !.step = 1, !.own = Fresh, !.shared = shared]
  BY DEF Begins
<1>2. old \in Locals /\ shared \in BOOLEAN /\ run' = run
  BY <1>1 DEF WorkersOK, Begins
<1>3. new.account = old.account /\ new.own = Fresh /\ new.shared = shared
  BY <1>1, <1>2 DEF Locals
<1>4. NameOf(w)' = NameOf(w)
  BY <1>1, <1>2, <1>3 DEF NameOf
<1>5. ASSUME NEW v \in Workers \ {w}
      PROVE  /\ AtStep(v)' <=> v \in Inside(w)
             /\ NameOf(v)' = NameOf(v) /\ worker'[v].own = worker[v].own
             /\ worker'[v].shared = IF v \in others THEN TRUE ELSE worker[v].shared
  <2>1. PICK l, k : l = worker[v] /\ k = worker'[v]
    OBVIOUS
  <2>2. l \in Locals /\ k = IF v \in others THEN [l EXCEPT !.shared = TRUE] ELSE l
    BY <2>1 DEF WorkersOK, Begins
  <2>3. k.pc = l.pc /\ k.account = l.account /\ k.own = l.own
        /\ k.shared = IF v \in others THEN TRUE ELSE l.shared
    BY <2>2 DEF Locals
  <2> QED
    BY <1>2, <2>1, <2>3 DEF AtStep, NameOf, Inside
<1>a. Several' = Several
  BY <1>2 DEF Several, N
<1>6. Mine(w)'
  BY <1>1, <1>3, <1>4, <1>a DEF Mine, Begins, Survives
<1>7. ASSUME NEW v \in Workers \ {w}
      PROVE  Mine(v)'
  <2>1. CASE v \in Inside(w) \ others
    <3>1. Survives(w, globalVars[NameOf(v)], globalVars'[NameOf(v)])
      BY <2>1 DEF Begins
    <3>2. AtStep(v)
      BY <2>1 DEF Inside, AtStep
    <3> QED
      BY <1>5, <1>a, <2>1, <3>1, <3>2 DEF Mine, OwnInv, Survives
  <2>2. CASE ~(v \in Inside(w) \ others)
    BY <1>5, <2>2 DEF Mine, Begins
  <2> QED
    BY <2>1, <2>2
<1>8. ASSUME NEW v \in Workers \ {w}
      PROVE  Known(v, w)' /\ Known(w, v)'
  <2> SUFFICES ASSUME AtStep(v)', NameOf(v)' = NameOf(w)'
               PROVE  worker'[v].shared /\ worker'[w].shared
    BY DEF Known
  <2>1. v \in Inside(w) /\ NameOf(v) = NameOf(w)
    BY <1>4, <1>5
  <2>2. shared /\ v \in others
    BY <2>1 DEF Begins
  <2> QED
    BY <1>1, <1>3, <1>5, <2>2
<1>9. ASSUME NEW u \in Workers \ {w}, NEW v \in Workers \ {u, w}
      PROVE  Known(v, u)'
  BY <1>5 DEF Known, OwnInv, Inside, AtStep
<1> QED
  BY <1>6, <1>7, <1>8, <1>9 DEF OwnInv

(* Another worker that touches the variables is one of several.                          *)
LEMMA SeveralTouch ==
    ASSUME Typed, Alone, NEW w \in Workers, worker[w].pc = "init", Touching(w) # {}
    PROVE  Several
<1>1. PICK u \in Workers : u # w /\ worker[u].pc # "exit"
  BY DEF Touching
<1>2. ~(run.concurrency <= 1 \/ N <= 1)
  BY <1>1 DEF Alone, Exited
<1>3. run.concurrency \in Nat /\ N \in Nat
  BY RunFacts DEF Typed, RunOK
<1> QED
  BY <1>2, <1>3 DEF Several

LEMMA OwnStep ==
    ASSUME Typed, OwnInv, Alone, [Next]_vars
    PROVE  OwnInv'
<1> USE DEF Typed
<1>1. ASSUME NEW steps, NEW concurrency, NEW accounts, Launch(steps, concurrency, accounts)
      PROVE  OwnInv'
  <2>1. \A w \in Workers : worker'[w].pc \in {"receive", "exit"}
    BY <1>1 DEF Launch, Run, Free, Gone
  <2> QED
    BY <2>1 DEF OwnInv, Mine, Known, AtStep, Inner
<1>2. CASE RunStep
  <2>1. /\ run'.accounts = run.accounts /\ run'.concurrency = run.concurrency
        /\ UNCHANGED <<worker, globalVars>>
    BY <1>2 DEF RunStep, Send, Close, Collect, CloseResults, Return, RunOK
  <2> QED
    BY <2>1, OwnSame DEF AtStep
<1>3. ASSUME NEW w \in Workers, PoolStep(w)
      PROVE  OwnInv'
  <2>1. CASE Receive(w)
    <3>1. [Free EXCEPT !.pc = "init", !.account = taken + 1].pc \notin Inner
      BY DEF Free, Inner
    <3> QED
      BY <2>1, <3>1, OthersSame DEF Receive
  <2>2. CASE Exit(w) \/ Reports(w)
    <3>1. Free.pc \notin Inner /\ Gone.pc \notin Inner
      BY DEF Free, Gone, Inner
    <3> QED
      BY <2>2, <3>1, OthersSame DEF Exit, Move, Reports
  <2>3. CASE Dies(w)
    <3>1. /\ run'.accounts = run.accounts /\ run'.concurrency = run.concurrency
          /\ UNCHANGED <<worker, globalVars>>
      BY <2>3 DEF Dies, Crash, RunOK
    <3> QED
      BY <3>1, OwnSame DEF AtStep
  <2>4. ASSUME NEW others, NEW shared, Begins(w, others, shared)
        PROVE  OwnInv'
    <3>1. Touching(w) # {} => Several
      BY <2>4, SeveralTouch DEF Begins
    <3> QED
      BY <2>4, <3>1, OwnBegins
  <2> QED
    BY <1>3, <2>1, <2>2, <2>3, <2>4, OwnMoved DEF PoolStep
<1>4. CASE UNCHANGED vars
  BY <1>4, OwnSame DEF vars, AtStep
<1> QED
  BY <1>1, <1>2, <1>3, <1>4, StepKinds

LEMMA OwnInit == Init => OwnInv
<1>1. Gone.pc \notin Inner
  BY DEF Gone, Free, Inner
<1> QED
  BY <1>1 DEF Init, OwnInv, Mine, Known, AtStep

-------------------------------------------------------------------------------
(***************************************************************************)
(* The order in which a run ends: the first worker returns when all accounts    *)
(* are taken, the channel of results is closed when every worker has returned,  *)
(* and Run returns when it is drained.                                        *)
(***************************************************************************)

Ending ==
    /\ feeder.pc = "collect" => feeder.fed = N
    /\ resultClosed => feeder.pc = "collect" /\ \A w \in Workers : Exited(w)
    /\ Exited(1) /\ N > 0 => feeder.pc = "collect" /\ taken = N
    /\ run.phase = "done" => feeder.pc = "collect" /\ resultClosed /\ resultChan = <<>>

LEMMA PoolSizes ==
    ASSUME NEW steps, NEW c \in Nat, NEW n \in Nat
    PROVE  /\ n > 0 => PoolSize(Scenario(steps, c), n) >= 1
           /\ c <= 1 \/ n <= 1 => PoolSize(Scenario(steps, c), n) <= 1
           /\ PoolSize(Scenario(steps, c), n) \in Nat
BY DEF PoolSize, Scenario, Smaller

(* What a launch starts.                                                          *)
LEMMA Launched ==
    ASSUME NEW steps, NEW c, NEW accounts, Launch(steps, c, accounts)
    PROVE  /\ run'.phase = "running" /\ run'.concurrency = c /\ run'.accounts = accounts
           /\ c \in Nat /\ N' = Len(accounts) /\ N' \in Nat
           /\ feeder' = [pc |-> "feed", fed |-> 0] /\ taken' = 0
           /\ resultChan' = <<>> /\ resultClosed' = FALSE /\ result' = NoResult
           /\ \A w \in Workers :
                  worker'[w] = IF w <= PoolSize(Scenario(steps, c), N') THEN Free ELSE Gone
<1>1. accounts \in Seq(Names)
  BY ListAssumption, EmptySeq DEF Launch
<1>2. run'.accounts = accounts /\ N' = Len(accounts) /\ Len(accounts) \in Nat
  BY <1>1, LenProperties DEF Launch, Run, N
<1> QED
  BY <1>2 DEF Launch, Run, Scenario

(* What a step inside an account changes of the workers.                                  *)
Works(w) ==
    /\ Running /\ worker[w].pc \in Inner \cup {"init"}
    /\ worker'[w].pc \in Inner \cup {"report"}
    /\ \A v \in Workers : /\ v # w => worker'[v].pc = worker[v].pc
                          /\ worker'[v].account = worker[v].account
                          /\ worker'[v].shared => worker[v].shared \/ Inside(w) # {}
    /\ UNCHANGED <<run, pool, results>>

LEMMA WorkShape ==
    ASSUME Typed, NEW w \in Workers, (\E new : Moved(w, new)) \/ \E others, shared : Begins(w, others, shared)
    PROVE  Works(w)
<1> USE DEF Typed
<1>1. ASSUME NEW new, Moved(w, new)
      PROVE  Works(w)
  <2>1. worker'[w] = new /\ \A v \in Workers \ {w} : worker'[v] = worker[v]
    BY <1>1 DEF Moved, WorkersOK
  <2> QED
    BY <1>1, <2>1 DEF Moved, Works
<1>2. ASSUME NEW others, NEW shared, Begins(w, others, shared)
      PROVE  Works(w)
  <2>1. worker'[w].pc = "condition" /\ worker'[w].account = worker[w].account
        /\ (worker'[w].shared => Inside(w) # {})
    <3>1. PICK l, k : l = worker[w] /\ k = worker'[w]
      OBVIOUS
    <3>2. l \in Locals /\ shared \in BOOLEAN /\ (shared => Inside(w) # {})
          /\ k = [l EXCEPT !.pc = "condition", !.step = 1, !.own = Fresh, !.shared = shared]
      BY <1>2, <3>1 DEF Begins, WorkersOK
    <3>3. k.pc = "condition" /\ k.account = l.account /\ k.shared = shared
      BY <3>2 DEF Locals
    <3> QED
      BY <3>1, <3>2, <3>3
  <2>2. ASSUME NEW v \in Workers \ {w}
        PROVE  worker'[v].pc = worker[v].pc /\ worker'[v].account = worker[v].account
               /\ (worker'[v].shared => worker[v].shared \/ Inside(w) # {})
    <3>1. PICK l, k : l = worker[v] /\ k = worker'[v]
      OBVIOUS
    <3>2. k = l \/ (k = [l EXCEPT !.shared = TRUE] /\ Inside(w) # {})
      BY <1>2, <3>1 DEF Begins
    <3>3. l \in Locals
      BY <3>1 DEF WorkersOK
    <3>4. k.pc = l.pc /\ k.account = l.account /\ (k = l \/ Inside(w) # {})
      BY <3>2, <3>3 DEF Locals
    <3> QED
      BY <3>1, <3>4
  <2> QED
    BY <1>2, <2>1, <2>2 DEF Begins, Works, Inner
<1> QED
  BY <1>1, <1>2

LEMMA PoolKinds ==
    ASSUME Typed, NEW w \in Workers, PoolStep(w)
    PROVE  Receive(w) \/ Exit(w) \/ Reports(w) \/ Dies(w) \/ Works(w)
BY WorkShape DEF PoolStep

(* A worker that leaves is one that found the channel of accounts closed and empty.        *)
LEMMA Leaving ==
    ASSUME Typed, NEW w \in Workers, PoolStep(w), NEW v \in Workers
    PROVE  /\ Exited(v)' => Exited(v) \/ Exit(w)
           /\ Exited(v) => Exited(v)' /\ v # w
<1> USE DEF Typed, WorkersOK
<1>1. CASE Receive(w)
  <2>1. [Free EXCEPT !.pc = "init", !.account = taken + 1].pc = "init"
    BY DEF Free
  <2> QED
    BY <1>1, <2>1 DEF Receive, At, Exited
<1>2. CASE Exit(w)
  BY <1>2 DEF Exit, Move, At, Exited, Gone, Free
<1>3. CASE Reports(w)
  BY <1>3 DEF Reports, Exited, Free
<1>4. CASE Dies(w)
  BY <1>4 DEF Dies, Crash, Exited
<1>5. CASE Works(w)
  BY <1>5 DEF Works, Exited, Inner
<1> QED
  BY <1>1, <1>2, <1>3, <1>4, <1>5, PoolKinds

(* What steps of workers leave alone.                                               *)
LEMMA PoolFrame ==
    ASSUME Typed, NEW w \in Workers, PoolStep(w)
    PROVE  /\ Running /\ run'.accounts = run.accounts /\ run'.concurrency = run.concurrency
           /\ UNCHANGED <<feeder, result, resultClosed>>
           /\ run'.phase \in {"running", "crashed"}
           /\ taken' = taken \/ Receive(w)
           /\ run' = run \/ Dies(w)
BY PoolKinds DEF Receive, Exit, Move, Reports, Dies, Crash, Works, At, Running, pool, results, Typed, RunOK

LEMMA EndingStep ==
    ASSUME Typed, Ending, [Next]_vars
    PROVE  Ending'
<1> USE DEF Typed
<1>1. ASSUME NEW steps, NEW c, NEW accounts, Launch(steps, c, accounts)
      PROVE  Ending'
  <2>1. N' > 0 => ~Exited(1)'
    <3>1. PICK n \in Nat : n = N'
      BY <1>1, Launched
    <3>2. n > 0 => 1 <= PoolSize(Scenario(steps, c), n)
      BY <1>1, Launched, PoolSizes
    <3>3. worker'[1] = IF 1 <= PoolSize(Scenario(steps, c), n) THEN Free ELSE Gone
      BY <1>1, <3>1, Launched, OneWorker
    <3>4. Free.pc = "receive"
      BY DEF Free
    <3> QED
      BY <3>1, <3>2, <3>3, <3>4 DEF Exited
  <2>2. feeder'.pc = "feed" /\ run'.phase = "running" /\ resultClosed' = FALSE
    BY <1>1 DEF Launch, Run
  <2> QED
    BY <2>1, <2>2 DEF Ending
<1>2. CASE RunStep
  <2>1. run'.accounts = run.accounts /\ N' = N /\ worker' = worker /\ taken' = taken
    BY <1>2 DEF RunStep, Send, Close, Collect, CloseResults, Return, RunOK, pool, N
  <2>2. CASE Send
    BY <2>1, <2>2 DEF Send, Ending, Exited, results, FeederOK, Running
  <2>3. CASE Close
    BY <2>1, <2>3 DEF Close, Ending, Exited, results, FeederOK, Running
  <2>4. CASE Collect
    BY <2>1, <2>4 DEF Collect, Ending, Exited, pool, Running
  <2>5. CASE CloseResults
    BY <2>1, <2>5 DEF CloseResults, Wait, Ending, Exited, pool, Running
  <2>6. CASE Return
    BY <2>1, <2>6 DEF Return, Ending, Exited, pool, results
  <2> QED
    BY <1>2, <2>2, <2>3, <2>4, <2>5, <2>6 DEF RunStep
<1>3. ASSUME NEW w \in Workers, PoolStep(w)
      PROVE  Ending'
  <2>1. N' = N /\ UNCHANGED <<feeder, result, resultClosed>> /\ run'.phase # "done"
    BY <1>3, PoolFrame DEF N
  <2>2. resultClosed => FALSE
    BY <1>3, Leaving DEF Ending
  <2>3. ~(Exited(1) /\ N > 0) \/ (feeder.pc = "collect" /\ taken' = N)
    <3>1. Receive(w) /\ N > 0 => ~Exited(1)
      BY FeedFacts DEF Receive, Ending
    <3> QED
      BY <1>3, <3>1, PoolFrame DEF Ending
  <2>4. Exited(1)' => Exited(1) \/ (feeder.pc = "collect" /\ taken' = N)
    BY <1>3, Leaving, OneWorker DEF Exit, Move, pool, Ending
  <2> QED
    BY <2>1, <2>2, <2>3, <2>4 DEF Ending
<1>4. CASE UNCHANGED vars
  BY <1>4 DEF vars, pool, results, Ending, Exited, N
<1> QED
  BY <1>1, <1>2, <1>3, <1>4, StepKinds

LEMMA EndingInit == Init => Ending
<1>1. Init => N = 0
  BY DEF Init, N
<1> QED
  BY <1>1 DEF Init, Ending

-------------------------------------------------------------------------------
(***************************************************************************)
(* CrashNeedsConcurrency.  With one worker, nobody touches the variables beside *)
(* it, so that its entry is there when it saves.                             *)
(***************************************************************************)

LEMMA AloneInit == Init => Alone
BY OneWorker DEF Init, Alone, Exited, Gone, Free

(* The only worker does not die.                                                    *)
LEMMA AloneLives ==
    ASSUME Typed, OwnInv, ~Several, Ending, \A w \in Workers \ {1} : Exited(w), ~worker[1].shared
    PROVE  ~Dies(1)
<1> USE DEF Typed
<1>1. Touching(1) = {}
  BY DEF Touching, Exited
<1>2. worker[1].pc = "save" => globalVars[NameOf(1)] # Nil
  BY OneWorker, NilAssumption DEF OwnInv, Mine, AtStep, Inner, WorkersOK, LocalOK
<1>3. worker[1].pc = "report" => ~resultClosed
  BY OneWorker DEF Ending, Exited
<1> QED
  BY <1>1, <1>2, <1>3 DEF Dies

LEMMA AloneStep ==
    ASSUME Typed, OwnInv, Ending, Alone, [Next]_vars
    PROVE  Alone'
<1> USE DEF Typed
<1>1. ASSUME NEW steps, NEW c, NEW accounts, Launch(steps, c, accounts)
      PROVE  Alone'
  <2> SUFFICES ASSUME run'.concurrency <= 1 \/ N' <= 1
               PROVE  /\ run'.phase # "crashed" /\ ~worker'[1].shared
                      /\ \A w \in Workers \ {1} : Exited(w)'
    BY DEF Alone
  <2>1. PICK n \in Nat : n = N' /\ (c <= 1 \/ n <= 1) /\ c \in Nat
    BY <1>1, Launched
  <2>2. PoolSize(Scenario(steps, c), n) <= 1 /\ PoolSize(Scenario(steps, c), n) \in Nat
    BY <2>1, PoolSizes
  <2>3. \A w \in Workers :
            worker'[w] = IF w <= PoolSize(Scenario(steps, c), n) THEN Free ELSE Gone
    BY <1>1, <2>1, Launched
  <2>4. \A w \in Workers \ {1} : ~(w <= PoolSize(Scenario(steps, c), n))
    BY <2>2 DEF Workers
  <2>5. Gone.pc = "exit" /\ ~Free.shared /\ ~Gone.shared
    BY DEF Free, Gone
  <2> QED
    BY <1>1, <2>3, <2>4, <2>5, OneWorker DEF Exited, Launch, Run
<1>2. CASE RunStep
  <2>1. /\ run'.concurrency = run.concurrency /\ run'.accounts = run.accounts
        /\ worker' = worker /\ run'.phase # "crashed"
    BY <1>2 DEF RunStep, Send, Close, Collect, CloseResults, Return, Running, RunOK
  <2> QED
    BY <2>1 DEF Alone, Exited, N
<1>3. ASSUME NEW w \in Workers, PoolStep(w)
      PROVE  Alone'
  <2>1. run'.concurrency = run.concurrency /\ N' = N /\ (run' = run \/ Dies(w))
    BY <1>3, PoolFrame DEF N
  <2> SUFFICES ASSUME \A v \in Workers \ {1} : Exited(v), ~worker[1].shared, run.phase # "crashed",
                      ~Several
               PROVE  /\ run'.phase # "crashed" /\ ~worker'[1].shared
                      /\ \A v \in Workers \ {1} : Exited(v)'
    <3>1. run.concurrency <= 1 \/ N <= 1 => ~Several
      BY RunFacts DEF Several, RunOK
    <3> QED
      BY <2>1, <3>1 DEF Alone
  <2>2. w = 1 /\ \A v \in Workers \ {1} : Exited(v)'
    BY <1>3, Leaving
  <2>3. ~Dies(w)
    BY <2>2, AloneLives
  <2>4. ~worker'[1].shared
    <3>1. CASE Receive(1)
      <4>1. ~[Free EXCEPT !.pc = "init", !.account = taken + 1].shared
        BY DEF Free
      <4> QED
        BY <3>1, <4>1, OneWorker DEF Receive, WorkersOK
    <3>2. CASE Exit(1) \/ Reports(1)
      <4>1. ~Free.shared /\ ~Gone.shared
        BY DEF Free, Gone
      <4> QED
        BY <3>2, <4>1, OneWorker DEF Exit, Move, Reports, WorkersOK
    <3>3. CASE Works(1)
      <4>1. Inside(1) = {}
        BY DEF Inside, Inner, Exited
      <4> QED
        BY <3>3, <4>1, OneWorker DEF Works
    <3> QED
      BY <1>3, <2>2, <2>3, <3>1, <3>2, <3>3, PoolKinds
  <2> QED
    BY <2>1, <2>2, <2>3, <2>4
<1>4. CASE UNCHANGED vars
  BY <1>4 DEF vars, Alone, Exited, N
<1> QED
  BY <1>1, <1>2, <1>3, <1>4, StepKinds

(* What an account reads under a name that no other account in work has is what its own      *)
(* answers held, for any number of workers, or nothing, where a race of several took it.     *)
THEOREM VariablesAreOwn == Spec => []OwnVariables
<1>1. OwnInv => OwnVariables
  BY DEF OwnInv, Mine, Several, AtStep, OwnVariables
<1> QED
  BY <1>1, TypedInit, TypedStep, OwnInit, OwnStep, EndingInit, EndingStep, AloneInit, AloneStep,
     PTL DEF Spec

(* Whatever the steps and the accounts, a run of one worker does not take the process down: *)
(* a run of a document never does, and of a file only one that names a concurrency.        *)
THEOREM OnlyConcurrencyCrashes == Spec => []CrashNeedsConcurrency
<1>1. Typed /\ Alone => CrashNeedsConcurrency
  BY RunFacts DEF Typed, RunOK, Alone, CrashNeedsConcurrency
<1> QED
  BY <1>1, TypedInit, TypedStep, OwnInit, OwnStep, EndingInit, EndingStep, AloneInit, AloneStep,
     PTL DEF Spec

-------------------------------------------------------------------------------
(***************************************************************************)
(* EveryAccountReported.  The accounts taken are those that the workers have and *)
(* those in the log: what was collected, followed by what is in the channel.     *)
(***************************************************************************)

(* Collecting moves a result within the log; reporting adds to its end.                   *)
LEMMA CollectKeepsLog ==
    ASSUME NEW S, NEW s \in Seq(S), NEW c \in Seq(S), c # <<>>
    PROVE  Append(s, Head(c)) \o Tail(c) = s \o c
<1> DEFINE l == Append(s, Head(c)) \o Tail(c)
           r == s \o c
<1>1. /\ Head(c) \in S /\ Tail(c) \in Seq(S) /\ Len(Tail(c)) = Len(c) - 1
      /\ Head(c) = c[1] /\ \A i \in 1..Len(Tail(c)) : Tail(c)[i] = c[i + 1]
  BY HeadTailProperties
<1>2. /\ Append(s, Head(c)) \in Seq(S) /\ Len(Append(s, Head(c))) = Len(s) + 1
      /\ \A i \in 1..Len(s) : Append(s, Head(c))[i] = s[i]
      /\ Append(s, Head(c))[Len(s) + 1] = c[1]
  BY <1>1, AppendProperties
<1>3. Len(s) \in Nat /\ Len(c) \in Nat /\ Len(c) > 0
  BY LenProperties, EmptySeq
<1>4. l \in Seq(S) /\ r \in Seq(S) /\ Len(l) = Len(s) + Len(c) /\ Len(r) = Len(s) + Len(c)
  BY <1>1, <1>2, <1>3, ConcatProperties
<1>5. ASSUME NEW i \in 1..Len(s) + Len(c)
      PROVE  l[i] = r[i]
  <2>1. l[i] = IF i <= Len(s) + 1 THEN Append(s, Head(c))[i] ELSE Tail(c)[i - (Len(s) + 1)]
    BY <1>1, <1>2, <1>3, ConcatProperties
  <2>2. r[i] = IF i <= Len(s) THEN s[i] ELSE c[i - Len(s)]
    BY <1>3, ConcatProperties
  <2>3. CASE i <= Len(s)
    BY <1>2, <1>3, <2>1, <2>2, <2>3
  <2>4. CASE i = Len(s) + 1
    BY <1>2, <1>3, <2>1, <2>2, <2>4
  <2>5. CASE i > Len(s) + 1
    <3>1. i - (Len(s) + 1) \in 1..Len(Tail(c)) /\ i - (Len(s) + 1) + 1 = i - Len(s)
      BY <1>1, <1>3, <2>5
    <3> QED
      BY <1>1, <1>3, <2>1, <2>2, <2>5, <3>1
  <2> QED
    BY <1>3, <2>3, <2>4, <2>5
<1> HIDE DEF l, r
<1>6. l = r
  BY <1>4, <1>5, SeqEqual
<1> QED
  BY <1>6 DEF l, r

LEMMA ReportAddsToLog ==
    ASSUME NEW S, NEW s \in Seq(S), NEW c \in Seq(S), NEW e \in S
    PROVE  s \o Append(c, e) = Append(s \o c, e)
<1> DEFINE l == s \o Append(c, e)
           r == Append(s \o c, e)
<1>1. Len(s) \in Nat /\ Len(c) \in Nat
  BY LenProperties
<1>2. /\ Append(c, e) \in Seq(S) /\ Len(Append(c, e)) = Len(c) + 1
      /\ \A i \in 1..Len(c) : Append(c, e)[i] = c[i]
      /\ Append(c, e)[Len(c) + 1] = e
  BY AppendProperties
<1>3. s \o c \in Seq(S) /\ Len(s \o c) = Len(s) + Len(c)
  BY ConcatProperties
<1>4. l \in Seq(S) /\ r \in Seq(S) /\ Len(l) = Len(s) + Len(c) + 1 /\ Len(r) = Len(s) + Len(c) + 1
  BY <1>1, <1>2, <1>3, ConcatProperties, AppendProperties
<1>5. ASSUME NEW i \in 1..Len(s) + Len(c) + 1
      PROVE  l[i] = r[i]
  <2>1. l[i] = IF i <= Len(s) THEN s[i] ELSE Append(c, e)[i - Len(s)]
    <3>1. i \in 1..Len(s) + Len(Append(c, e))
      BY <1>1, <1>2
    <3> QED
      BY <1>2, <3>1, ConcatProperties
  <2>2. CASE i <= Len(s) + Len(c)
    <3>1. r[i] = (s \o c)[i] /\ (s \o c)[i] = IF i <= Len(s) THEN s[i] ELSE c[i - Len(s)]
      BY <1>1, <1>3, <2>2, AppendProperties, ConcatProperties
    <3>2. i > Len(s) => i - Len(s) \in 1..Len(c)
      BY <1>1, <2>2
    <3> QED
      BY <1>1, <1>2, <2>1, <3>1, <3>2
  <2>3. CASE i = Len(s) + Len(c) + 1
    <3>1. r[i] = e
      BY <1>3, <2>3, AppendProperties
    <3>2. ~(i <= Len(s)) /\ i - Len(s) = Len(c) + 1
      BY <1>1, <2>3
    <3> QED
      BY <1>2, <2>1, <3>1, <3>2
  <2> QED
    BY <1>1, <2>2, <2>3
<1> HIDE DEF l, r
<1>6. l = r
  BY <1>4, <1>5, SeqEqual
<1> QED
  BY <1>6 DEF l, r

(* The wins of a longer log.                                                       *)
LEMMA WinsAppend ==
    ASSUME NEW S, NEW log \in Seq(S), NEW r \in S, r.success \in BOOLEAN
    PROVE  /\ IsFiniteSet(Batches!Wins(log)) /\ Cardinality(Batches!Wins(log)) \in Nat
           /\ Cardinality(Batches!Wins(Append(log, r)))
                  = Cardinality(Batches!Wins(log)) + (IF r.success THEN 1 ELSE 0)
<1>1. Len(log) \in Nat
  BY LenProperties
<1>2. Batches!Wins(log) \subseteq 1..Len(log) /\ Len(log) + 1 \notin Batches!Wins(log)
  BY <1>1 DEF Batches!Wins
<1>3. IsFiniteSet(Batches!Wins(log)) /\ Cardinality(Batches!Wins(log)) \in Nat
  <2>1. IsFiniteSet(1..Len(log))
    BY <1>1, FS_Interval
  <2>2. IsFiniteSet(Batches!Wins(log))
    BY <1>2, <2>1, FS_Subset
  <2> QED
    BY <2>2, FS_CardinalityType
<1>4. /\ Len(Append(log, r)) = Len(log) + 1 /\ Append(log, r)[Len(log) + 1] = r
      /\ \A i \in 1..Len(log) : Append(log, r)[i] = log[i]
  BY AppendProperties
<1>5. CASE r.success
  <2>1. Batches!Wins(Append(log, r)) = Batches!Wins(log) \cup {Len(log) + 1}
    BY <1>1, <1>4, <1>5 DEF Batches!Wins
  <2> QED
    BY <1>2, <1>3, <1>5, <2>1, FS_AddElement
<1>6. CASE ~r.success
  <2>1. Batches!Wins(Append(log, r)) = Batches!Wins(log)
    BY <1>1, <1>4, <1>6 DEF Batches!Wins
  <2> QED
    BY <1>3, <1>6, <2>1
<1> QED
  BY <1>3, <1>5, <1>6

(* What a step does to the accounts that workers have and to the log.                      *)
Kept(set) == \A v \in set : worker'[v].account = worker[v].account

Takes(w) ==
    /\ Running /\ w \in Workers \ Busy /\ Busy' = Busy \cup {w} /\ Kept(Busy)
    /\ taken < N /\ taken' = taken + 1 /\ worker'[w].account = taken + 1
    /\ UNCHANGED <<run, result, resultChan>>

Delivers(w) ==
    /\ Running /\ w \in Busy /\ Busy' = Busy \ {w} /\ Kept(Busy \ {w})
    /\ \E r \in Results : /\ r.account = worker[w].account
                          /\ resultChan' = Append(resultChan, r)
    /\ UNCHANGED <<run, taken, result>>

Gathers ==
    /\ Running /\ resultChan # <<>> /\ resultChan' = Tail(resultChan)
    /\ result' = [accounts |-> Append(result.accounts, Head(resultChan)),
                  success  |-> IF Head(resultChan).success THEN result.success + 1 ELSE result.success,
                  failure  |-> IF Head(resultChan).success THEN result.failure ELSE result.failure + 1]
    /\ UNCHANGED <<run, taken, worker>>

Settles == run'.accounts = run.accounts /\ UNCHANGED <<taken, worker, result, resultChan>>

Quiet == Busy' = Busy /\ Kept(Busy) /\ UNCHANGED <<run, taken, result, resultChan>>

LEMMA PoolReports ==
    ASSUME Typed, NEW w \in Workers, PoolStep(w)
    PROVE  Takes(w) \/ Delivers(w) \/ Quiet \/ (Dies(w) /\ Settles)
<1> USE DEF Typed
<1>1. CASE Receive(w)
  <2>1. PICK new : new = [Free EXCEPT !.pc = "init", !.account = taken + 1]
    OBVIOUS
  <2>2. new.pc = "init" /\ new.account = taken + 1
    BY <2>1 DEF Free
  <2>3. worker'[w] = new /\ \A v \in Workers \ {w} : worker'[v] = worker[v]
    BY <1>1, <2>1 DEF Receive, WorkersOK
  <2>4. w \notin Busy /\ Busy' = Busy \cup {w} /\ Kept(Busy)
    BY <1>1, <2>2, <2>3 DEF Receive, At, Busy, Kept
  <2>5. taken < N
    BY <1>1, FeedFacts DEF Receive
  <2> QED
    BY <1>1, <2>2, <2>3, <2>4, <2>5 DEF Receive, At, Takes, results
<1>2. CASE Exit(w)
  <2>1. worker'[w].pc = "exit" /\ \A v \in Workers \ {w} : worker'[v] = worker[v]
    BY <1>2 DEF Exit, Move, Gone, Free, WorkersOK
  <2>2. Busy' = Busy /\ Kept(Busy)
    BY <1>2, <2>1 DEF Exit, At, Busy, Kept
  <2> QED
    BY <1>2, <2>2 DEF Exit, Move, Quiet, pool, results
<1>3. CASE Reports(w)
  <2>1. worker'[w].pc = "receive" /\ \A v \in Workers \ {w} : worker'[v] = worker[v]
    BY <1>3 DEF Reports, Free, WorkersOK
  <2>2. w \in Busy /\ Busy' = Busy \ {w} /\ Kept(Busy \ {w})
    BY <1>3, <2>1 DEF Reports, Busy, Kept
  <2>3. PICK r : r = [account |-> worker[w].account, success |-> worker[w].success]
    OBVIOUS
  <2>4. r \in Results /\ r.account = worker[w].account
    <3>1. worker[w].account \in 1..N
      BY <2>2, BusyFacts
    <3> QED
      BY <2>3, <3>1 DEF WorkersOK, Locals, Results
  <2> QED
    BY <1>3, <2>2, <2>3, <2>4 DEF Reports, Delivers, pool
<1>4. CASE Dies(w)
  BY <1>4 DEF Dies, Crash, Settles, pool, results, RunOK
<1>5. CASE Works(w)
  BY <1>5 DEF Works, Quiet, Busy, Kept, Inner, pool, results
<1> QED
  BY <1>1, <1>2, <1>3, <1>4, <1>5, PoolKinds

LEMMA ReportKinds ==
    ASSUME Typed, [Next]_vars
    PROVE  \/ \E steps, c, accounts : Launch(steps, c, accounts)
           \/ \E w \in Workers : Takes(w) \/ Delivers(w) \/ (Dies(w) /\ Settles)
           \/ Quiet \/ Gathers \/ (Return /\ Settles)
<1> USE DEF Typed
<1>1. CASE RunStep
  <2>1. CASE Send \/ Close \/ CloseResults
    BY <2>1 DEF Send, Close, CloseResults, Quiet, Busy, Kept, pool, results
  <2>2. CASE Collect
    BY <2>2 DEF Collect, Gathers, pool
  <2>3. CASE Return
    BY <2>3 DEF Return, Settles, pool, results, RunOK
  <2> QED
    BY <1>1, <2>1, <2>2, <2>3 DEF RunStep
<1>2. CASE UNCHANGED vars
  BY <1>2 DEF vars, pool, results, Quiet, Busy, Kept
<1> QED
  BY <1>1, <1>2, StepKinds, PoolReports

Distinct == \A v \in Busy : \A w \in Busy \ {v} : worker[v].account # worker[w].account
Counting == taken = Cardinality(Busy) + Len(Log)
Covered  == \A a \in 1..taken : \/ \E w \in Busy : worker[w].account = a
                                \/ \E i \in 1..Len(Log) : Log[i].account = a
Tallied  == /\ result.success = Cardinality(Batches!Wins(result.accounts))
            /\ result.failure = Len(result.accounts) - Cardinality(Batches!Wins(result.accounts))
Reporting == Distinct /\ Counting /\ Covered /\ Tallied

LEMMA LogFacts ==
    ASSUME Typed
    PROVE  /\ Log \in Seq(Results) /\ Len(Log) \in Nat
           /\ IsFiniteSet(Busy) /\ Cardinality(Busy) \in Nat
           /\ \A r \in Results : r.success \in BOOLEAN
<1>1. Busy \subseteq Workers
  BY DEF Busy
<1>2. IsFiniteSet(Busy) /\ Cardinality(Busy) \in Nat
  BY <1>1, OneWorker, FS_Subset, FS_CardinalityType
<1>3. Log \in Seq(Results)
  BY ConcatProperties DEF Log, Typed, ResultsOK
<1> QED
  BY <1>2, <1>3, LenProperties DEF Results

(* A run that starts, and the state before the first.                                *)
LEMMA NothingYet ==
    ASSUME Busy = {}, taken = 0, resultChan = <<>>, result = NoResult
    PROVE  Reporting
<1>1. Log = <<>> /\ Len(Log) = 0
  BY ConcatEmptySeq, EmptySeq DEF Log, NoResult
<1>2. Batches!Wins(<<>>) = {} /\ Len(<<>>) = 0
  BY DEF Batches!Wins
<1> QED
  BY <1>1, <1>2, FS_EmptySet DEF Reporting, Distinct, Counting, Covered, Tallied, NoResult

LEMMA LaunchReporting ==
    ASSUME NEW steps, NEW c, NEW accounts, Launch(steps, c, accounts)
    PROVE  Reporting' /\ Busy' = {} /\ Log' = <<>>
<1>1. \A w \in Workers : worker'[w].pc \in {"receive", "exit"}
  BY DEF Launch, Run, Free, Gone
<1>2. Busy' = {} /\ taken' = 0 /\ resultChan' = <<>> /\ result' = NoResult
  BY <1>1 DEF Busy, Launch, Run
<1>3. Log' = <<>> /\ Len(<<>>) = 0
  BY <1>2, ConcatEmptySeq, EmptySeq DEF Log, NoResult
<1>4. Batches!Wins(<<>>) = {}
  BY <1>3 DEF Batches!Wins
<1>5. Tallied'
  <2>1. PICK none : none = <<>> /\ Len(none) = 0 /\ Batches!Wins(none) = {}
    BY <1>3, <1>4
  <2>2. result'.accounts = none /\ result'.success = 0 /\ result'.failure = 0
    BY <1>2, <2>1 DEF NoResult
  <2>3. Cardinality(Batches!Wins(none)) = 0
    BY <2>1, FS_EmptySet
  <2> QED
    BY <2>1, <2>2, <2>3 DEF Tallied
<1>6. Distinct' /\ Covered'
  BY <1>2 DEF Distinct, Covered
<1>7. Counting'
  BY <1>2, <1>3, FS_EmptySet DEF Counting
<1> QED
  BY <1>2, <1>3, <1>5, <1>6, <1>7 DEF Reporting

LEMMA TakesReporting ==
    ASSUME Typed, Reporting, NEW w \in Workers, Takes(w)
    PROVE  Reporting'
<1> USE DEF Typed
<1>1. \A v \in Busy : worker[v].account \in 1..taken
  BY BusyFacts
<1>2. taken \in Nat
  BY FeedFacts
<1>3. Distinct'
  BY <1>1, <1>2 DEF Distinct, Reporting, Takes, Kept
<1>4. Log' = Log
  BY DEF Log, Takes
<1>5. Counting'
  <2>1. Cardinality(Busy') = Cardinality(Busy) + 1
    BY LogFacts, FS_AddElement DEF Takes
  <2> QED
    BY <1>2, <1>4, <2>1, LogFacts DEF Counting, Reporting, Takes
<1>6. Covered'
  <2> SUFFICES ASSUME NEW a \in 1..taken + 1
               PROVE  \/ \E v \in Busy' : worker'[v].account = a
                      \/ \E i \in 1..Len(Log) : Log[i].account = a
    BY <1>4 DEF Covered, Takes
  <2>1. CASE a = taken + 1
    BY <2>1 DEF Takes
  <2>2. CASE a \in 1..taken
    BY <2>2 DEF Covered, Reporting, Takes, Kept
  <2> QED
    BY <1>2, <2>1, <2>2
<1>7. Tallied'
  BY DEF Tallied, Reporting, Takes
<1> QED
  BY <1>3, <1>5, <1>6, <1>7 DEF Reporting

LEMMA DeliversReporting ==
    ASSUME Typed, Reporting, NEW w \in Workers, Delivers(w)
    PROVE  Reporting' /\ \E r \in Results : r.account = worker[w].account /\ Log' = Append(Log, r)
<1> USE DEF Typed
<1>1. PICK r \in Results : r.account = worker[w].account /\ resultChan' = Append(resultChan, r)
  BY DEF Delivers
<1>2. Log' = Append(Log, r)
  BY <1>1, ReportAddsToLog DEF Log, Delivers, ResultsOK
<1>3. /\ Len(Log') = Len(Log) + 1 /\ Log'[Len(Log) + 1] = r
      /\ \A i \in 1..Len(Log) : Log'[i] = Log[i]
  BY <1>2, LogFacts, AppendProperties
<1>4. Distinct'
  BY DEF Distinct, Reporting, Delivers, Kept
<1>5. Counting'
  <2>1. Cardinality(Busy') = Cardinality(Busy) - 1
    BY LogFacts, FS_RemoveElement DEF Delivers
  <2> QED
    BY <1>3, <2>1, LogFacts DEF Counting, Reporting, Delivers
<1>6. Covered'
  <2> SUFFICES ASSUME NEW a \in 1..taken
               PROVE  \/ \E v \in Busy' : worker'[v].account = a
                      \/ \E i \in 1..Len(Log') : Log'[i].account = a
    BY DEF Covered, Delivers
  <2>1. CASE a = worker[w].account
    <3>1. Len(Log) + 1 \in 1..Len(Log')
      BY <1>3, LogFacts
    <3> QED
      BY <1>1, <1>3, <2>1, <3>1
  <2>2. ASSUME NEW v \in Busy, worker[v].account = a, a # worker[w].account
        PROVE  \E u \in Busy' : worker'[u].account = a
    BY <2>2 DEF Delivers, Kept
  <2>3. ASSUME NEW i \in 1..Len(Log), Log[i].account = a
        PROVE  \E j \in 1..Len(Log') : Log'[j].account = a
    <3>1. i \in 1..Len(Log') /\ Log'[i] = Log[i]
      BY <1>3, LogFacts
    <3> QED
      BY <2>3, <3>1
  <2> QED
    BY <2>1, <2>2, <2>3 DEF Covered, Reporting
<1>7. Tallied'
  BY DEF Tallied, Reporting, Delivers
<1> QED
  BY <1>1, <1>2, <1>4, <1>5, <1>6, <1>7 DEF Reporting

LEMMA GathersReporting ==
    ASSUME Typed, Reporting, Gathers
    PROVE  Reporting' /\ Log' = Log /\ Busy' = Busy
<1> USE DEF Typed
<1>1. Log' = Log
  BY CollectKeepsLog DEF Log, Gathers, ResultsOK
<1>2. Busy' = Busy /\ worker' = worker /\ taken' = taken
  BY DEF Busy, Gathers
<1>3. Distinct' /\ Counting' /\ Covered'
  BY <1>1, <1>2 DEF Distinct, Counting, Covered, Reporting
<1>4. Tallied'
  <2>1. PICK r \in Results : r = Head(resultChan) /\ r.success \in BOOLEAN
    BY LogFacts, HeadTailProperties DEF Gathers, ResultsOK
  <2>2. PICK log \in Seq(Results) : log = result.accounts
    BY DEF ResultsOK
  <2>3. Len(log) \in Nat /\ Len(Append(log, r)) = Len(log) + 1
    BY LenProperties, AppendProperties
  <2>4. /\ Cardinality(Batches!Wins(log)) \in Nat
        /\ Cardinality(Batches!Wins(Append(log, r)))
               = Cardinality(Batches!Wins(log)) + (IF r.success THEN 1 ELSE 0)
    BY <2>1, WinsAppend
  <2>5. /\ result'.accounts = Append(log, r)
        /\ result'.success = IF r.success THEN result.success + 1 ELSE result.success
        /\ result'.failure = IF r.success THEN result.failure ELSE result.failure + 1
    BY <2>1, <2>2 DEF Gathers
  <2>6. CASE r.success
    <3>1. result'.success = result.success + 1 /\ result'.failure = result.failure
      BY <2>5, <2>6
    <3>2. Cardinality(Batches!Wins(Append(log, r))) = Cardinality(Batches!Wins(log)) + 1
      BY <2>4, <2>6
    <3>3. PICK n \in Nat : n = Cardinality(Batches!Wins(log))
      BY <2>4
    <3>4. result.success = n /\ result.failure = Len(log) - n
      BY <2>2, <3>3 DEF Tallied, Reporting
    <3> QED
      BY <2>3, <2>5, <3>1, <3>2, <3>3, <3>4 DEF Tallied
  <2>7. CASE ~r.success
    BY <2>2, <2>3, <2>4, <2>5, <2>7 DEF Tallied, Reporting
  <2> QED
    BY <2>6, <2>7
<1> QED
  BY <1>1, <1>2, <1>3, <1>4 DEF Reporting

LEMMA ReportingInit == Init => Reporting
<1>1. Init => Busy = {}
  BY DEF Init, Busy, Gone, Free
<1> QED
  BY <1>1, NothingYet DEF Init

LEMMA ReportingStep ==
    ASSUME Typed, Reporting, [Next]_vars
    PROVE  Reporting'
<1>1. CASE Quiet
  <2>1. Busy' = Busy /\ taken' = taken /\ result' = result /\ Log' = Log
    BY <1>1 DEF Quiet, Log
  <2>2. \A w \in Busy : worker'[w].account = worker[w].account
    BY <1>1 DEF Quiet, Kept
  <2>3. Distinct' /\ Covered'
    BY <2>1, <2>2 DEF Reporting, Distinct, Covered
  <2>4. Counting' /\ Tallied'
    BY <2>1 DEF Reporting, Counting, Tallied
  <2> QED
    BY <2>3, <2>4 DEF Reporting
<1>2. CASE Settles
  BY <1>2 DEF Settles, Busy, Reporting, Distinct, Counting, Covered, Tallied, Log
<1> QED
  BY <1>1, <1>2, ReportKinds, LaunchReporting, TakesReporting, DeliversReporting, GathersReporting

(* A worker that reports has a taken account that is not in the log, so that the channel of     *)
(* results has room; and it has not exited, so that nobody has closed the channel.            *)
THEOREM ReportsGetThrough == Spec => []ReportGetsThrough
<1>1. Typed /\ Ending /\ Reporting => ReportGetsThrough
  <2> SUFFICES ASSUME Typed, Ending, Reporting, NEW w \in Workers, worker[w].pc = "report"
               PROVE  ~resultClosed /\ Len(resultChan) < N
    BY DEF ReportGetsThrough
  <2>1. ~resultClosed
    BY DEF Ending, Exited
  <2>2. Cardinality(Busy) >= 1
    BY LogFacts, FS_EmptySet DEF Busy
  <2>3. Len(Log) < N
    BY <2>2, LogFacts, FeedFacts DEF Reporting, Counting, Typed
  <2>4. Len(resultChan) <= Len(Log)
    BY ConcatProperties, LenProperties DEF Log, Typed, ResultsOK
  <2> QED
    BY <2>1, <2>3, <2>4, LogFacts, LenProperties, FeedFacts DEF Typed, ResultsOK
<1> QED
  BY <1>1, TypedInit, TypedStep, EndingInit, EndingStep, ReportingInit, ReportingStep, PTL DEF Spec

(* When the pool is done, all accounts are in the log, which has been collected.           *)
LEMMA PoolDone ==
    ASSUME Typed, Ending, feeder.pc = "collect", resultClosed, resultChan = <<>>
    PROVE  Busy = {} /\ taken = N /\ N \in Nat /\ Log = result.accounts
<1> USE DEF Typed
<1>1. Busy = {} /\ Exited(1)
  BY OneWorker DEF Ending, Busy, Exited
<1>2. taken = N /\ N \in Nat
  BY <1>1, FeedFacts DEF Ending
<1>3. Log = result.accounts
  BY ConcatEmptySeq DEF Log, ResultsOK
<1> QED
  BY <1>1, <1>2, <1>3

(* Whatever order the workers take the accounts and report in, the result of a run has one  *)
(* entry for each account, and its counters are those of the entries.                     *)
THEOREM ReportsAreComplete == Spec => []EveryAccountReported
<1>1. Typed /\ Ending /\ Reporting => EveryAccountReported
  <2> SUFFICES ASSUME Typed, Ending, Reporting, run.phase = "done"
               PROVE  /\ Len(result.accounts) = N
                      /\ \A a \in 1..N : \E i \in 1..N : result.accounts[i].account = a
                      /\ LET won == {i \in 1..N : result.accounts[i].success} IN
                         result.success = Cardinality(won) /\ result.failure = N - Cardinality(won)
    BY DEF EveryAccountReported
  <2>1. Busy = {} /\ taken = N /\ N \in Nat /\ Log = result.accounts
    BY PoolDone DEF Ending
  <2>2. Len(result.accounts) = N
    BY <2>1, LogFacts, FS_EmptySet DEF Reporting, Counting
  <2>3. \A a \in 1..N : \E i \in 1..N : result.accounts[i].account = a
    BY <2>1, <2>2 DEF Reporting, Covered
  <2>4. Batches!Wins(result.accounts) = {i \in 1..N : result.accounts[i].success}
    BY <2>2 DEF Batches!Wins
  <2> QED
    BY <2>2, <2>3, <2>4 DEF Reporting, Tallied
<1> QED
  BY <1>1, TypedInit, TypedStep, EndingInit, EndingStep, ReportingInit, ReportingStep, PTL DEF Spec

-------------------------------------------------------------------------------
(***************************************************************************)
(* The pool implements Batch: a worker that receives takes, a report is one, and *)
(* the other steps of the feeder, the collector and the workers show nothing.    *)
(***************************************************************************)

LEMMA BatchInit == Init => Batches!Init
<1> SUFFICES ASSUME Init PROVE Batches!Init
  OBVIOUS
<1>1. Busy = {} /\ Held = {}
  BY DEF Init, Busy, Held, Gone, Free
<1>2. N = 0 /\ Left = {}
  BY DEF Init, N, Left
<1>3. Log = <<>>
  BY ConcatEmptySeq, EmptySeq DEF Init, Log, NoResult
<1>4. run.phase = "none" /\ Answer = Batches!NoAnswer
  BY DEF Init, Answer, Batches!NoAnswer
<1> QED
  BY <1>1, <1>2, <1>3, <1>4 DEF Batches!Init

LEMMA NoAnswerYet ==
    ASSUME run.phase # "done"
    PROVE  Answer = Batches!NoAnswer
BY DEF Answer, Batches!NoAnswer

LEMMA LaunchStarts ==
    ASSUME NEW steps, NEW c, NEW accounts, Launch(steps, c, accounts)
    PROVE  Batches!Start
<1>1. Busy' = {} /\ Held' = {} /\ Log' = <<>>
  BY LaunchReporting DEF Held
<1>2. run.phase # "running" /\ run'.phase = "running" /\ Answer' = Batches!NoAnswer
  BY DEF Launch, Run, Answer, Batches!NoAnswer
<1>3. Len(accounts) \in Sizes /\ Left' = 1..Len(accounts)
  <2>1. N' = Len(accounts) /\ taken' = 0 /\ accounts \in Any(Lists)
    BY Launched DEF Launch, Any
  <2>2. Left' = (0 + 1)..Len(accounts)
    BY <2>1 DEF Left
  <2> QED
    BY <2>1, <2>2 DEF Sizes
<1> QED
  BY <1>1, <1>2, <1>3 DEF Batches!Start

LEMMA TakesTake ==
    ASSUME Typed, Reporting, NEW w \in Workers, Takes(w)
    PROVE  Batches!Take
<1> USE DEF Typed
<1>1. taken \in Nat /\ N \in Nat
  BY FeedFacts
<1>2. taken + 1 \in Left /\ Left' = Left \ {taken + 1}
  BY <1>1 DEF Takes, Left, N
<1>3. Held' = Held \cup {taken + 1}
  <2>1. Held' = {worker'[v].account : v \in Busy \cup {w}}
    BY DEF Held, Takes
  <2> QED
    BY <2>1 DEF Held, Takes, Kept
<1>4. run' = run /\ run.phase = "running" /\ Log' = Log /\ Answer' = Answer
  BY DEF Takes, Running, Log, Answer
<1> QED
  BY <1>2, <1>3, <1>4 DEF Batches!Take

LEMMA DeliversReport ==
    ASSUME Typed, Reporting, NEW w \in Workers, Delivers(w)
    PROVE  Batches!Report
<1>1. PICK r \in Results : r.account = worker[w].account /\ Log' = Append(Log, r)
  BY DeliversReporting
<1>2. r = [account |-> worker[w].account, success |-> r.success] /\ r.success \in BOOLEAN
  BY <1>1 DEF Results
<1>3. worker[w].account \in Held
  BY DEF Delivers, Held
<1>4. Held' = Held \ {worker[w].account}
  <2>1. Held' = {worker'[v].account : v \in Busy \ {w}}
    BY DEF Held, Delivers
  <2>2. Held' = {worker[v].account : v \in Busy \ {w}}
    BY <2>1 DEF Delivers, Kept
  <2>3. \A v \in Busy \ {w} : worker[v].account # worker[w].account
    BY DEF Delivers, Reporting, Distinct
  <2> QED
    BY <2>2, <2>3 DEF Held
<1>5. run' = run /\ run.phase = "running" /\ Left' = Left /\ Answer' = Answer
  BY DEF Delivers, Running, Left, N, Answer
<1>6. \E success \in BOOLEAN :
          Log' = Append(Log, [account |-> worker[w].account, success |-> success])
  BY <1>1, <1>2
<1> QED
  BY <1>3, <1>4, <1>5, <1>6 DEF Batches!Report

LEMMA SameCardinality == \A S : Batches!Cardinality(S) = Cardinality(S)
BY DEF Cardinality, Batches!Cardinality, IsFiniteSet, Batches!IsFiniteSet

LEMMA SettlesFrame ==
    ASSUME Settles
    PROVE  Left' = Left /\ Held' = Held /\ Log' = Log
BY DEF Settles, Left, Held, Busy, Log, N

LEMMA ReturnReturns ==
    ASSUME Typed, Ending, Reporting, Return, Settles
    PROVE  Batches!Return
<1>1. Busy = {} /\ taken = N /\ N \in Nat /\ Log = result.accounts
  BY PoolDone DEF Return
<1>2. Left = {} /\ Held = {}
  BY <1>1 DEF Left, Held
<1>3. run.phase = "running" /\ run'.phase = "done" /\ result' = result
  BY DEF Return, Running, Settles, Typed, RunOK
<1>4. Answer' = Batches!Count(Log)
  <2>1. Answer' = [success |-> result.success, failure |-> result.failure]
    BY <1>3 DEF Answer
  <2> QED
    BY <1>1, <2>1, SameCardinality DEF Reporting, Tallied, Batches!Count
<1> QED
  BY <1>2, <1>3, <1>4, SettlesFrame DEF Batches!Return

LEMMA DiesCrashes ==
    ASSUME Typed, NEW w \in Workers, Dies(w), Settles
    PROVE  Batches!Crash
<1>1. run.phase = "running" /\ run'.phase = "crashed"
  BY DEF Dies, Crash, Running, Typed, RunOK
<1>2. Answer' = Answer
  BY <1>1 DEF Answer
<1> QED
  BY <1>1, <1>2, SettlesFrame DEF Batches!Crash

LEMMA BatchStep ==
    ASSUME Typed, Ending, Reporting, [Next]_vars
    PROVE  [Batches!Next]_<<run.phase, Left, Held, Log, Answer>>
<1>1. CASE Quiet
  <2>1. Held' = Held
    BY <1>1 DEF Quiet, Kept, Held
  <2> QED
    BY <1>1, <2>1 DEF Quiet, Left, N, Log, Answer
<1>2. CASE Gathers
  <2>1. Log' = Log /\ Held' = Held
    BY <1>2, GathersReporting DEF Gathers, Held
  <2>2. run' = run /\ Left' = Left /\ Answer' = Answer
    BY <1>2 DEF Gathers, Running, Left, N, Answer
  <2> QED
    BY <2>1, <2>2
<1> QED
  BY <1>1, <1>2, ReportKinds, LaunchStarts, TakesTake, DeliversReport, ReturnReturns, DiesCrashes
     DEF Batches!Next

(* A load test with its channels and workers implements Batch, for any number of workers and  *)
(* accounts: each account is taken and reported once, and the result returned counts them all. *)
THEOREM PoolImplementsBatch == Spec => ImplementsBatch
<1> QED
  BY BatchInit, BatchStep, TypedInit, TypedStep, EndingInit, EndingStep, ReportingInit, ReportingStep,
     PTL DEF Spec, ImplementsBatch, Batches!Spec

-------------------------------------------------------------------------------
(***************************************************************************)
(* How long an account can take: AccountGetsShorter.                            *)
(***************************************************************************)

Shortens(l, k) == k.account = l.account /\ WorkLeft(k) < WorkLeft(l)

(* What the steps after the present one may take.                                  *)
Rest(l) == StepsAfter(l) * PerStep

LEMMA PerStepSize == PerStep \in Nat /\ PerStep = 2 * MaxTries + 3 /\ MaxTries \in Nat /\ MaxTries >= 1
BY BoundsAssumption DEF PerStep

LEMMA RestFacts ==
    ASSUME RunOK, NEW l, LocalOK(l), l.pc \in Inner
    PROVE  Rest(l) \in Nat
<1>1. l.step \in Nat /\ l.step <= Len(run.steps) + 1 /\ Len(run.steps) \in Nat
  BY RunFacts DEF LocalOK, Locals
<1>2. StepsAfter(l) \in Nat
  BY <1>1 DEF StepsAfter
<1> QED
  BY <1>2, PerStepSize DEF Rest

(* Going on to the next step gives away what that step may take.                     *)
LEMMA RestOfNext ==
    ASSUME RunOK, NEW l, LocalOK(l), l.pc \in Inner, NEW k, k.step = l.step + 1
    PROVE  Rest(k) = Rest(l) - PerStep
<1>1. l.step \in Nat /\ Len(run.steps) \in Nat
  BY RunFacts DEF LocalOK, Locals
<1>2. PICK n \in Int : n = StepsAfter(l) /\ StepsAfter(k) = n - 1
  <2>1. PICK i, m \in Nat : i = l.step /\ m = Len(run.steps) /\ k.step = i + 1
    BY <1>1
  <2>2. StepsAfter(l) = m + 1 - i /\ StepsAfter(k) = m + 1 - (i + 1)
    BY <2>1 DEF StepsAfter
  <2> QED
    BY <2>2
<1>3. PICK p \in Nat : p = PerStep
  BY PerStepSize
<1>4. (n - 1) * p = n * p - p
  OBVIOUS
<1> QED
  BY <1>2, <1>3, <1>4 DEF Rest

LEMMA AttemptFacts ==
    ASSUME RunOK, NEW l, LocalOK(l), l.pc \in {"build", "send"}
    PROVE  AttemptsLeft(l) \in 0..MaxTries /\ (l.pc = "build" => AttemptsLeft(l) >= 1)
<1>1. /\ l.step \in 1..Len(run.steps) /\ l.tries \in Nat /\ l.tries <= run.steps[l.step].max
      /\ l.pc = "build" /\ run.steps[l.step].max > 0 => l.tries < run.steps[l.step].max
  BY RunFacts DEF LocalOK, Locals, Inner
<1>2. run.steps[l.step].max \in 0..MaxTries
  BY <1>1, RunFacts DEF Steps
<1> QED
  BY <1>1, <1>2, PerStepSize DEF AttemptsLeft

LEMMA WorkOfInner ==
    ASSUME RunOK, NEW l, LocalOK(l), l.pc \in Inner
    PROVE  /\ l.pc = "condition" => WorkLeft(l) = Rest(l) + 2 * MaxTries + 3
           /\ l.pc = "curl"  => WorkLeft(l) = Rest(l) + 2 * MaxTries + 2
           /\ l.pc = "build" => WorkLeft(l) = Rest(l) + 2 * AttemptsLeft(l) + 1
           /\ l.pc = "send"  => WorkLeft(l) = Rest(l) + 2 * AttemptsLeft(l) + 2
           /\ l.pc = "save"  => WorkLeft(l) = Rest(l) + 1
BY DEF WorkLeft, Rest, Inner

LEMMA WorkIsPositive ==
    ASSUME RunOK, NEW l, LocalOK(l), l.pc \in Inner
    PROVE  WorkLeft(l) \in Nat /\ WorkLeft(l) > 0
<1>1. Rest(l) \in Nat
  BY RestFacts
<1>2. l.pc \in {"build", "send"} => AttemptsLeft(l) \in Nat
  BY AttemptFacts, PerStepSize
<1> QED
  BY <1>1, <1>2, WorkOfInner, PerStepSize DEF Inner

(* The end of an account.                                                         *)
LEMMA EndShortens ==
    ASSUME RunOK, NEW l, LocalOK(l), l.pc \in Inner, NEW k, k.pc = "report", k.account = l.account
    PROVE  Shortens(l, k)
<1>1. WorkLeft(k) = 0
  BY DEF WorkLeft
<1> QED
  BY <1>1, WorkIsPositive DEF Shortens

LEMMA NextShortens ==
    ASSUME RunOK, NEW l, LocalOK(l), l.pc \in {"condition", "save"},
           NEW k, LocalOK(k), k.pc = "condition", k.step = l.step + 1, k.account = l.account
    PROVE  Shortens(l, k)
<1>1. l.pc \in Inner /\ k.pc \in Inner
  BY DEF Inner
<1>2. Rest(l) \in Nat /\ Rest(k) = Rest(l) - PerStep
  BY <1>1, RestFacts, RestOfNext
<1>3. WorkLeft(k) = Rest(k) + 2 * MaxTries + 3 /\ WorkLeft(l) >= Rest(l) + 1
  BY <1>1, <1>2, WorkOfInner, PerStepSize
<1> QED
  BY <1>2, <1>3, WorkIsPositive, <1>1, PerStepSize DEF Shortens

(* Within a step, from one stage to the next.                                      *)
LEMMA StageShortens ==
    ASSUME RunOK, NEW l, LocalOK(l), NEW k, LocalOK(k), k.step = l.step, k.account = l.account,
           \/ l.pc = "condition" /\ k.pc \in {"curl", "build"}
           \/ l.pc = "curl" /\ k.pc = "build"
           \/ l.pc = "build" /\ k.pc = "send" /\ AttemptsLeft(k) = AttemptsLeft(l) - 1
           \/ l.pc = "send" /\ k.pc = "build" /\ AttemptsLeft(k) = AttemptsLeft(l)
           \/ l.pc = "send" /\ k.pc = "save"
    PROVE  Shortens(l, k)
<1>1. l.pc \in Inner /\ k.pc \in Inner
  BY DEF Inner
<1>2. PICK n \in Nat : n = Rest(l) /\ n = Rest(k)
  BY <1>1, RestFacts DEF Rest, StepsAfter
<1>3. l.pc \in {"build", "send"} => AttemptsLeft(l) \in 0..MaxTries
  BY AttemptFacts
<1>4. k.pc \in {"build", "send"} => AttemptsLeft(k) \in 0..MaxTries
  BY AttemptFacts
<1>5. PICK m \in Nat : m = MaxTries /\ m >= 1
  BY PerStepSize
<1>6. CASE l.pc = "condition" /\ k.pc \in {"curl", "build"}
  <2>1. WorkLeft(l) = n + 2 * m + 3
    BY <1>1, <1>2, <1>5, <1>6, WorkOfInner
  <2>2. k.pc = "curl" => WorkLeft(k) = n + 2 * m + 2
    BY <1>1, <1>2, <1>5, WorkOfInner
  <2>3. k.pc = "build" => WorkLeft(k) = n + 2 * AttemptsLeft(k) + 1
    BY <1>1, <1>2, WorkOfInner
  <2> QED
    BY <1>4, <1>5, <1>6, <2>1, <2>2, <2>3 DEF Shortens
<1>7. CASE l.pc = "curl" /\ k.pc = "build"
  <2>1. WorkLeft(l) = n + 2 * m + 2 /\ WorkLeft(k) = n + 2 * AttemptsLeft(k) + 1
    BY <1>1, <1>2, <1>5, <1>7, WorkOfInner
  <2> QED
    BY <1>4, <1>5, <1>7, <2>1 DEF Shortens
<1>8. CASE l.pc = "build" /\ k.pc = "send" /\ AttemptsLeft(k) = AttemptsLeft(l) - 1
  <2>1. WorkLeft(l) = n + 2 * AttemptsLeft(l) + 1 /\ WorkLeft(k) = n + 2 * AttemptsLeft(k) + 2
    BY <1>1, <1>2, <1>8, WorkOfInner
  <2> QED
    BY <1>3, <1>5, <1>8, <2>1 DEF Shortens
<1>9. CASE l.pc = "send" /\ k.pc = "build" /\ AttemptsLeft(k) = AttemptsLeft(l)
  <2>1. WorkLeft(l) = n + 2 * AttemptsLeft(l) + 2 /\ WorkLeft(k) = n + 2 * AttemptsLeft(k) + 1
    BY <1>1, <1>2, <1>9, WorkOfInner
  <2> QED
    BY <1>3, <1>5, <1>9, <2>1 DEF Shortens
<1>10. CASE l.pc = "send" /\ k.pc = "save"
  <2>1. WorkLeft(l) = n + 2 * AttemptsLeft(l) + 2 /\ WorkLeft(k) = n + 1
    BY <1>1, <1>2, <1>10, WorkOfInner
  <2> QED
    BY <1>3, <1>5, <1>10, <2>1 DEF Shortens
<1> QED
  BY <1>6, <1>7, <1>8, <1>9, <1>10

LEMMA InnerShortens ==
    ASSUME RunOK, FeederOK, WorkersOK, VarsOK, NEW w \in Workers, InnerStep(w)
    PROVE  \/ DeadlinePasses(w) \/ TriesAgain(w)
           \/ Shortens(worker[w], worker'[w]) /\ 0 <= WorkLeft(worker'[w])
<1>1. PICK l : l = worker[w]
  OBVIOUS
<1>2. PICK k : k = worker'[w]
  OBVIOUS
<1>3. PICK new : Moved(w, new)
  BY InnerMoves
<1>4. k = new /\ LocalOK(k) /\ k.pc \in Inner \cup {"report"} /\ k.account = l.account /\ l.pc \in Inner
  BY <1>1, <1>2, <1>3 DEF Moved, WorkersOK
<1>5. l \in Locals /\ LocalOK(l)
  BY <1>1 DEF WorkersOK, LocalOK
<1>6. 0 <= WorkLeft(k)
  <2>1. k.pc = "report" => WorkLeft(k) = 0
    BY DEF WorkLeft
  <2> QED
    BY <1>4, <2>1, WorkIsPositive
<1>7. k.pc = "report" => Shortens(l, k)
  BY <1>4, <1>5, EndShortens
<1>8. \A success : Move(w, Finished(w, success)) => k.pc = "report"
  BY <1>1, <1>2, <1>5 DEF Move, Finished, Locals, WorkersOK
<1>9. CASE EndSteps(w)
  BY <1>1, <1>2, <1>6, <1>7, <1>8, <1>9 DEF EndSteps
<1>10. CASE EvaluateCondition(w)
  <2> DEFINE next(pc) == [worker[w] EXCEPT !.pc = pc, !.tries = 0, !.late = FALSE]
  <2>1. l.pc = "condition"
    BY <1>1, <1>10 DEF EvaluateCondition, At
  <2>2. Move(w, Finished(w, FALSE)) \/ Move(w, NextStep(w)) \/ \E pc \in {"curl", "build"} : Move(w, next(pc))
    BY <1>10 DEF EvaluateCondition
  <2>3. Move(w, NextStep(w)) => k.pc = "condition" /\ k.step = l.step + 1
    BY <1>1, <1>2, <1>5 DEF Move, NextStep, Locals, WorkersOK
  <2>4. \A pc \in {"curl", "build"} : Move(w, next(pc)) => k.pc = pc /\ k.step = l.step
    BY <1>1, <1>2, <1>5 DEF Move, Locals, WorkersOK
  <2>5. Shortens(l, k)
    BY <1>4, <1>5, <1>7, <1>8, <2>1, <2>2, <2>3, <2>4, NextShortens, StageShortens
  <2> QED
    BY <1>1, <1>2, <1>6, <2>5
<1>11. CASE ParseCurl(w)
  <2>1. /\ l.pc = "curl"
        /\ Move(w, Finished(w, FALSE)) \/ Move(w, [worker[w] EXCEPT !.pc = "build"])
    BY <1>1, <1>11 DEF ParseCurl, At
  <2>2. Move(w, [worker[w] EXCEPT !.pc = "build"]) => k.pc = "build" /\ k.step = l.step
    BY <1>1, <1>2, <1>5 DEF Move, Locals, WorkersOK
  <2>3. Shortens(l, k)
    BY <1>4, <1>5, <1>7, <1>8, <2>1, <2>2, StageShortens
  <2> QED
    BY <1>1, <1>2, <1>6, <2>3
<1>12. CASE BuildRequest(w)
  <2>1. /\ l.pc = "build"
        /\ \/ Move(w, Finished(w, FALSE))
           \/ Move(w, [worker[w] EXCEPT !.pc = "send", !.tries = Counted(w)])
    BY <1>1, <1>12 DEF BuildRequest, At
  <2>2. Move(w, [worker[w] EXCEPT !.pc = "send", !.tries = Counted(w)])
            => k.pc = "send" /\ k.step = l.step /\ k.tries = Counted(w)
    BY <1>1, <1>2, <1>5 DEF Move, Locals, WorkersOK
  <2>3. k.pc = "send" /\ k.step = l.step /\ k.tries = Counted(w) => AttemptsLeft(k) = AttemptsLeft(l) - 1
    <3>1. l.step \in 1..Len(run.steps) /\ l.tries \in Nat
      BY <1>5, <2>1, RunFacts DEF LocalOK, Locals, Inner
    <3>2. run.steps[l.step].max \in 0..MaxTries
      BY <3>1, RunFacts DEF Steps
    <3>3. PICK t, m \in Nat : t = l.tries /\ m = run.steps[l.step].max
      BY <3>1, <3>2, PerStepSize
    <3>4. Counted(w) = IF m = 0 THEN 0 ELSE t + 1
      BY <1>1, <3>3 DEF Counted, StepOf
    <3>5. AttemptsLeft(l) = IF m > 0 THEN m - t ELSE 1
      BY <2>1, <3>3 DEF AttemptsLeft
    <3>6. k.pc = "send" /\ k.step = l.step => AttemptsLeft(k) = IF m > 0 THEN m - k.tries ELSE 0
      BY <3>3 DEF AttemptsLeft
    <3> QED
      BY <3>3, <3>4, <3>5, <3>6
  <2>4. Shortens(l, k)
    BY <1>4, <1>5, <1>7, <1>8, <2>1, <2>2, <2>3, StageShortens
  <2> QED
    BY <1>1, <1>2, <1>6, <2>4
<1>13. CASE RequestFails(w) \/ WrongStatus(w)
  <2>1. /\ l.pc = "send"
        /\ \/ Move(w, Finished(w, FALSE))
           \/ ShouldRetry(w) /\ Move(w, [worker[w] EXCEPT !.pc = "build"])
    BY <1>1, <1>13 DEF RequestFails, WrongStatus, RetryOrFail, At
  <2>2. Move(w, [worker[w] EXCEPT !.pc = "build"])
            => k = [l EXCEPT !.pc = "build"] /\ k.pc = "build" /\ k.step = l.step /\ k.tries = l.tries
    BY <1>1, <1>2, <1>5 DEF Move, Locals, WorkersOK
  <2>3. CASE StepOf(w).max = 0 /\ ShouldRetry(w) /\ Move(w, [worker[w] EXCEPT !.pc = "build"])
    BY <1>1, <1>2, <2>1, <2>2, <2>3 DEF TriesAgain, ShouldRetry
  <2>4. CASE StepOf(w).max # 0 /\ ShouldRetry(w) /\ Move(w, [worker[w] EXCEPT !.pc = "build"])
    <3>1. StepOf(w) \in Steps
      BY <1>1, <1>4, <1>5, <2>1, StepFacts DEF LocalOK, Inner
    <3>2. StepOf(w).max > 0
      BY <2>4, <3>1 DEF Steps
    <3>3. AttemptsLeft(k) = AttemptsLeft(l)
      BY <1>1, <2>2, <2>4, <3>2 DEF AttemptsLeft, StepOf
    <3>4. Shortens(l, k)
      BY <1>4, <1>5, <2>1, <2>2, <2>4, <3>3, StageShortens
    <3> QED
      BY <1>1, <1>2, <1>6, <3>4
  <2> QED
    BY <1>1, <1>2, <1>6, <1>7, <1>8, <2>1, <2>3, <2>4
<1>14. CASE GoodAnswer(w)
  <2>1. l.pc = "send" /\ k.pc = "save" /\ k.step = l.step
    BY <1>1, <1>2, <1>5, <1>14 DEF GoodAnswer, At, Move, Locals, WorkersOK
  <2>2. Shortens(l, k)
    BY <1>4, <1>5, <2>1, StageShortens
  <2> QED
    BY <1>1, <1>2, <1>6, <2>2
<1>15. CASE Deadline(w)
  BY <1>15 DEF Deadline, Move, DeadlinePasses, WorkersOK
<1>16. CASE SaveVariables(w) \/ SaveLost(w, FALSE)
  <2>1. l.pc = "save"
    BY <1>1, <1>16 DEF SaveVariables, SaveLost, At
  <2>2. PICK n : n = NextStep(w)
    OBVIOUS
  <2>3. n.pc = "condition" /\ n.step = l.step + 1 /\ n = [l EXCEPT !.pc = "condition", !.step = l.step + 1]
    BY <1>1, <1>5, <2>2 DEF NextStep, Locals
  <2>4. k = n \/ \E own : k = [n EXCEPT !.own = own]
    BY <1>2, <1>16, <2>2 DEF SaveVariables, SaveLost, Move, WorkersOK
  <2>5. k.pc = "condition" /\ k.step = l.step + 1
    BY <1>5, <2>3, <2>4 DEF Locals
  <2>6. Shortens(l, k)
    BY <1>4, <1>5, <2>1, <2>5, NextShortens
  <2> QED
    BY <1>1, <1>2, <1>6, <2>6
<1> QED
  BY <1>9, <1>10, <1>11, <1>12, <1>13, <1>14, <1>15, <1>16 DEF InnerStep

LEMMA BeginShortens ==
    ASSUME RunOK, FeederOK, WorkersOK, NEW w \in Workers, NEW others, NEW shared, Begins(w, others, shared)
    PROVE  Shortens(worker[w], worker'[w]) /\ 0 <= WorkLeft(worker'[w])
<1>1. PICK l, k : l = worker[w] /\ k = worker'[w]
  OBVIOUS
<1>2. l \in Locals /\ l.pc = "init"
      /\ k = [l EXCEPT !.pc = "condition", !.step = 1, !.own = Fresh, !.shared = shared]
  BY <1>1 DEF Begins, WorkersOK
<1>3. k.pc = "condition" /\ k.step = 1 /\ k.account = l.account
  BY <1>2 DEF Locals
<1>4. PICK n \in Nat : n = Len(run.steps)
  BY RunFacts
<1>5. PICK p \in Nat : p = PerStep /\ p = 2 * MaxTries + 3
  BY PerStepSize
<1>6. WorkLeft(k) = n * p + 2 * MaxTries + 3
  <2>1. StepsAfter(k) = n
    BY <1>3, <1>4 DEF StepsAfter
  <2> QED
    BY <1>3, <1>5, <2>1 DEF WorkLeft
<1>7. WorkLeft(l) = (n + 1) * p + 1
  BY <1>2, <1>4, <1>5 DEF WorkLeft
<1>8. (n + 1) * p = n * p + p /\ n * p \in Nat
  OBVIOUS
<1> QED
  BY <1>1, <1>3, <1>5, <1>6, <1>7, <1>8, PerStepSize DEF Shortens

(* The steps of another worker, and those of Run.                                  *)
LEMMA OthersStepBeside ==
    ASSUME Typed, NEW v \in Workers, PoolStep(v), NEW w \in Workers \ {v}
    PROVE  Beside(w) \/ run' # run
<1> USE DEF Typed, WorkersOK
<1>1. worker[w] = [worker[w] EXCEPT !.shared = worker[w].shared] /\ worker[w].shared \in BOOLEAN
  BY DEF Locals
<1>2. worker'[w] = worker[w] => Beside(w)
  BY <1>1 DEF Beside
<1>3. CASE Receive(v) \/ Exit(v) \/ Reports(v) \/ \E new : Moved(v, new)
  BY <1>2, <1>3 DEF Receive, Exit, Move, Reports, Moved
<1>4. CASE Dies(v)
  BY <1>4 DEF Dies, Crash, Running, RunOK
<1>5. ASSUME NEW others, NEW shared, Begins(v, others, shared)
      PROVE  Beside(w)
  <2>1. worker'[w] = worker[w] \/ worker'[w] = [worker[w] EXCEPT !.shared = TRUE]
    BY <1>5 DEF Begins
  <2> QED
    BY <1>2, <2>1 DEF Beside
<1> QED
  BY <1>3, <1>4, <1>5 DEF PoolStep

Shorter ==
    \A w \in Workers : worker[w].pc \in Inner \cup {"init"} /\ run' = run =>
        \/ Beside(w) \/ DeadlinePasses(w) \/ TriesAgain(w)
        \/ /\ worker'[w].account = worker[w].account
           /\ 0 <= WorkLeft(worker'[w]) /\ WorkLeft(worker'[w]) < WorkLeft(worker[w])

LEMMA ShorterStep == Typed /\ [Next]_vars => Shorter
<1> SUFFICES ASSUME Typed, [Next]_vars, NEW w \in Workers,
                    worker[w].pc \in Inner \cup {"init"}, run' = run
             PROVE  \/ Beside(w) \/ DeadlinePasses(w) \/ TriesAgain(w)
                    \/ Shortens(worker[w], worker'[w]) /\ 0 <= WorkLeft(worker'[w])
  BY DEF Shorter, Shortens
<1> USE DEF Typed
<1>1. CASE worker' = worker
  <2>1. worker[w] = [worker[w] EXCEPT !.shared = worker[w].shared] /\ worker[w].shared \in BOOLEAN
    BY DEF WorkersOK, Locals
  <2> QED
    BY <1>1, <2>1 DEF Beside
<1>2. ASSUME NEW steps, NEW c, NEW accounts, Launch(steps, c, accounts)
      PROVE  FALSE
  BY <1>2 DEF Launch, Run, RunOK
<1>3. CASE RunStep
  BY <1>1, <1>3 DEF RunStep, Send, Close, Collect, CloseResults, Return
<1>4. ASSUME NEW v \in Workers, PoolStep(v), v # w
      PROVE  Beside(w)
  BY <1>4, OthersStepBeside
<1>5. CASE WorkerStep(w) \/ Deadline(w)
  <2>1. CASE StartAccount(w) \/ LoseEntry(w)
    BY <2>1, AccountBegins, BeginShortens
  <2>2. CASE Fatal(w) \/ SaveLost(w, TRUE)
    BY <2>2 DEF Fatal, SaveLost, Crash, At, Running, RunOK
  <2>3. CASE Report(w) \/ Receive(w) \/ Exit(w)
    BY <2>3 DEF Report, Receive, Exit, At, Inner
  <2>4. CASE InnerStep(w)
    BY <2>4, InnerShortens
  <2> QED
    BY <1>5, <2>1, <2>2, <2>3, <2>4 DEF WorkerStep, InnerStep
<1>6. CASE Next
  BY <1>2, <1>3, <1>4, <1>5, <1>6, DocumentLaunches, FileLaunches, WorkerKinds DEF Next
<1> QED
  BY <1>1, <1>6 DEF vars

(* A worker that is inside an account only ever comes nearer to its report, but for        *)
(* attempts without a count before their deadline; RunEnds, which adds that goroutines     *)
(* run and deadlines pass, rests on it.                                               *)
THEOREM AccountsAreBounded == Spec => AccountGetsShorter
<1>1. Typed /\ [Next]_vars => [Shorter]_vars
  BY ShorterStep
<1> QED
  BY <1>1, TypedInit, TypedStep, PTL DEF Spec, AccountGetsShorter, Shorter
===============================================================================
