---------------------------- MODULE LoadTestRunner ----------------------------
(***************************************************************************)
(* The load-test runner and the scenarios it takes from files or the database. *)
(*                                                                          *)
(* Run starts a pool of workers, feeds them the accounts through a channel,   *)
(* closes it, and collects the results of the accounts until the channel of   *)
(* results is closed, which a goroutine does when every worker has returned.   *)
(* A worker runs the steps of an account in order: a condition may skip a step, *)
(* placeholders are replaced by the variables saved so far, and a request that  *)
(* fails or answers with the wrong status is retried until a deadline and a    *)
(* count.                                                                    *)
(*                                                                          *)
(* All workers share one map of variables without a lock.  Two of them that     *)
(* touch it at once, one writing, race: Go may stop the process, or entries,     *)
(* whosever they are, may get lost.  The map is keyed by the name of the          *)
(* account, and a list may hold a name twice.                                 *)
(*                                                                          *)
(* Time is abstracted to the deadline of a step, which passes sooner or later.  *)
(***************************************************************************)
EXTENDS Naturals, Sequences, FiniteSets

CONSTANTS
    Names,      \* of accounts
    Vars,       \* variables, the credentials of the account among them
    Own,        \* the credentials: username and password
    NoVar,      \* an empty condition
    MaxWorkers, \* bound: the largest concurrency of a file
    Lists,      \* lists of accounts, by name
    StepLists,  \* lists of steps
    Nil,        \* no entry in the map of variables
    MaxTries    \* bound: the largest max_retry_times

ASSUME VarAssumption == Own \subseteq Vars /\ NoVar \notin Vars
ASSUME ListAssumption == Lists \subseteq Seq(Names)
ASSUME BoundsAssumption == MaxWorkers \in Nat \ {0} /\ MaxTries \in Nat \ {0}

Workers == 1..MaxWorkers

VARIABLES
    run,        \* the run: its phase, scenario and accounts
    feeder,     \* Run: sends the accounts, closes accountChan, collects
    taken,      \* the accounts received from accountChan, a prefix of those sent
    worker,     \* the workers
    globalVars, \* the variables by name of the account
    resultChan, resultClosed,
    result      \* LoadTestResult

pool    == <<feeder, taken>>
results == <<resultChan, resultClosed, result>>
vars    == <<run, pool, worker, globalVars, results>>

\* A variable of a condition is "yes" or "no"; elsewhere only its presence counts.
Values == {"unset", "yes", "no"}
Steps  == [curl : BOOLEAN, valid : BOOLEAN, path : SUBSET Vars, rest : SUBSET Vars,
           condition : Vars \cup {NoVar}, saves : SUBSET Vars,
           retry : BOOLEAN, max : 0..MaxTries, expect : BOOLEAN]

ASSUME StepAssumption == StepLists \subseteq Seq(Steps)

Entries == [Vars -> Values]
ASSUME NilAssumption == Nil \notin Entries

Fresh   == [v \in Vars |-> IF v \in Own THEN "yes" ELSE "unset"]

N == Len(run.accounts)
Scenario(steps, concurrency) == [steps |-> steps, concurrency |-> concurrency]

Free == [pc |-> "receive", account |-> 0, step |-> 0, tries |-> 0, late |-> FALSE,
         success |-> FALSE, own |-> Nil, shared |-> FALSE]
Gone == [Free EXCEPT !.pc = "exit"]
NoResult == [accounts |-> <<>>, success |-> 0, failure |-> 0]

NameOf(w) == run.accounts[worker[w].account]
StepOf(w) == run.steps[worker[w].step]

Inner == {"condition", "curl", "build", "send", "save"}
PCs   == {"receive", "init", "report", "exit"} \cup Inner

Locals == [pc : PCs, account : 0..taken, step : 0..Len(run.steps) + 1, tries : 0..MaxTries,
           late : BOOLEAN, success : BOOLEAN, own : Entries \cup {Nil}, shared : BOOLEAN]

Results == [account : 1..N, success : BOOLEAN]

TypeOK ==
    /\ run \in [phase : {"none", "running", "done", "crashed"}, steps : StepLists \cup {<<>>},
                concurrency : Nat, accounts : Lists \cup {<<>>}]
    /\ feeder \in [pc : {"feed", "collect"}, fed : 0..N]
    /\ taken \in 0..feeder.fed
    /\ worker \in [Workers -> Locals]
    /\ \A w \in Workers :
           /\ worker[w].pc \notin {"receive", "exit"} => worker[w].account > 0
           /\ worker[w].pc \in Inner => worker[w].step > 0 /\ worker[w].own # Nil
           /\ worker[w].pc \in Inner \ {"condition"}
                  => /\ worker[w].step <= Len(run.steps)
                     /\ worker[w].tries <= StepOf(w).max
    /\ globalVars \in [Names -> Entries \cup {Nil}]
    /\ resultChan \in Seq(Results)
    /\ resultClosed \in BOOLEAN
    /\ result \in [accounts : Seq(Results), success : Nat, failure : Nat]

Init ==
    /\ run = [phase |-> "none", steps |-> <<>>, concurrency |-> 0, accounts |-> <<>>]
    /\ feeder = [pc |-> "feed", fed |-> 0]
    /\ taken = 0
    /\ worker = [w \in Workers |-> Gone]
    /\ globalVars = [n \in Names |-> Nil]
    /\ resultChan = <<>> /\ resultClosed = FALSE
    /\ result = NoResult

-------------------------------------------------------------------------------
(* The documents of loadtest_scenarios.  Each handler writes one document at once, and a run
   keeps what it has read, so a document is given by the handlers that wrote it. *)

Created(steps, accounts) == [active |-> TRUE, accounts |-> accounts, steps |-> steps]

\* An update keeps the accounts and the steps it leaves empty, but is_active and the
\* description are always written: an update without is_active deactivates.
Updated(doc, steps, accounts, active) ==
    [active   |-> active,
     accounts |-> IF accounts # <<>> THEN accounts ELSE doc.accounts,
     steps    |-> IF steps # <<>> THEN steps ELSE doc.steps]

\* The document has neither the concurrency nor the accounts of the scenario.
ToDomain(s) == Created(s.steps, <<>>)

FromDomain(doc) == Scenario(doc.steps, 0)

Any(set) == set \cup {<<>>}

Written == {Created(steps, accounts) : steps \in StepLists, accounts \in Any(Lists)}
Docs    == Written \cup {Updated(doc, steps, accounts, active) :
                doc \in Written, steps \in Any(StepLists), accounts \in Any(Lists),
                active \in BOOLEAN}

\* A file names its concurrency.
LoadScenarioFromFile(steps, concurrency) == Scenario(steps, concurrency)

-------------------------------------------------------------------------------
(* The pool. *)

Smaller(a, b) == IF a < b THEN a ELSE b

PoolSize_AllAtOnce(s, n) == Smaller(IF s.concurrency <= 0 THEN n ELSE s.concurrency, n)
PoolSize(s, n) == Smaller(IF s.concurrency <= 0 THEN 1 ELSE s.concurrency, n)

\* A process that crashed is started again.
Run(s, accounts) ==
    /\ run.phase # "running"
    /\ run' = [phase |-> "running", steps |-> s.steps, concurrency |-> s.concurrency,
               accounts |-> accounts]
    /\ feeder' = [pc |-> "feed", fed |-> 0]
    /\ taken' = 0
    /\ worker' = [w \in Workers |-> IF w <= PoolSize(s, Len(accounts)) THEN Free ELSE Gone]
    /\ globalVars' = [n \in Names |-> Nil]
    /\ resultChan' = <<>> /\ resultClosed' = FALSE /\ result' = NoResult

\* Of an inactive document and one without accounts there is no run.
RunLoadTest(doc) ==
    /\ doc.active
    /\ doc.accounts # <<>>
    /\ Run(FromDomain(doc), doc.accounts)

\* A file, with the accounts that the caller has.
RunFile(steps, concurrency, accounts) ==
    Run(LoadScenarioFromFile(steps, concurrency), accounts)

\* SaveScenarioToDB and LoadScenarioFromDB.
RunSaved(steps, concurrency, accounts) ==
    Run(FromDomain(ToDomain(LoadScenarioFromFile(steps, concurrency))), accounts)

Running == run.phase = "running"

Send ==
    /\ Running
    /\ feeder.fed < N
    /\ feeder' = [feeder EXCEPT !.fed = @ + 1]
    /\ UNCHANGED <<run, taken, worker, globalVars, results>>

Close ==
    /\ Running
    /\ feeder.pc = "feed"
    /\ feeder.fed = N
    /\ feeder' = [feeder EXCEPT !.pc = "collect"]
    /\ UNCHANGED <<run, taken, worker, globalVars, results>>

Collect ==
    /\ Running
    /\ feeder.pc = "collect"
    /\ resultChan # <<>>
    /\ LET r == Head(resultChan) IN
       result' = [accounts |-> Append(result.accounts, r),
                  success  |-> IF r.success THEN result.success + 1 ELSE result.success,
                  failure  |-> IF r.success THEN result.failure ELSE result.failure + 1]
    /\ resultChan' = Tail(resultChan)
    /\ UNCHANGED <<run, pool, worker, globalVars, resultClosed>>

Wait_OneWorker == \E w \in Workers : worker[w].pc = "exit"
Wait == \A w \in Workers : worker[w].pc = "exit"

CloseResults ==
    /\ Running
    /\ feeder.pc = "collect"
    /\ ~resultClosed
    /\ Wait
    /\ resultClosed' = TRUE
    /\ UNCHANGED <<run, pool, worker, globalVars, resultChan, result>>

Return_NotClosed ==
    /\ Running
    /\ feeder.pc = "collect"
    /\ resultChan = <<>>
    /\ run' = [run EXCEPT !.phase = "done"]
    /\ UNCHANGED <<pool, worker, globalVars, results>>

Return ==
    /\ Running
    /\ feeder.pc = "collect"
    /\ resultClosed
    /\ resultChan = <<>>
    /\ run' = [run EXCEPT !.phase = "done"]
    /\ UNCHANGED <<pool, worker, globalVars, results>>

-------------------------------------------------------------------------------
(* A worker. *)

At(w, pc) == Running /\ worker[w].pc = pc

Move(w, new) ==
    /\ worker' = [worker EXCEPT ![w] = new]
    /\ UNCHANGED <<run, pool, globalVars, results>>

Receive(w) ==
    /\ At(w, "receive")
    /\ taken < feeder.fed
    /\ taken' = taken + 1
    /\ worker' = [worker EXCEPT ![w] = [Free EXCEPT !.pc = "init", !.account = taken + 1]]
    /\ UNCHANGED <<run, feeder, globalVars, results>>

Exit(w) ==
    /\ At(w, "receive")
    /\ feeder.pc = "collect"
    /\ taken = feeder.fed
    /\ Move(w, Gone)

\* The other workers inside an account, and those whose next step uses the map.
Inside(w)   == {u \in Workers \ {w} : worker[u].pc \in Inner}
Touching(w) == {u \in Workers \ {w} : worker[u].pc \in {"init", "condition", "curl", "build", "save"}}

Namesakes(w) == {u \in Inside(w) : NameOf(u) = NameOf(w)}

\* The worker goes on to the first step.  History, read by no action: its first values are
\* the account's own, and it and the workers inside an account of its name share the name.
Begin(w) ==
    worker' = [u \in Workers |->
        IF u = w THEN [worker[w] EXCEPT !.pc = "condition", !.step = 1, !.own = Fresh,
                                        !.shared = Namesakes(w) # {}]
        ELSE IF u \in Namesakes(w) THEN [worker[u] EXCEPT !.shared = TRUE]
        ELSE worker[u]]

StartAccount_Kept(w) ==
    /\ At(w, "init")
    /\ globalVars' = IF globalVars[NameOf(w)] = Nil THEN [globalVars EXCEPT ![NameOf(w)] = Fresh]
                     ELSE globalVars
    /\ Begin(w)
    /\ UNCHANGED <<run, pool, results>>

\* The account gets a map of its own, in place of that of another account of its name.
StartAccount(w) ==
    /\ At(w, "init")
    /\ globalVars' = [globalVars EXCEPT ![NameOf(w)] = Fresh]
    /\ Begin(w)
    /\ UNCHANGED <<run, pool, results>>

Crash == /\ run' = [run EXCEPT !.phase = "crashed"]
         /\ UNCHANGED <<pool, worker, globalVars, results>>

\* A new entry is written while another worker uses the map, or the entry of the account
\* while a worker of the same name uses it: Go stops the process.
Fatal(w) ==
    /\ \/ At(w, "init") /\ Touching(w) # {}
       \/ /\ At(w, "save")
          /\ StepOf(w).saves # {}
          /\ \E u \in Touching(w) : NameOf(u) = NameOf(w)
    /\ Crash

\* Or entries get lost, the new one or those of any accounts.
LoseEntry(w) ==
    /\ At(w, "init")
    /\ Touching(w) # {}
    /\ \E lost \in (SUBSET Names) \ {{}} :
           globalVars' = [n \in Names |-> IF n \in lost THEN Nil
                           ELSE IF n = NameOf(w) THEN Fresh ELSE globalVars[n]]
    /\ Begin(w)
    /\ UNCHANGED <<run, pool, results>>

Value(w, v) == IF globalVars[NameOf(w)] = Nil THEN "unset" ELSE globalVars[NameOf(w)][v]

\* replacePlaceholders: an error names the variables that are missing.
Missing(w, placeholders) == \E v \in placeholders : Value(w, v) = "unset"

Finished(w, success) == [worker[w] EXCEPT !.pc = "report", !.success = success]

NextStep(w) == [worker[w] EXCEPT !.pc = "condition", !.step = @ + 1]

EndSteps(w) ==
    /\ At(w, "condition")
    /\ worker[w].step > Len(run.steps)
    /\ Move(w, Finished(w, TRUE))

\* A missing variable is an error here too, although it is logged as a skip.
EvaluateCondition(w) ==
    /\ At(w, "condition")
    /\ worker[w].step <= Len(run.steps)
    /\ LET value == IF StepOf(w).condition = NoVar THEN "yes" ELSE Value(w, StepOf(w).condition) IN
       Move(w, CASE value = "unset" -> Finished(w, FALSE)
                 [] value = "no"    -> NextStep(w)
                 [] OTHER           -> [worker[w] EXCEPT !.pc = IF StepOf(w).curl THEN "curl" ELSE "build",
                                                         !.tries = 0, !.late = FALSE])

\* The placeholders of a curl command are replaced once, before its first attempt.
ParseCurl(w) ==
    /\ At(w, "curl")
    /\ Move(w, IF Missing(w, StepOf(w).path) \/ ~StepOf(w).valid
               THEN Finished(w, FALSE) ELSE [worker[w] EXCEPT !.pc = "build"])

Placeholders(step) == IF step.curl THEN step.rest ELSE step.path \cup step.rest

\* Variant: the loop of the curl commands does not count.
Counted_NotCurl(w) == IF StepOf(w).max = 0 \/ StepOf(w).curl THEN worker[w].tries
                      ELSE worker[w].tries + 1

\* Attempts without a limit need no count.
Counted(w) == IF StepOf(w).max = 0 THEN 0 ELSE worker[w].tries + 1

\* Those of a request are replaced again at every attempt.
BuildRequest(w) ==
    /\ At(w, "build")
    /\ Move(w, IF Missing(w, Placeholders(StepOf(w))) \/ ~StepOf(w).valid THEN Finished(w, FALSE)
               ELSE [worker[w] EXCEPT !.pc = "send", !.tries = Counted(w)])

Deadline(w) ==
    /\ Running
    /\ worker[w].pc \in {"build", "send"}
    /\ StepOf(w).retry
    /\ ~worker[w].late
    /\ Move(w, [worker[w] EXCEPT !.late = TRUE])

ShouldRetry_NoDeadline(w) ==
    /\ StepOf(w).retry
    /\ StepOf(w).max > 0 => worker[w].tries < StepOf(w).max

ShouldRetry(w) ==
    /\ StepOf(w).retry
    /\ ~worker[w].late
    /\ StepOf(w).max > 0 => worker[w].tries < StepOf(w).max

RetryOrFail(w) ==
    Move(w, IF ShouldRetry(w) THEN [worker[w] EXCEPT !.pc = "build"] ELSE Finished(w, FALSE))

\* The request or the reading of its answer fails.
RequestFails(w) == At(w, "send") /\ RetryOrFail(w)

WrongStatus(w) == At(w, "send") /\ StepOf(w).expect /\ RetryOrFail(w)

GoodAnswer(w) ==
    /\ At(w, "send")
    /\ Move(w, [worker[w] EXCEPT !.pc = "save"])

\* The answer holds some of the variables; the others keep what they have.
Extracted(entry, found) == [v \in Vars |-> IF v \in DOMAIN found THEN found[v] ELSE entry[v]]

SaveVariables(w) ==
    /\ At(w, "save")
    /\ globalVars[NameOf(w)] # Nil
    /\ \E names \in SUBSET StepOf(w).saves : \E found \in [names -> {"yes", "no"}] :
        /\ globalVars' = [globalVars EXCEPT ![NameOf(w)] = Extracted(@, found)]
        /\ worker' = [worker EXCEPT ![w] = [NextStep(w) EXCEPT !.own = Extracted(@, found)]]
        /\ UNCHANGED <<run, pool, results>>

\* With its entry lost, the first variable that is found is assigned into a nil map.
SaveLost(w, found) ==
    /\ At(w, "save")
    /\ globalVars[NameOf(w)] = Nil
    /\ IF found THEN StepOf(w).saves # {} /\ Crash ELSE Move(w, NextStep(w))

\* The channel holds a result for every account.
Report(w) ==
    /\ At(w, "report")
    /\ IF resultClosed THEN Crash
       ELSE /\ Len(resultChan) < N
            /\ resultChan' = Append(resultChan, [account |-> worker[w].account,
                                                 success |-> worker[w].success])
            /\ worker' = [worker EXCEPT ![w] = Free]
            /\ UNCHANGED <<run, pool, globalVars, resultClosed, result>>

-------------------------------------------------------------------------------
WorkerStep(w) ==
    \/ Receive(w) \/ Exit(w)
    \/ StartAccount(w) \/ Fatal(w) \/ LoseEntry(w)
    \/ EndSteps(w) \/ EvaluateCondition(w) \/ ParseCurl(w) \/ BuildRequest(w)
    \/ RequestFails(w) \/ WrongStatus(w) \/ GoodAnswer(w)
    \/ SaveVariables(w) \/ SaveLost(w, TRUE) \/ SaveLost(w, FALSE)
    \/ Report(w)

RunStep == Send \/ Close \/ Collect \/ CloseResults \/ Return

Next ==
    \/ \E doc \in Docs : RunLoadTest(doc)
    \/ \E steps \in StepLists, c \in 0..MaxWorkers, accounts \in Any(Lists) :
           RunFile(steps, c, accounts) \/ RunSaved(steps, c, accounts)
    \/ RunStep
    \/ \E w \in Workers : WorkerStep(w) \/ Deadline(w)

Spec == Init /\ [][Next]_vars

\* Goroutines run, a request comes back within the 30 seconds of the client, and time passes.
Fairness == /\ WF_vars(RunStep)
            /\ \A w \in Workers : WF_vars(WorkerStep(w)) /\ WF_vars(Deadline(w))

FairSpec == Spec /\ Fairness

-------------------------------------------------------------------------------
\* An account whose name no other account in work has reads back what its own answers held,
\* in whatever order the pool works: no token of an earlier or of another account gets into
\* its requests.  The race may take its entry away as a whole, which fails its next
\* placeholder, but only in a run of several accounts with a concurrency.
OwnVariables ==
    Running => \A w \in Workers :
        worker[w].pc \in Inner /\ ~worker[w].shared
            => \/ globalVars[NameOf(w)] = worker[w].own
               \/ globalVars[NameOf(w)] = Nil /\ run.concurrency > 1 /\ N > 1

\* When Run returns, every account has been run and reported exactly once, and the two
\* counters are those of the accounts that succeeded and that failed.
EveryAccountReported ==
    run.phase = "done" =>
        LET won == {i \in 1..N : result.accounts[i].success} IN
        /\ Len(result.accounts) = N
        /\ \A a \in 1..N : \E i \in 1..N : result.accounts[i].account = a
        /\ result.success = Cardinality(won) /\ result.failure = N - Cardinality(won)

\* A worker that reports neither waits for Run to collect, which would add to the time of its
\* account, nor finds the channel closed, which would stop the process.
ReportGetsThrough ==
    \A w \in Workers : worker[w].pc = "report" => ~resultClosed /\ Len(resultChan) < N

\* Only accounts that run at once can take the process down: not those of a document, which
\* has no concurrency, nor a single one.
CrashNeedsConcurrency == run.phase = "crashed" => run.concurrency > 1 /\ N > 1

\* The steps that a worker may still take inside its account: for each step of the scenario
\* its condition, its command, every attempt with its answer, and the saving.
PerStep == 2 * MaxTries + 3
AttemptsLeft(l) == IF run.steps[l.step].max > 0 THEN run.steps[l.step].max - l.tries
                   ELSE IF l.pc = "build" THEN 1 ELSE 0
StepsAfter(l) == Len(run.steps) + 1 - l.step
WorkLeft(l) ==
    CASE l.pc = "init"      -> (Len(run.steps) + 1) * PerStep + 1
      [] l.pc = "condition" -> StepsAfter(l) * PerStep + 2 * MaxTries + 3
      [] l.pc = "curl"      -> StepsAfter(l) * PerStep + 2 * MaxTries + 2
      [] l.pc = "build"     -> StepsAfter(l) * PerStep + 2 * AttemptsLeft(l) + 1
      [] l.pc = "send"      -> StepsAfter(l) * PerStep + 2 * AttemptsLeft(l) + 2
      [] l.pc = "save"      -> StepsAfter(l) * PerStep + 1
      [] OTHER              -> 0

\* Another worker may come in with the same name; the deadline may pass; and until then an
\* attempt without a count may be repeated.
Beside(w)     == \E s \in BOOLEAN : worker'[w] = [worker[w] EXCEPT !.shared = s]
DeadlinePasses(w) == worker'[w] = [worker[w] EXCEPT !.late = TRUE]
TriesAgain(w) == /\ worker[w].pc = "send" /\ StepOf(w).max = 0 /\ ~worker[w].late
                 /\ worker'[w] = [worker[w] EXCEPT !.pc = "build"]

\* Every other step of a worker inside its account uses up some of what the scenario and its
\* counts allow it, until it reports: no account goes round for ever once its deadlines have
\* passed, whatever the server answers and whatever the other workers do to its variables.
AccountGetsShorter ==
    [][\A w \in Workers : worker[w].pc \in Inner \cup {"init"} /\ run' = run =>
          \/ Beside(w) \/ DeadlinePasses(w) \/ TriesAgain(w)
          \/ /\ worker'[w].account = worker[w].account
             /\ 0 <= WorkLeft(worker'[w]) /\ WorkLeft(worker'[w]) < WorkLeft(worker[w])]_vars

\* What Batch calls the accounts nobody has taken, those that workers have, and what was
\* reported: what was collected, followed by what is in the channel.
Left == (taken + 1)..N
Busy == {w \in Workers : worker[w].pc \notin {"receive", "exit"}}
Held == {worker[w].account : w \in Busy}
Log  == result.accounts \o resultChan

Answer == IF run.phase = "done" THEN [success |-> result.success, failure |-> result.failure]
          ELSE [success |-> 0, failure |-> 0]
Sizes  == {Len(accounts) : accounts \in Any(Lists)}

Batches == INSTANCE Batch WITH phase <- run.phase, waiting <- Left, underway <- Held,
                               outcomes <- Log, answer <- Answer

\* The pool with its channels implements Batch: no account is taken by two workers or
\* reported twice, no outcome is lost between the channels, and nothing returns early.
ImplementsBatch == Batches!Spec

\* A run ends: it returns its result, or the race has stopped the process.
RunEnds == Running ~> ~Running
===============================================================================
