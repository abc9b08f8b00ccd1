# A TLA+ verification of mocktool

mocktool answers HTTP and gRPC calls with mocks that administrators set up: a
*feature* has *scenarios*, a scenario has *mock APIs*, and for each feature one
scenario is active, globally or for one account. This directory holds TLA+
modules translated from the Go code, the TLC configurations that check them on
small instances, and proofs, checked by TLAPS, that some of their properties hold
in every instance. `PROJECT.json` lists the runs, the theorems, the source lines
behind each definition, and the hazards the properties are aimed at.

Run `tlc -config <name>.cfg <module>` for a run and `tlapm <module>Proofs.tla`
for the proofs.

## 1. Inventory

| component | code (`src/...`) | state | operations | module |
|---|---|---|---|---|
| scenario activation | `internal/repository/account_scenario.go`, `scenario.go`, `controller/mock_controller.go` 508-608, `tools/handlers_scenarios.go` | MongoDB: `account_scenarios`, `scenarios` | activate, deactivate, set inactive, delete a scenario; lookup by forwarded calls | `ScenarioActivation` |
| forwarding and response cache | `usecase/forwarder.go`, `repository/cache.go`, `mockapi.go`, `mock_controller.go` 798-1256, `tools/handlers_apis.go` | MongoDB: `mock_apis`; Redis: `mocktool:*`; per pod: singleflight | forwarded call; create, update, delete a mock; invalidate; purge at start | `MockForward`, `CallFreshness` |
| sequence counters | `forwarder.go` 277-314, 402-410, `cache.go` 108-120, `mock_controller.go` 1260-1284 | Redis: `mocktool:seq:*` with TTL | count a call, choose a response, reset, expire | `SequenceCounter` |
| load shedding, health | `controller/middleware/load_shedding.go`, `repository/health` | per pod: number of calls, overload flag, last bad latency; monitor's samples | admit, delay or reject a call; monitor MongoDB | `LoadShedding` |
| rate limiter | `repository/ratelimiter`, `middleware/ratelimit.go` | Redis: a sorted set per account or address | allow or reject a call | `RateLimiter`, `SlidingLog` |
| catalog | `mock_controller.go` 209-579, `feature.go`, `scenario.go`, `domain/pagination.go`, `tools/handlers_features.go`, `handlers_scenarios.go` | MongoDB: `features`, `scenarios`, `mock_apis` | create, rename, enable, disable, delete with cascade; paged lists | `Catalog` |
| gRPC mocks | `usecase/grpc_forwarder.go`, `controller/grpc_controller.go`, `mock_controller.go` 1564-1816 | MongoDB: `grpc_mock_apis` | create, import, update, toggle, delete; call with fallback; reflection | `GRPCMock` |
| load-test runner | `usecase/loadtest/`, `controller/loadtest_controller.go` | workers, two channels, a shared map of variables; MongoDB: `loadtest_scenarios` | run a file or a document, retry, save variables, evaluate conditions | `LoadTestRunner`, `Batch`, `Conditions` |
| Slack bot, chat | `cmd/slackbot/`, `internal/chat/handler.go` | queue of events, thread histories, pending confirmations | text, `/mock`, confirm, cancel, chat | `SlackBot`, `Approvals` |
| statistics | `usecase/stats.go` | a table under one mutex | record, snapshot, reset | not modelled |
| MCP server, validation, sanitising, errors, observability, bootstrap, web console, examples | see `PROJECT.json` | none of their own | adapters, formatting, wiring | not modelled |

**How the parts interact.** Any number of pods run the same program. They share
MongoDB and Redis and nothing else. A forwarded call passes load shedding and the
rate limiter, resolves the active scenario (two or three queries), looks up a cache
key `mocktool:<feature>:<scenario>:<account>:<path>:<method>:<hash>`, and on a miss
leads or joins the singleflight of that key in its pod, which reads the mock and
writes the key without TTL. Admin handlers, over HTTP and as tools of the chat, MCP
and Slack front ends, write MongoDB and then delete keys by pattern. No transaction,
lock or unique index joins two store operations: every handler is a sequence of
independent steps, other handlers run between any two of them, each step can fail,
and many errors are dropped.

**What is hard** is therefore (a) interleavings of handlers that check, delete and
insert; (b) a fetch that read before a write and fills the cache after the
invalidation; (c) failures halfway, and errors nobody looks at; (d) the sharing of one
fetch by several callers; (e) two-command idioms on Redis; (f) words that are
written together and read apart (health). The list, with lines, is "hazards" in
`PROJECT.json`.

**What makes each part correct.** Activation: one active scenario per feature and
account, lost only to another administrator's action, and global and
account activations keep out of each other's way. Forwarding: answers come from the
call's own scope (or from one whose key reads alike), the cache is fresh once writers and fetches are done, every
caller of a shared fetch is released. Counters: each call gets its own count, a
reset starts over, a counter expires. Shedding: no slot leaks, the limit is
overshot only by races, and whoever is shed is shed for trouble that was there. Rate
limiter: no more than the limit in any window. Catalog: scenarios and mocks belong to a
feature, and a client that pages through a list misses nothing. gRPC: toggles are not
lost, a call finds a mock that was there, reflection finds again what it listed. Bot: a
destructive action runs at most once and only after a confirmation in time, every tool
call is answered before the model is asked again, every turn ends unless a call it makes
never returns. Runner: every account ends with one result, never uses another account's
variables, and the run ends; a condition means what its structure says.

## 2. Modules

Each module has an `MC<module>` with the constants of its instances and, where there
are theorems, a `<module>Proofs`. Variants named `<Definition>_<Change>` are
plausible bugs: replacing the definition by the variant must make TLC find the
property it is listed with under "mutants" violated.

### ScenarioActivation

`mappings`, `scenarios` and `apis` are the collections, `cached` the keys filled by
forwarded calls, `pc`/`arg`/`target` the local state of each handler run. Every
handler (`ActivateScenario`, `ActivateScenarioTool`, `DeactivateScenarioTool`,
`SetScenarioInactiveTool`, `DeleteScenario`, `DeleteScenarioTool`) is an operator
that gives the repository call that follows a given one; the calls themselves are
the actions, named after the repository methods, and each can fail (`Fail`) or have
its error dropped where the code drops it. A forwarded call is the reader:
`FindAccountMapping`, `FindGlobalMapping`, `GetScenario`, `CacheGet`, `FindApi`,
`Fill`. `FindAccountMapping` goes on to the global mapping when it finds none and when its
query fails, as the code does not look at the error; the latter is recorded in `skipped`.
`FallbackExplained` says when the two reads of `GetActiveScenario` answer like one.
`overlap` is a history variable: which runs overlapped which.

### MockForward

Starts where the scenario is known. A key is a *scope* (prefix = feature and
scenario; shape = path, method, hash) and an account. The content of a document is
identified by its last writer, so "stale" is comparable. `docs`, `cached` and
`flight` are MongoDB, Redis and the singleflight groups of the pods; `pc`, `wpc` the
calls and handler runs. One action per store access. The six write handlers share
their actions where their code is the same and differ where it differs: the HTTP
creation does not invalidate, the tool's update re-reads the document to find what
to invalidate, the HTTP update takes the names from its own request, the HTTP deletion
goes on after a failed read. Histories: `dirty` (who changed a prefix since it was
last invalidated), `raced` on fetches and entries, `late`, `skipped`, `ever`.

Abstractions: the scan-and-delete of an invalidation is one step (a key added while
it runs counts as added after it) except that an error leaves any subset; a restart
stands for any process start, whose purge takes the keys of all pods; rendering
differs between hit and miss (headers, body of non-200 answers) and is left out.

The code joins the parts of a key with `:` and escapes none of them (`forwarder.go:163-171`),
so the cache and the singleflight are indexed by what a key *reads like*: `TextOf`, of which
nothing is assumed, gives each key its text, and `Named` gives each prefix the texts that its
pattern matches, also those of longer prefixes. Two keys of one text share entries and
flights; an entry and a fetch carry the scope they were fetched for, so that stale means
stale for that scope. `AnswerFromScope` says that nothing else mixes scopes: an answer is
of a scope that a call with the same text has asked for. The instance has such a pair
(scenario `s` with account `x:a`, scenario `s:x` with account `a`), and a pattern that
matches the keys of both. A name with a `[` has a pattern that need not match its own keys,
which is one of the reasons of `StaleExplained`. Left out: a feature called `seq`, whose cache
keys look like counters. `ScenarioActivation` and `SequenceCounter` take their keys apart
exactly, without this.

`CallFreshness` keeps the steps and adds what the client and an onlooker could have written
down: `since`, what the scopes with the key of a call have had since the call arrived; `behind`, the call
that leads the flight it joined; `excused`, the calls whose cache hit had one of the
reasons to be stale. `AnswerWasCurrent` says how old an answer can be: no older than the
call, or than the call whose fetch it joined, unless it was such a hit. Both exceptions are
real, and TLC finds a counterexample when either is left out of the property. The run
`forward_handlers` is of this module, so that it checks the properties of both.

`FlightsAreAwaited` is what singleflight promises: a fetch runs exactly while a call waits
for it. It is the part of "every call returns" that does not need time: a caller that waits
always has a flight whose next step releases it or brings it nearer to that.

### SequenceCounter

One sequence mock. A flight delivers the same response list to all its callers; each
caller then increments its counter (`Incr`), whose reply can be lost so that the
Redis client sends it again, sets the TTL if it got 1 (`Expire`), and answers with
the first response whose range holds the count. The code leaves the end out of a range,
its description does not (`AnsweredAsDescribed`). Counters are removed by expiry, by
the purge of a starting pod, and by resets, whose SCAN/DEL goes through the keys in
batches. A *life* of a counter is a key and the number of times it has gone away;
the properties speak about lives.

### LoadShedding

`current` is the counter of the middleware, `overloaded` and `latencyOverloaded` the
two words of package `health`, `sum` and `samples` the monitor's list of latencies,
of which the code uses only sum and length. A request is `Arrive` (load and compare),
`TakeSlot` (add), `ReadFlag`, `ReadLatency`, `WakeUp` (end of the delay) and `Leave`
(answer and deferred decrement), or `TurnAway`. The monitor's actions are the outcomes
of a ping; the two stores of `SetLatencyOverloaded` are `FindSlow` and `StoreLatency`.
Histories: `verdict` and `worst` (what the monitor found), `seen` (the verdict at the
flag's load), `overtaken`. Left out: the length of the delay, and real time. The
average of nanoseconds becomes milliseconds by truncation (`Millis`), so an average
just above the threshold may be stored as the threshold itself.

### RateLimiter and SlidingLog

One step is the reading of the clock (`TakeStamp`) and another the script
(`SlidingWindowScript`), which Redis runs atomically: removal, count, insertion, TTL.
`RateLimitMiddleware` is where a request enters; without an account and an address it passes
at once. Between clock and script any number of other scripts run and the clock advances. A script whose
reply is lost (`ReplyLost`) took effect and may run again with its stamp. Expiry is
evaluated when the next script runs (`Expired`), which no caller can tell from an
earlier removal. Histories: `stored`, `onTime`, and `horizon`, the stamp from which
a script is on time.

`SlidingLog` says what a sliding window promises, of a limiter that forgets nothing: it keeps
the stamp of every call it has allowed, denies a call only if the window of its stamp is
full, and allows one only if it is not, unless the stamp lies before a window that has been
closed already. `RateLimiter` implements it under the mapping `Log`, whose log is `stored` and
not the sorted set: neither the removal of old members nor the expiry of the key nor a
repeated script ever changes a verdict on a call that is on time.

### Catalog

`features` and `scenarios` are the collections, `mocks` the names of features that have
mock APIs (what a mock holds is `MockForward`'s), `global` the globally active scenario
by name. `job` is the handler each admin is in, one step per MongoDB operation; `browse`
is a client that reads a list page by page, each page a count and a read. Times of
creation are a clock that two documents may share; a page is any that MongoDB's sort by
time allows, with documents of one time in any order at each read (`First`, `Pages`). Ids are numbers, and a new document
takes the least that nothing holds, since which one makes no difference.

What the code does and the names do not tell: the HTTP creation of a feature looks for
the name, the tool's does not ("Name must be unique" in its description is not enforced);
HTTP looks for the scenario and not for its feature, the tool for the feature and not for
the scenario. Renaming a feature touches its own document. The HTTP deletion ignores every
error on the way, and a look-up that fails counts as a feature without a name, so the
document goes and the rest stays; the tool stops at the first error. The HTTP list of a
feature's scenarios puts the globally active one in front of page 1 (it appears again on
its own page) and turns errors into an empty page. `blamed` is a history: the names for
which one of these is a reason for scenarios or mocks without a feature. Duplicates from
the check-then-insert are in the model without a property of their own: those of mocks,
where the same idiom decides what a call is answered, are `DuplicatesExplained`.

### GRPCMock

`mocks` is the collection; `job` an admin's request between its operations (a toggle's
read and write, an import's documents one by one), `call` a gRPC call between its two
look-ups, `view` what a reflection client has been told. The hash of a body is an
injective name of it, with the one case where the two hashes of the code disagree: `{}`
is stored as the hash of its text and looked up as no body at all
(`grpc_forwarder.go:104-105`), so a mock for `{}` answers no call. An import skips the
validation of a creation, an update of an id that does not exist succeeds. A name that
only an import or an update accepts matters to reflection: `protodesc.NewFile` refuses a
method whose name is empty or no identifier, and `buildServiceFile` puts the methods of all
active mocks of a service into one file, so a single such mock takes the description from
every other (`refused`). `Nameless` are the routes with an empty name, `Describable` those
with names a descriptor may have. A query that fails, or takes longer than its five seconds,
lists nothing or describes nothing (`unread`). `ListedIsFound` is therefore about finding a
service, not about describing it. Histories:
`flipped`, `overlap` (toggles), `steady` and `listed` (mocks nobody wrote to since a call
began or a list was given).

### SlackBot and Approvals

One goroutine takes events from the queue (`queue`) and handles each to its end
(`turn`); Slack delivers an event again that has not been taken, and a mention inside a
thread arrives as two events. A turn is a loop of a model that answers with tool calls
and of the calls; a conversation is abstracted to its calls without answer. A destructive
call of a text is put aside and its token asked for (`pending`, `age`), `/mock` refuses
it, the HTTP chat executes it; the chat shares nothing with the bot and is a turn of its
own mode. Not in conversation memory: the result of a confirmed call, and the turn in
which the model fails. Any thread may confirm any token. The reply to Slack is a step of the
turn (`Reply`). The model, the tools' stores and Slack are called without a deadline, so a
step that waits for one of them (`Waits`) may never come.

`Approvals` says what confirmations promise: a call is decided once, by the first word in
time, and executed at most once and only if approved. `SlackBot` implements it under the
mapping `Promise`, which derives the status of a token from the history of words and its
age. `Budget` counts the steps that a turn may still take, from the iterations that its mode
has left and the calls of the present one; `TurnGetsShorter` says that every step of the turn
uses up some of it and that events and ticks leave the turn alone.

### LoadTestRunner and Batch

`Run` starts a pool, feeds it the accounts and collects results: `feeder`, `taken`,
`resultChan`, whose entries are an account and its success. A worker goes through the steps of an account with the program counter of
`runStep`: condition, parsing of a curl command, building, sending, saving. All workers
share `globalVars` without a lock. A data race on a Go map has no defined outcome: the
runtime may stop the process (`Fatal`), or entries of any accounts may be lost
(`LoseEntry`), the new one included. `own` and `shared` are histories: what the account's own
answers held, and whether another worker has had the same name at the same time.
`OwnVariables` accepts a lost entry, but only in a run where a race was possible, and only
as a whole: what an account under a name of its own finds is never another's. `Deadline` stands for the two limits of time in the code, the deadline of a
step and the 30 s timeout of the client. Documents are operators on what handlers write;
the conversions `ToDomain`/`FromDomain` drop the concurrency and the accounts, so a stored
scenario runs with one worker; a PUT without `is_active` deactivates. The routes are
commented out in `RegisterRoutes` and `ScenarioLoader` has no caller: both are modelled as
the functions they are. What `parseCurl` makes of a text is abstracted to `valid` (the
word after `curl` is its URL, so a command that begins with another flag than `--location`
has that flag for one).

`Batch` says what a load test promises: each account is taken once and reported once,
nothing is returned before all of them are, and what is returned counts what was reported.
`LoadTestRunner` implements it under the mapping `Batches`: the accounts not taken are
those behind `taken`, those under way are what the workers have, and the outcomes are what
was collected followed by what is still in the channel (`Log`). That a crash takes more than
one account at a time is `CrashNeedsConcurrency`. `WorkLeft` counts the steps that a worker
may still take inside its account; `AccountGetsShorter` says that each of them uses some of
it up, except the repetition of an attempt that has no count, which ends with its deadline.

### Conditions

The conditions of load-test steps as token sequences. The code rewrites a condition from
its innermost parentheses outwards and splits `||` before `&&`; `Meaning` reads the same
tokens by their structure. The state is a condition that grows by a token, so all up to
the bound are compared. The definitions are RECURSIVE; there are no theorems about them.
`MCLoadTestRunner` puts this state beside that of the runner, in one run: a text is written
while no run has started, and put away before one does.

## 3. Runs

| run | question | instance | result |
|---|---|---|---|
| `activation_handlers` | where duplicates, lost slots, lost isolation, dangling mappings, surviving cache entries and wrong fallbacks can come from | 3 handler runs, 1 feature, 2 scenarios, 2 accounts | passes |
| `activation_same_name` | "Delete a scenario and all its mock APIs" | 3 runs, 2 features with a same-named scenario each | violated |
| `forward_handlers` | why a key can be stale; from which scope answers come, and how old they can be; where two documents of one scope come from; a fetch runs while somebody waits for it | any three of 2 calls and 2 writers with all six handlers, 2 accounts, 2 prefixes, 3 keys of which 2 read alike | passes |
| `forward_pods` | every call returns | 2 calls, 2 pods, 1 restart, 1 writer, static and sequence mocks | passes |
| `sequence_calls` | counts are dense, a clean reset starts over, counters without TTL | 2 calls, 2 pods, 2 counters, 2 lists, 1 reset, 1 update, 1 resent INCR, 1 restart | passes |
| `sequence_description` | "each entry matches call counts in [from, to]" | 2 calls, 1 pod, 1 counter, responses for 1 to 1 and from 2 on | violated |
| `shedding_requests` | slots are given back and counted exactly; what may exceed the limit; who is shed, and why | 3 requests, 1 slot, 3 successful pings of 3 latencies, any failures, window of 2 | passes |
| `limiter_window` | the limit holds for scripts on time, denials are justified; the script implements `SlidingLog` | 2 requests at a time, 2 accounts or none, limit 2 in a window of 3, clock to 5 | passes |
| `grpc_calls` | toggles, calls and reflection against concurrent admins | 2 admins, 1 caller, 1 reflection client, 2 documents, 2 routes and one with an empty name, 4 kinds of body | passes |
| `slack_turns` | answers to tool calls, the promise of confirmations, how turns end and the bound of their steps | 1 thread, 2 tokens, 2 iterations of 2 calls, queue of 2, tokens that live 1 tick | passes |
| `loadtest_pool` | the pool implements `Batch`; own variables, one result per account, who can stop the process, the end of a run and the bound of an account's steps; conditions are evaluated as their structure says | 2 workers, lists of 2 accounts (once of one name), 3 scenarios of 1 or 2 steps; all conditions of up to 7 tokens over 5 words and 4 comparisons | passes |
| `catalog_admins` | orphans have a cause, a paging client misses nothing | 2 admins, 2 names, 3 features, 2 scenarios, 4 handler calls, pages of 1 and 2 | passes |

The violations are recorded as findings in `PROJECT.json`, with the sentences they
contradict: a scenario's deletion takes the mocks of other features along, and a sequence
response does not answer the call that its range names as the last. Other sentences the code does not keep are visible as
provisos of properties that hold, or were met while modelling:

* "Only 1 active scenario for each feature for each accountId" (`README.md:372`): overlapping
  activations leave two: `DuplicatesOnlyFromOverlap`.
* A deletion says "Cache is invalidated" (`handlers_apis.go:439`), and the design chose to
  invalidate "cache when have any updating" (`README.md:227`): a fetch that read before
  fills the key again, and a PUT takes the names to invalidate from its own request:
  `StaleExplained`.
* `set_scenario_inactive` "is a no-op" for a scenario that is not active
  (`handlers_scenarios.go:254`), but its delete hits whatever has become active since its
  check: `SetInactiveSparesOthers`.
* "Make sure 1 API can response expecting answer for a accountId" (`README.md:390`): two
  keys whose account, path or names hold a `:` can read alike, and then one call is answered
  with the mock of the other: `AnswerFromScope` says that this is the only way.
* "The request_body hash uniquely identifies an entry" (`handlers_apis.go:163`), but the
  check and the insert are two operations: `DuplicatesExplained`.
* "Set TTL only on the first increment so the key eventually expires" (`cache.go:113`), but
  an EXPIRE that fails is never repeated: `MissingTTLExplained`.
* A reset answers "counter reset successfully" (`mock_controller.go:1283`) also when its
  lookup or its scan failed: `CleanResetStartsOver` speaks only of the others.
* "When the latency > warning threadhold the system delay response" (`README.md:282`), but
  the monitor raises the flag for every average above its fixed second, which is also the
  default of the warning, and a raised flag means 503: the delay is reached only after the
  database has recovered, because the latency is never cleared. If it was at least
  `maxLatency`, the recovered system goes on rejecting, until a later slow average below
  `maxLatency` replaces it and is followed by a fast one: `ShedExplained`.
* A sliding window of "sufficient accuracy" (`README.md:270`): calls of one millisecond are
  one member of the set, and late scripts exceed the limit. `OnTimeWithinLimit` counts
  stamps, of scripts on time.
* "Postman and grpcurl can then discover services without a .proto file"
  (`grpc_controller.go:157`), but one mock whose method name an import let through keeps its
  whole service from being described: `ListedIsFound` claims only that it is found.
* "The LLM should not get to keep planning past a confirmation gate"
  (`dispatcher.go:128-130`): the loop stops there, but the thread's memory keeps the call without
  a result, and the next text of the thread sends it to the model: `CallsAreAnswered` exempts
  what was put aside for a confirmation.
* A wildcard of a path matches "one or more" segments (`path.go:10`); the matcher takes
  none as well. Its only caller is commented out, so it is not modelled.

**Bounds.** Handlers and calls are finite sets of runs that each run once, so an
instance with n runs covers every interleaving of up to n of them. The properties
relate at most a pair of runs (two activations, a deletion and the call that fills
after it, a fetch and a write, two callers of a flight); the third run is there to
undo, repeat or hide what the pair did. Two accounts and the global slot distinguish
"this account", "another" and "all"; two features or prefixes distinguish "the same
name elsewhere". Two pods are enough because pods share nothing but the stores.
`MaxRestarts`, `MaxUpdates` and `MaxResends` bound events that could
recur for ever and each of which returns the model to a state of the same kind. In `activation_handlers` the constraint
`MostlyActivations` keeps at least one run a plain activation, and allows one
deletion, one forwarded call or tool deactivation, and one other activation: every
pair of handlers meets, with an activation beside it. `ThreeRuns` does the same for
`forward_handlers`: two calls and one handler already give a leader, a call that joins it after
the change, and one that meets what they left; `ThreeKeys` keeps its calls to the pair of
keys that read alike and one other. The
theorems have none of these bounds on calls, handlers, pods, accounts or scopes.

In `shedding_requests` a third request is needed to overtake one that the second has
already overtaken while the only slot is taken; three pings with a window of two give
every order of verdicts, averages equal to the threshold, just above it, between warning
and maximum, and above the maximum. In `limiter_window` the clock reaches beyond the
window and the TTL; two requests at a time suffice for a script to be late, and the
instance does store a third stamp in a window whose limit is two.

In `grpc_calls` two admins are enough for overlapping toggles and for a write between the
two steps of any reader; two documents give a mock of the call's own body beside one of
every body, two routes let an update move one away, and a third with an empty name keeps its
service from being described. In `slack_turns` two tokens let
one answer put two calls aside; a queue of two holds an event with its redelivery behind a
running turn, and both times to live pass. In `loadtest_pool` a list with one name twice
makes workers share an entry, the scenarios cover a step with an unbounded count of
retries, one with a bound, a condition, a curl command and a request that cannot be
built. Its conditions reach brackets with an operator inside and another outside, on
either side, and every mixture of three operators without brackets. In `catalog_admins` four calls are enough for a creation, a
deletion and a rename that meet it, and a client between them; two scenarios or three
features fill more than one page.

**Deadlock** is checked in every run but `catalog_admins`: an instance whose requests have
all returned stutters. `Catalog` stops at its bound (calls).

**Symmetry** is used for sets of interchangeable values in runs with safety
properties only.

**Fairness.** Three runs state liveness.
* `MockForward!Fairness` is weak fairness of the next step of each call and of each
  flight: a goroutine of a live pod that can run is run by the Go scheduler, and an operation
  on MongoDB or Redis returns a result or an error. That is an assumption about the stores and
  the network: the Redis client has timeouts for reads and writes by default, the MongoDB
  client only limits for connecting and for finding a server (`base.go:39-43`). Nothing is assumed of clients,
  administrators and restarts; a call whose pod restarts ends as failed.
* `SlackBot!FairSpec` is weak fairness of the steps of a turn that wait for nobody
  (`TurnStep /\ ~Waits`): the one goroutine is scheduled. Nothing is assumed of the model, of
  the tools or of Slack: `llm.go:58-65` and `chat/handler.go:51-55` build the client of the
  model with its default, which has no timeout, and `bot.go:193` passes a context without a
  deadline. So `TurnEnds` has a second way out, that the turn waits for ever in one call;
  then nothing else of the bot is handled any more. Users and what the model asks for are
  free.
* `LoadTestRunner!FairSpec` is weak fairness of the collector, of each worker and of each
  deadline: goroutines are scheduled, the HTTP client gives up after its timeout, and
  time passes. Nothing says that a request ever succeeds.

## 4. Proofs

* `ScenarioActivationProofs`: all six invariants of the run and both action properties.
  That two mappings of a slot come from overlapping runs is not inductive: one must know what
  a run sees between its delete and its insert. The invariant adds that any two
  running requests know of each other (`LiveOverlap`), and that between clear and
  create a slot holds only what overlapping runs have inserted
  (`OnlyOverlapSinceClear`). `Places` bounds where each handler can be, `Owned` says whose
  a mapping is; `Paths` is the order of the steps. On these rest `SlotLost`; `Dangling`,
  with `ActivatingSees` (an activation whose scenario went away overlaps the deletion);
  `Freshness`, which follows an API from a deletion to a call about to fill the cache and
  the entry it writes; `AccountsCleared` for global activations; `Sparing`, which uses
  that two mappings of a slot overlap; and `GoesGlobal`, which says that the only way to the
  global read is an empty or a failed query, so that an own mapping seen later is of a run
  that was live at the same time.
* `MockForwardProofs`: `TypeCorrect`; `StaleHasReason`, with `Freshness`, which
  says of fetches on their way to the cache what the property says of the cache: what
  they carry is what MongoDB has, or they are marked as raced, or a writer still owes
  an invalidation; `AnswersStayInScope`, with `Recorded`, which follows a content from
  document to fetch, entry and answer, and with it the call that asked for its scope; `DuplicatesHaveReason`, with `Uniqueness`,
  which says when a creation that has passed its check may insert; and, of `CallFreshness`,
  `AnswersWereCurrent`. Its invariant `Watched` says that every flight has a leader still
  waiting for it, who has seen what the flight found, and that whoever else waits is behind
  that leader (`Led`); for hits it rests on `StaleExplained` itself (`FreshExplains`), and that what a flight or an
  entry holds is in reach of the call (`AskedIsInReach`) on `Recorded`.
  `NobodyIsForgotten` reads `FlightsAreAwaited` off the same invariant: `Led` gives a flight its
  caller, `Awaited` a caller its flight.
* `SequenceCounterProofs`: the three invariants of the passing run and the type invariant. `CountsDense` needs
  `Counting`: no two calls share a count in any life of a counter (`CountsAreUnique`),
  a call has a count exactly when it is past its INCR, of a life that has begun, and no
  unanswered INCR is ahead of its counter. `ResponsesServeShare` (a
  theorem only) says that a response answers no more calls than its range has, in the code's
  reading of the range; it adds `Served` (a reply was chosen by its range) and counts with an
  injection into the range. `ResetIsClean`
  needs `Resetting`: what the scan still has to visit is the only place an old life can
  be, and a life that is over never returns. `MissingTTLHasReason` follows each counter
  from its first call. `NobodyIsForgotten` is the same fact about flights as in `MockForward` (a
  theorem only).
* `MiddlewareProofs`, load shedding: the three invariants of the run, the type invariant, and `TroubleShed`: no request that
  reads the flag while the last verdict is slow or error gets through (a theorem only).
  `OvershootBounded` needs `PassedFits`: a
  request that passed the check and was not overtaken still finds room. `TroubleShed` and
  `ShedHasReason` need that the flag is the last verdict (`FlagIsVerdict`) and that no
  stored latency, nor one about to be stored, exceeds `worst` (`WorstBounds`).
* `MiddlewareProofs`, rate limiter: the two invariants of the run, the refinement,
  `LimiterSpec => ImplementsSlidingLog`, the type invariant, and `ExpirySafe`: what expiry drops
  has left every window (a theorem only). `LimitHolds` needs `WindowKept`: the stamps a
  script on time can still meet in its window are all in the set. Its step for expiry is
  `ExpiryDropsOnlyOld`, which rests on `TTLCovers`, the arithmetic of the rounded TTL.
  The refinement rests on `WindowKept` too: for a script on time the members it counts are the
  stamps of the whole log in its window, so that its verdict is that of a limiter that forgets
  nothing (`VerdictKept`), and what it closes is what has left every window (`PassedClosable`).
* `GRPCMockProofs`: the three invariants of the run and the type invariant. `Toggles`: what a toggle has read is still so, or
  another toggle was under way, and two toggles of one mock know of each other. `Calling`:
  a call whose first look-up found nothing has no steady mock with its own body.
  `Listing`: what reflection listed and nobody touched is still active, so that a second
  request that can query finds it.
* `SlackBotProofs`: both invariants and the refinement, `Spec => ImplementsApprovals`.
  `Balanced`: the calls not yet looked at are the ones without answer that were not put
  aside. `Decided`: a token in the store is undecided, only a confirmed call is executed,
  and it has not been when its turn comes. With these every step is a step of `Approvals`
  or leaves it alone. `TurnsAreBounded` is the action property: it needs `Counted`, that a turn
  is never in an iteration beyond those of its mode and has nothing put aside when it asks the
  model, so that the budget is never negative and an answer stays within its iteration's share.
* `CatalogProofs`: `TypeCorrect` (which needs that only the list of one feature's scenarios
  reads a leading scenario, `LeadOK`) and `OrphansHaveReason`. The property is not
  inductive, since a deletion is underway until its mocks are gone: `ScenariosOwned` says
  that scenarios without a feature wait for a deletion that has not come past the
  scenarios. `BrowsingMissesNothing` holds for any number of documents and pages of any
  size. What the client has skipped says nothing by itself, since every insertion shifts
  the pages: `BrowseInv` says that of each document still to be seen, if no other shares its
  time, at least as many are newer as the client has skipped (`Awaited`). A document comes
  only in front, so the number never shrinks; a page that leaves one out has as many more
  in front of it (`First`); and when the last page has been read, fewer would have to remain
  than have been counted.
* `LoadTestRunnerProofs`: the invariants of the run, the refinement,
  `Spec => ImplementsBatch`, and `ReportsGetThrough`, that a report finds the channel of results
  open and with room, for any number of workers, accounts and steps. `StepKinds` reduces the actions of
  a worker to six kinds: it receives, exits, reports, begins an account, moves inside one or
  dies. `OwnInv` adds to `OwnVariables` that of two workers inside accounts of one name both
  know of it; that a lost entry needs several workers and accounts rests on `Alone`
  (`SeveralTouch`). `Ending` is the order in which channels are closed and the workers return.
  `Alone` says that in a run of one worker every other has exited and the one shares nothing,
  so that no step of it is fatal. `Reporting` counts: workers have different accounts, taken
  are those that workers have and those in the log, and the counters are those of what was
  collected. Two lemmas on sequences, that collecting keeps the log and reporting adds to
  its end, make each kind of step one of `Batch` or a stutter. `AccountsAreBounded` is the
  action property: a step of the scenario that may be tried again has an attempt left, which
  the type invariant is strengthened by (`LocalOK`), so that every stage of a step has less
  work before it than the one it came from (`StageShortens`, `NextShortens`).

Assumptions of the proofs are the named ASSUMEs of the modules: the sets of
constants are disjoint where the code's values are, scenario names are unique
inside a feature (in `ScenarioActivation`, for the scenarios that exist at the start),
bounds are numbers. `NilAssumption` says that the absence of an entry is not an entry.
Nothing is assumed finite but the requests of `LoadShedding` and the documents of `Catalog`,
which are counted.

A type invariant is proved for every module of a component but `Conditions`, and checked by
the run of `Catalog` alone, whose bound on page sizes is more than a type. Only model-checked: liveness
(`EveryCallReturns`, `TurnEnds`, `RunEnds`), which the prover does not reach, and
`ConditionsAreStandard`, which is about recursive operators. Of liveness what can be said
without fairness is proved: no caller waits without a fetch (`FlightsAreAwaited`), a turn
and an account have only so many steps left, and each step leaves fewer (`TurnGetsShorter`,
`AccountGetsShorter`), and a report never waits for room (`ReportsGetThrough`). What remains to TLC is
that the next step is enabled and is taken.

## 5. Composition, and what is not modelled

`LoadShedding` and `RateLimiter` sit in front of `MockForward` and share no state with it;
`MockForward` starts where `ScenarioActivation` has resolved the scenario, and
`ScenarioActivation` has a call of its own, with its cache entries, where the two meet in
a deletion. `Catalog` takes an activation as one step, `ScenarioActivation` takes the
documents as given. The tools of the bot are the handlers of the other modules: what the
bot adds is when and how often they run.

Not modelled:
* the statistics: every operation runs under one mutex, and only the console reads them;
* list and deletion of stored load-test scenarios, and the parsing of curl commands;
* rendering, validation, sanitising, wrapping of errors, metrics, traces and logs, which
  no property is about; the models start from inputs that passed the validation;
* the path matcher, which nothing calls; the MCP server, which passes calls to the
  registry; wiring, the web console, examples, generated code;
* real time: how long a delay or a recovery takes.

One hazard has no property, with the reason in `PROJECT.json`: the ever slower average of
the monitor.

## 6. Plan

Abstract specifications for more components, refined by proof as `Approvals`, `Batch` and
`SlidingLog` are: a register per slot for `ScenarioActivation` and one per scope for `MockForward`, both
under the condition that administrators do not overlap; a counter per life for
`SequenceCounter`.
