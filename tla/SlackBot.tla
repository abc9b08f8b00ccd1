------------------------------- MODULE SlackBot -------------------------------
(***************************************************************************)
(* The Slack bot, and the chat handler of the HTTP API that runs the same     *)
(* loop between a language model and the tools.                             *)
(*                                                                          *)
(* One goroutine takes the events of Slack one after another and handles each *)
(* to its end, the model and the tools included; an event is acknowledged     *)
(* only when it is taken, so Slack may deliver it again while it waits.  A     *)
(* mention inside a thread arrives as two events.  Destructive tools wait for  *)
(* a confirmation under a token that expires; the conversation of a thread is *)
(* kept in memory and expires too.  A chat of the HTTP API runs the same loop  *)
(* without memory and without confirmations; it shares nothing with the bot,   *)
(* so it is a turn of its own mode and not a process of its own.            *)
(*                                                                          *)
(* A conversation is abstracted to the tool calls in it that have no answer.  *)
(***************************************************************************)
EXTENDS Naturals, Sequences, FiniteSets

CONSTANTS
    Threads,
    Tokens,         \* bound: the tokens ever drawn; two draws never coincide
    NoToken,
    MaxIter,        \* LLM_MAX_ITERATIONS
    ChatIter,       \* 5 in the code
    ConfirmTTL,     \* in ticks, like the next
    ThreadMemoryTTL,
    MaxCalls,       \* bound: the tool calls of one answer
    MaxQueue        \* bound: the events that wait

ASSUME TokenAssumption == NoToken \notin Tokens
ASSUME BoundsAssumption == /\ MaxIter \in Nat \ {0} /\ ChatIter \in Nat \ {0}
                           /\ ConfirmTTL \in Nat /\ ThreadMemoryTTL \in Nat
                           /\ MaxCalls \in Nat /\ MaxQueue \in Nat

VARIABLES
    queue,   \* the events that wait
    turn,    \* the event that is being handled
    memory,  \* threadMemory
    pending, \* confirmStore
    age,     \* of the entries of confirmStore and of those that have lapsed
    word,    \* history: the first word said in time about each token
    runs     \* history: how often the call of each token was executed

store == <<pending, age>>
hist  == <<word, runs>>
vars  == <<queue, turn, memory, store, hist>>

Words  == {"confirm", "cancel"}
Modes  == {"text", "mock", "chat"}
Events == [kind : {"text", "mock"}, thread : Threads, token : {NoToken}]
          \cup [kind : Words, thread : Threads, token : Tokens]

ToolKinds == {"safe", "unknown", "destructive"}
Answers   == UNION {[1..n -> ToolKinds] : n \in 1..MaxCalls}

\* The unanswered calls of a conversation, and those among them that were set aside.
Entries == [open : Nat, gated : Nat, age : 0..ThreadMemoryTTL + 1]
NoEntry == [open |-> 0, gated |-> 0, age |-> ThreadMemoryTTL + 1]

Iterations(mode) == IF mode = "chat" THEN ChatIter ELSE MaxIter
Limit == IF MaxIter > ChatIter THEN MaxIter ELSE ChatIter

Idle     == [pc |-> "idle"]
Replying == [pc |-> "reply"]
Turns == {Idle, Replying}
         \cup [pc : {"llm", "tools"}, thread : Threads, mode : Modes, iter : 0..Limit - 1,
               open : Nat, gated : Nat, aside : Nat, calls : Seq(ToolKinds)]
         \cup [pc : {"gate"}, aside : Nat \ {0}]
         \cup [pc : {"run"}, token : Tokens]

TypeOK ==
    /\ queue \in Seq(Events) /\ Len(queue) <= MaxQueue
    /\ turn \in Turns
    /\ memory \in [Threads -> Entries]
    /\ pending \subseteq Tokens
    /\ age \in [Tokens -> 0..ConfirmTTL + 1]
    /\ word \in [Tokens -> Words \cup {"none", "asked"}]
    /\ runs \in [Tokens -> Nat]

Init ==
    /\ queue = <<>>
    /\ turn = Idle
    /\ memory = [th \in Threads |-> NoEntry]
    /\ pending = {}
    /\ age = [t \in Tokens |-> 0]
    /\ word = [t \in Tokens |-> "none"]
    /\ runs = [t \in Tokens |-> 0]

-------------------------------------------------------------------------------
(* Events. *)

Enqueue(es) ==
    /\ Len(queue) + Len(es) <= MaxQueue
    /\ queue' = queue \o es
    /\ UNCHANGED <<turn, memory, store, hist>>

\* A direct message, or a mention outside a thread.
Post(e) == Enqueue(<<e>>)

\* Empty texts and /mock without a contract come to nothing and are left out.  A mention in
\* a thread is both: the mention without its prefix, and the same message with the prefix.
MentionInThread(e) ==
    Enqueue(<<e, [kind |-> "text", thread |-> e.thread, token |-> NoToken]>>)

Redeliver(i) == Enqueue(<<queue[i]>>)

Next_(e) == /\ turn.pc = "idle"
            /\ queue # <<>>
            /\ e = Head(queue)
            /\ queue' = Tail(queue)

-------------------------------------------------------------------------------
(* A turn with the model. *)

Forgotten(m) == m.age > ThreadMemoryTTL

Begin(mode, thread, m) ==
    turn' = [pc |-> "llm", thread |-> thread, mode |-> mode, iter |-> 0,
             open |-> m.open, gated |-> m.gated, aside |-> 0, calls |-> <<>>]

\* Get of threadMemory drops what has expired.
Get == [th \in Threads |-> IF Forgotten(memory[th]) THEN NoEntry ELSE memory[th]]

HandleMessage(kind) ==
    \E e \in Events :
        /\ Next_(e)
        /\ e.kind = kind
        /\ memory' = Get
        /\ Begin(kind, e.thread, Get[e.thread])
        /\ UNCHANGED <<store, hist>>

HandleText        == HandleMessage("text")
HandleMockCommand == HandleMessage("mock")

\* The client sends the conversation; the thread stands for it.
Chat(thread) == turn.pc = "idle" /\ Begin("chat", thread, NoEntry)

HandleChat(thread) == Chat(thread) /\ UNCHANGED <<queue, memory, store, hist>>

Remember ==
    memory' = IF turn.mode = "chat" THEN memory
              ELSE [memory EXCEPT ![turn.thread] =
                       [open |-> turn.open, gated |-> turn.gated, age |-> 0]]

\* The turn is dropped from the conversation, with what its tools have done.
LLMFails ==
    /\ turn.pc = "llm"
    /\ turn' = Replying
    /\ UNCHANGED <<queue, memory, store, hist>>

LLMAnswers ==
    /\ turn.pc = "llm"
    /\ Remember
    /\ turn' = Replying
    /\ UNCHANGED <<queue, store, hist>>

Asked == {t \in Tokens : word[t] # "none"}

\* Bound: there are tokens left for its destructive calls.
LLMCalls(s) ==
    /\ turn.pc = "llm"
    /\ Cardinality({i \in DOMAIN s : s[i] = "destructive"}) <= Cardinality(Tokens \ Asked)
    /\ turn' = [turn EXCEPT !.pc = "tools", !.calls = s, !.open = @ + Len(s)]
    /\ UNCHANGED <<queue, memory, store, hist>>

\* A call gets an answer: its result, its error, or that it is unknown.
Answered  == [turn EXCEPT !.calls = Tail(@), !.open = @ - 1]
PutAside  == [turn EXCEPT !.calls = Tail(@), !.aside = @ + 1, !.gated = @ + 1]

Calling(mode) == /\ turn.pc = "tools"
                 /\ turn.calls # <<>>
                 /\ turn.mode = mode
                 /\ UNCHANGED <<queue, memory, store, hist>>

\* A destructive call of a text is set aside without an answer.
TextCall_UnknownDropped ==
    /\ Calling("text")
    /\ turn' = CASE Head(turn.calls) = "destructive" -> PutAside
                 [] Head(turn.calls) = "unknown"     -> [turn EXCEPT !.calls = Tail(@)]
                 [] OTHER                            -> Answered

TextCall ==
    /\ Calling("text")
    /\ turn' = IF Head(turn.calls) = "destructive" THEN PutAside ELSE Answered

\* In /mock a destructive call is refused.
MockCall == Calling("mock") /\ turn' = Answered

\* A chat executes destructive calls like any other.
ChatCall == Calling("chat") /\ turn' = Answered

ToolsDone == turn.pc = "tools" /\ turn.calls = <<>>

\* The loop ends where a confirmation is needed.
PauseForConfirmation ==
    /\ ToolsDone
    /\ turn.aside > 0
    /\ Remember
    /\ turn' = [pc |-> "gate", aside |-> turn.aside]
    /\ UNCHANGED <<queue, store, hist>>

NextIteration_Uncounted ==
    /\ ToolsDone
    /\ turn.aside = 0
    /\ turn' = [turn EXCEPT !.pc = "llm"]
    /\ UNCHANGED <<queue, memory, store, hist>>

NextIteration_OffByOne ==
    /\ ToolsDone
    /\ turn.aside = 0
    /\ turn.iter < Iterations(turn.mode)
    /\ turn' = [turn EXCEPT !.pc = "llm", !.iter = @ + 1]
    /\ UNCHANGED <<queue, memory, store, hist>>

NextIteration ==
    /\ ToolsDone
    /\ turn.aside = 0
    /\ turn.iter + 1 < Iterations(turn.mode)
    /\ turn' = [turn EXCEPT !.pc = "llm", !.iter = @ + 1]
    /\ UNCHANGED <<queue, memory, store, hist>>

StopAtMaxIter ==
    /\ ToolsDone
    /\ turn.aside = 0
    /\ turn.iter + 1 >= Iterations(turn.mode)
    /\ Remember
    /\ turn' = Replying
    /\ UNCHANGED <<queue, store, hist>>

-------------------------------------------------------------------------------
(* Confirmations. *)

Kept == {t \in pending : age[t] <= ConfirmTTL}

\* Stash: promptConfirm stashes the calls one by one.
Stash(t) ==
    /\ turn.pc = "gate"
    /\ t \notin Asked
    /\ pending' = Kept \cup {t}
    /\ age' = [age EXCEPT ![t] = 0]
    /\ word' = [word EXCEPT ![t] = "asked"]
    /\ turn' = IF turn.aside = 1 THEN Replying ELSE [turn EXCEPT !.aside = @ - 1]
    /\ UNCHANGED <<queue, memory, runs>>

Claim_NotRemoved(t) == pending' = Kept
Claim(t) == pending' = Kept \ {t}

\* The first word about a token that has not lapsed.
InTime(t) == word[t] = "asked" /\ age[t] <= ConfirmTTL

HandleConfirm ==
    \E e \in Events :
        /\ Next_(e)
        /\ e.kind \in Words
        /\ Claim(e.token)
        /\ word' = IF InTime(e.token) THEN [word EXCEPT ![e.token] = e.kind] ELSE word
        /\ age' = IF InTime(e.token) THEN [age EXCEPT ![e.token] = 0] ELSE age
        /\ turn' = IF e.token \in Kept /\ e.kind = "confirm"
                   THEN [pc |-> "run", token |-> e.token] ELSE Replying
        /\ UNCHANGED <<memory, runs>>

\* The tool runs; its result or its error goes to the user, not into the conversation.
InvokeConfirmed ==
    /\ turn.pc = "run"
    /\ runs' = [runs EXCEPT ![turn.token] = @ + 1]
    /\ turn' = Replying
    /\ UNCHANGED <<queue, memory, store, word>>

\* The last thing of a turn: its words go to Slack, or to the client of the chat.  Whether they
\* arrive makes no difference to the bot.
Reply ==
    /\ turn.pc = "reply"
    /\ turn' = Idle
    /\ UNCHANGED <<queue, memory, store, hist>>

Older(n, ttl) == IF n <= ttl THEN n + 1 ELSE n

Tick ==
    /\ age' = [t \in Tokens |-> IF word[t] = "asked" THEN Older(age[t], ConfirmTTL) ELSE age[t]]
    /\ memory' = [th \in Threads |-> [memory[th] EXCEPT !.age = Older(@, ThreadMemoryTTL)]]
    /\ UNCHANGED <<queue, turn, pending, hist>>

-------------------------------------------------------------------------------
UserStep ==
    \/ \E e \in Events : Post(e) \/ MentionInThread(e)
    \/ \E i \in DOMAIN queue : Redeliver(i)

\* What the goroutine does once it has taken an event.
TurnStep ==
    \/ LLMFails
    \/ LLMAnswers
    \/ \E s \in Answers : LLMCalls(s)
    \/ TextCall
    \/ MockCall
    \/ ChatCall
    \/ PauseForConfirmation
    \/ NextIteration
    \/ StopAtMaxIter
    \/ \E t \in Tokens : Stash(t)
    \/ InvokeConfirmed
    \/ Reply

Next ==
    \/ UserStep
    \/ HandleText
    \/ HandleMockCommand
    \/ HandleConfirm
    \/ \E th \in Threads : HandleChat(th)
    \/ TurnStep
    \/ Tick

Spec == Init /\ [][Next]_vars

\* The goroutine is inside a call to the model, to a tool's database or to Slack.  None of the
\* clients is given a timeout, nor the context a deadline: such a call may hang for ever.
Waits ==
    \/ turn.pc \in {"llm", "run", "reply"}
    \/ /\ turn.pc = "tools" /\ turn.calls # <<>>
       /\ \/ Head(turn.calls) = "safe"
          \/ Head(turn.calls) = "destructive" /\ turn.mode = "chat"

\* A goroutine that can run does; nothing is assumed of whom it waits for.
FairSpec == Spec /\ WF_vars(TurnStep /\ ~Waits)

-------------------------------------------------------------------------------
\* What Approvals calls the status of a token.
Status(t) ==
    CASE word[t] = "none"                           -> "fresh"
      [] word[t] = "asked" /\ age[t] <= ConfirmTTL  -> "asked"
      [] word[t] = "asked" /\ age[t] > ConfirmTTL   -> "lapsed"
      [] word[t] = "confirm"                        -> "approved"
      [] word[t] = "cancel"                         -> "cancelled"

Promise == INSTANCE Approvals WITH status <- [t \in Tokens |-> Status(t)], runs <- runs

\* The bot implements Approvals: a destructive call runs at most once and only if the
\* first word that was handled within the time of its token is its confirmation, however
\* often events are delivered and however long they wait behind a slow turn.
ImplementsApprovals == Promise!Spec

\* Every tool call in a conversation that is kept or sent to the model has an answer,
\* except those that were set aside for a confirmation: no path through the loop of a
\* text, of /mock or of a chat leaves one behind.
CallsAreAnswered ==
    /\ \A th \in Threads : memory[th].open = memory[th].gated
    /\ turn.pc = "llm" => turn.open = turn.gated

\* A turn comes to its end whatever the model asks for, unless a call that it makes never
\* returns: from then on it waits, with every event behind it.  It cannot wait again and again,
\* since the loop passes a point where it waits for nobody each time around.
TurnEnds == turn.pc # "idle" ~> (turn.pc = "idle" \/ []Waits)

\* The steps that a turn may still take: an iteration asks the model, looks at every call
\* twice at most (the call, and its confirmation), and goes on or ends; a reply is the last.
PerIteration == 2 * MaxCalls + 3
Budget(t) ==
    CASE t.pc = "idle"  -> 0
      [] t.pc = "reply" -> 1
      [] t.pc = "run"   -> 2
      [] t.pc = "gate"  -> t.aside + 1
      [] t.pc = "tools" -> (Iterations(t.mode) - t.iter - 1) * PerIteration
                           + 2 * Len(t.calls) + t.aside + 2
      [] t.pc = "llm"   -> (Iterations(t.mode) - t.iter) * PerIteration

\* Whatever the model asks for, every step of a turn uses up some of what its mode allows it,
\* and nothing else moves it: a turn has at most PerIteration steps for each iteration, in
\* a text, in /mock and in a chat.
TurnGetsShorter ==
    [][turn.pc # "idle" => IF TurnStep THEN 0 <= Budget(turn') /\ Budget(turn') < Budget(turn)
                                       ELSE turn' = turn]_vars
===============================================================================
