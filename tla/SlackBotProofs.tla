---------------------------- MODULE SlackBotProofs ----------------------------
(***************************************************************************)
(* Proofs about SlackBot, for any threads, tokens, bounds and times to live;   *)
(* among them that it implements Approvals.                                  *)
(***************************************************************************)
EXTENDS SlackBot, SequenceTheorems, TLAPS

(* The calls of an answer that have not been looked at are the ones without answer   *)
(* that were not set aside.                                                   *)
Balanced == turn.pc = "tools" => turn.open = turn.gated + Len(turn.calls)

(* A token in the store is still to be decided; only a confirmed one is executed, and  *)
(* it has not been when its turn comes.                                        *)
Decided ==
    /\ \A t \in pending : word[t] = "asked"
    /\ \A t \in Tokens : runs[t] = 0 \/ (runs[t] = 1 /\ word[t] = "confirm")
    /\ turn.pc = "run" => word[turn.token] = "confirm" /\ runs[turn.token] = 0

Inv == TypeOK /\ Balanced /\ CallsAreAnswered /\ Decided

USE DEF store, hist

-------------------------------------------------------------------------------
(* Types.                                                                   *)

LEMMA AnswerIsSeq ==
    ASSUME NEW s \in Answers
    PROVE  s \in Seq(ToolKinds) /\ Len(s) \in Nat
<1>1. PICK n \in 1..MaxCalls : s \in [1..n -> ToolKinds]
  BY DEF Answers
<1> QED
  BY <1>1, BoundsAssumption, SeqDef

LEMMA TurnTypes ==
    ASSUME TypeOK
    PROVE  /\ turn.pc \in {"idle", "reply", "llm", "tools", "gate", "run"}
           /\ turn.pc \in {"llm", "tools"} =>
                  /\ turn.thread \in Threads /\ turn.mode \in Modes /\ turn.iter \in 0..Limit - 1
                  /\ turn.open \in Nat /\ turn.gated \in Nat /\ turn.aside \in Nat
                  /\ turn.calls \in Seq(ToolKinds)
           /\ turn.pc = "gate" => turn.aside \in Nat \ {0}
           /\ turn.pc = "run" => turn.token \in Tokens
BY DEF TypeOK, Turns, Idle, Replying

Talking == [pc : {"llm", "tools"}, thread : Threads, mode : Modes, iter : 0..Limit - 1,
            open : Nat, gated : Nat, aside : Nat, calls : Seq(ToolKinds)]

LEMMA TalkingTurns ==
    ASSUME TypeOK
    PROVE  /\ turn.pc \in {"llm", "tools"} => turn \in Talking
           /\ Talking \subseteq Turns
BY DEF TypeOK, Turns, Idle, Replying, Talking

LEMMA EventTypes ==
    ASSUME NEW e \in Events
    PROVE  /\ e.kind \in {"text", "mock", "confirm", "cancel"}
           /\ e.thread \in Threads
           /\ e.kind \in Words => e.token \in Tokens
BY DEF Events, Words

LEMMA LimitType == Limit \in Nat \ {0} /\ \A m \in Modes : Iterations(m) <= Limit
BY BoundsAssumption DEF Limit, Iterations

LEMMA Enqueued ==
    ASSUME TypeOK, NEW es \in Seq(Events), Enqueue(es)
    PROVE  queue' \in Seq(Events) /\ Len(queue') <= MaxQueue
BY DEF Enqueue, TypeOK

LEMMA Dequeued ==
    ASSUME TypeOK, NEW e, Next_(e)
    PROVE  queue' \in Seq(Events) /\ Len(queue') <= MaxQueue
<1>1. queue # <<>> /\ queue' = Tail(queue) /\ queue \in Seq(Events) /\ Len(queue) <= MaxQueue
  BY DEF Next_, TypeOK
<1>2. queue' \in Seq(Events) /\ Len(queue') = Len(queue) - 1
  BY <1>1
<1> QED
  BY <1>1, <1>2, BoundsAssumption

LEMMA UserType ==
    ASSUME TypeOK, UserStep
    PROVE  TypeOK'
<1>1. ASSUME NEW e \in Events, Post(e)
      PROVE  TypeOK'
  <2>1. <<e>> \in Seq(Events) /\ Enqueue(<<e>>)
    BY <1>1 DEF Post
  <2> QED
    BY <2>1, Enqueued DEF Enqueue, TypeOK
<1>2. ASSUME NEW e \in Events, MentionInThread(e)
      PROVE  TypeOK'
  <2> DEFINE f == [kind |-> "text", thread |-> e.thread, token |-> NoToken]
  <2>1. f \in Events
    BY EventTypes DEF Events
  <2> HIDE DEF f
  <2>2. <<e, f>> \in Seq(Events) /\ Enqueue(<<e, f>>)
    BY <1>2, <2>1 DEF MentionInThread, f
  <2> QED
    BY <2>2, Enqueued DEF Enqueue, TypeOK
<1>3. ASSUME NEW i \in DOMAIN queue, Redeliver(i)
      PROVE  TypeOK'
  <2>1. queue[i] \in Events
    BY DEF TypeOK
  <2>2. <<queue[i]>> \in Seq(Events) /\ Enqueue(<<queue[i]>>)
    BY <1>3, <2>1 DEF Redeliver
  <2> QED
    BY <2>2, Enqueued DEF Enqueue, TypeOK
<1> QED
  BY <1>1, <1>2, <1>3 DEF UserStep

LEMMA MemoryTypes ==
    ASSUME TypeOK
    PROVE  /\ NoEntry \in Entries
           /\ Get \in [Threads -> Entries]
BY BoundsAssumption DEF TypeOK, NoEntry, Entries, Get

LEMMA BeginType ==
    ASSUME NEW mode \in Modes, NEW thread \in Threads, NEW m \in Entries, Begin(mode, thread, m)
    PROVE  turn' \in Turns
<1>1. m.open \in Nat /\ m.gated \in Nat /\ 0 \in 0..Limit - 1 /\ <<>> \in Seq(ToolKinds)
  BY LimitType DEF Entries
<1> QED
  BY <1>1 DEF Begin, Turns

LEMMA RememberType ==
    ASSUME TypeOK, turn.pc \in {"llm", "tools"}, Remember
    PROVE  memory' \in [Threads -> Entries]
<1>1. [open |-> turn.open, gated |-> turn.gated, age |-> 0] \in Entries
  BY TurnTypes, BoundsAssumption DEF Entries
<1> QED
  BY <1>1 DEF Remember, TypeOK

LEMMA TurnStepType ==
    ASSUME TypeOK, Balanced, TurnStep
    PROVE  TypeOK'
<1>1. CASE LLMFails \/ LLMAnswers
  <2>1. turn' \in Turns /\ memory' \in [Threads -> Entries]
    BY <1>1, RememberType DEF LLMFails, LLMAnswers, Turns, Replying, TypeOK
  <2> QED
    BY <1>1, <2>1 DEF LLMFails, LLMAnswers, TypeOK
<1>2. ASSUME NEW s \in Answers, LLMCalls(s)
      PROVE  TypeOK'
  <2>1. turn.pc = "llm" /\ s \in Seq(ToolKinds) /\ turn.open + Len(s) \in Nat
    BY <1>2, AnswerIsSeq, TurnTypes DEF LLMCalls
  <2>2. turn' = [turn EXCEPT !.pc = "tools", !.calls = s, !.open = @ + Len(s)]
    BY <1>2 DEF LLMCalls
  <2>3. turn' \in Talking
    BY <2>1, <2>2, TalkingTurns DEF Talking
  <2> QED
    BY TalkingTurns, <1>2, <2>3 DEF LLMCalls, TypeOK
<1>3. CASE TextCall \/ MockCall \/ ChatCall
  <2>1. turn.pc = "tools" /\ turn.calls # <<>> /\ UNCHANGED <<queue, memory, store, hist>>
    BY <1>3 DEF TextCall, MockCall, ChatCall, Calling
  <2>2. turn' = PutAside \/ turn' = Answered
    BY <1>3 DEF TextCall, MockCall, ChatCall
  <2>3. /\ Tail(turn.calls) \in Seq(ToolKinds) /\ turn.open - 1 \in Nat
        /\ turn.aside + 1 \in Nat /\ turn.gated + 1 \in Nat
    BY <2>1, TurnTypes DEF Balanced
  <2>4. PutAside \in Turns
    BY <2>1, <2>3, TalkingTurns DEF PutAside, Talking
  <2>5. Answered \in Turns
    BY <2>1, <2>3, TalkingTurns DEF Answered, Talking
  <2> QED
    BY <2>1, <2>2, <2>4, <2>5 DEF TypeOK
<1>4. CASE PauseForConfirmation
  <2>1. turn.pc = "tools" /\ turn.aside \in Nat \ {0}
    BY <1>4, TurnTypes DEF PauseForConfirmation, ToolsDone
  <2>2. turn' \in Turns
    BY <1>4, <2>1 DEF PauseForConfirmation, Turns
  <2>3. memory' \in [Threads -> Entries]
    BY <1>4, <2>1, RememberType DEF PauseForConfirmation
  <2> QED
    BY <1>4, <2>2, <2>3 DEF PauseForConfirmation, TypeOK
<1>5. CASE NextIteration
  <2>1. turn.pc = "tools" /\ turn.iter + 1 \in 0..Limit - 1
    BY <1>5, TurnTypes, LimitType, BoundsAssumption DEF NextIteration, ToolsDone, Iterations
  <2>2. turn' \in Talking
    BY <1>5, <2>1, TalkingTurns DEF NextIteration, Talking
  <2> QED
    BY TalkingTurns, <1>5, <2>2 DEF NextIteration, TypeOK
<1>6. CASE StopAtMaxIter
  <2>1. turn' \in Turns /\ memory' \in [Threads -> Entries]
    BY <1>6, RememberType DEF StopAtMaxIter, ToolsDone, Turns, Replying
  <2> QED
    BY <1>6, <2>1 DEF StopAtMaxIter, TypeOK
<1>7. ASSUME NEW t \in Tokens, Stash(t)
      PROVE  TypeOK'
  <2>1. turn.pc = "gate" /\ turn.aside \in Nat \ {0}
    BY <1>7, TurnTypes DEF Stash
  <2>2. turn' \in Turns
    <3>1. CASE turn.aside = 1
      BY <1>7, <3>1 DEF Stash, Turns, Replying
    <3>2. CASE turn.aside # 1
      <4>1. turn.aside - 1 \in Nat \ {0}
        BY <2>1, <3>2
      <4> QED
        BY <1>7, <2>1, <3>2, <4>1 DEF Stash, TypeOK, Turns, Idle, Replying
    <3> QED
      BY <3>1, <3>2
  <2>3. pending' \subseteq Tokens /\ age' \in [Tokens -> 0..ConfirmTTL + 1]
    BY <1>7, BoundsAssumption DEF Stash, Kept, TypeOK
  <2>4. word' \in [Tokens -> Words \cup {"none", "asked"}]
    BY <1>7 DEF Stash, TypeOK
  <2> QED
    BY <1>7, <2>2, <2>3, <2>4 DEF Stash, TypeOK
<1>8. CASE InvokeConfirmed
  <2>1. turn.token \in Tokens
    BY <1>8, TurnTypes DEF InvokeConfirmed
  <2>2. turn' \in Turns /\ runs' \in [Tokens -> Nat]
    BY <1>8, <2>1 DEF InvokeConfirmed, Turns, Replying, TypeOK
  <2> QED
    BY <1>8, <2>2 DEF InvokeConfirmed, TypeOK
<1>9. CASE Reply
  BY <1>9 DEF Reply, TypeOK, Turns
<1> QED
  BY <1>1, <1>2, <1>3, <1>4, <1>5, <1>6, <1>7, <1>8, <1>9 DEF TurnStep

LEMMA NextType ==
    ASSUME TypeOK, Balanced, Next
    PROVE  TypeOK'
<1>1. CASE HandleText \/ HandleMockCommand
  <2>1. PICK e \in Events, kind \in Modes :
            /\ Next_(e) /\ memory' = Get /\ Begin(kind, e.thread, Get[e.thread])
            /\ UNCHANGED <<store, hist>>
    BY <1>1 DEF HandleText, HandleMockCommand, HandleMessage, Modes
  <2>2. turn' \in Turns
    BY <2>1, EventTypes, MemoryTypes, BeginType
  <2> QED
    BY <2>1, <2>2, Dequeued, MemoryTypes DEF TypeOK
<1>2. CASE HandleConfirm
  <2>1. PICK e \in Events :
            /\ Next_(e)
            /\ e.kind \in Words
            /\ Claim(e.token)
            /\ word' = IF InTime(e.token) THEN [word EXCEPT ![e.token] = e.kind] ELSE word
            /\ age' = IF InTime(e.token) THEN [age EXCEPT ![e.token] = 0] ELSE age
            /\ turn' = IF e.token \in Kept /\ e.kind = "confirm"
                       THEN [pc |-> "run", token |-> e.token] ELSE Replying
            /\ UNCHANGED <<memory, runs>>
    BY <1>2 DEF HandleConfirm
  <2>2. turn' \in Turns
    BY <2>1, EventTypes DEF Turns, Replying
  <2>3. /\ word' \in [Tokens -> Words \cup {"none", "asked"}]
        /\ age' \in [Tokens -> 0..ConfirmTTL + 1]
        /\ pending' \subseteq Tokens
    BY <2>1, EventTypes, BoundsAssumption DEF TypeOK, Claim, Kept
  <2> QED
    BY <2>1, <2>2, <2>3, Dequeued DEF TypeOK
<1>3. ASSUME NEW th \in Threads, HandleChat(th)
      PROVE  TypeOK'
  <2>1. turn' \in Turns
    BY <1>3, MemoryTypes, BeginType DEF HandleChat, Chat, Modes
  <2> QED
    BY <1>3, <2>1 DEF HandleChat, TypeOK
<1>4. CASE Tick
  <2>1. age' \in [Tokens -> 0..ConfirmTTL + 1]
    BY <1>4, BoundsAssumption DEF Tick, Older, TypeOK
  <2>2. memory' \in [Threads -> Entries]
    <3>1. \A n \in 0..ThreadMemoryTTL + 1 : Older(n, ThreadMemoryTTL) \in 0..ThreadMemoryTTL + 1
      BY BoundsAssumption DEF Older
    <3> QED
      BY <1>4, <3>1 DEF Tick, TypeOK, Entries
  <2> QED
    BY <1>4, <2>1, <2>2 DEF Tick, TypeOK
<1> QED
  BY <1>1, <1>2, <1>3, <1>4, UserType, TurnStepType DEF Next

-------------------------------------------------------------------------------
(* Answers.                                                                 *)

(* What the conversations have open is what they have set aside.                *)
MemoryBalanced == \A th \in Threads : memory[th].open = memory[th].gated

LEMMA RememberBalance ==
    ASSUME TypeOK, MemoryBalanced, Remember, turn.mode # "chat" => turn.open = turn.gated
    PROVE  MemoryBalanced'
BY DEF TypeOK, MemoryBalanced, Remember

LEMMA TurnStepBalance ==
    ASSUME TypeOK, Balanced, CallsAreAnswered, TurnStep
    PROVE  Balanced' /\ CallsAreAnswered'
<1>0. MemoryBalanced /\ (turn.pc = "llm" => turn.open = turn.gated)
  BY DEF CallsAreAnswered, MemoryBalanced
<1> SUFFICES /\ MemoryBalanced'
             /\ (turn.pc = "tools" => turn.open = turn.gated + Len(turn.calls))'
             /\ (turn.pc = "llm" => turn.open = turn.gated)'
  BY DEF CallsAreAnswered, Balanced, MemoryBalanced
<1>1. CASE LLMFails \/ LLMAnswers
  <2>1. turn' = Replying /\ MemoryBalanced'
    BY <1>0, <1>1, RememberBalance DEF LLMFails, LLMAnswers, MemoryBalanced
  <2> QED
    BY <2>1 DEF Replying
<1>2. ASSUME NEW s \in Answers, LLMCalls(s)
      PROVE  /\ MemoryBalanced'
             /\ (turn.pc = "tools" => turn.open = turn.gated + Len(turn.calls))'
             /\ (turn.pc = "llm" => turn.open = turn.gated)'
  <2>1. turn \in Talking /\ turn.open = turn.gated /\ s \in Seq(ToolKinds)
    BY <1>0, <1>2, TalkingTurns, AnswerIsSeq DEF LLMCalls
  <2>2. /\ turn'.pc = "tools" /\ turn'.calls = s /\ turn'.open = turn.open + Len(s)
        /\ turn'.gated = turn.gated
    BY <1>2, <2>1 DEF LLMCalls, Talking
  <2> QED
    BY <1>0, <1>2, <2>1, <2>2 DEF LLMCalls, MemoryBalanced
<1>3. CASE TextCall \/ MockCall \/ ChatCall
  <2>1. turn.pc = "tools" /\ turn.calls # <<>> /\ memory' = memory
    BY <1>3 DEF TextCall, MockCall, ChatCall, Calling
  <2>2. turn \in Talking /\ turn.open = turn.gated + Len(turn.calls)
    BY <2>1, TalkingTurns DEF Balanced
  <2>3. /\ Len(Tail(turn.calls)) = Len(turn.calls) - 1 /\ Len(turn.calls) \in Nat
        /\ turn.open \in Nat /\ turn.gated \in Nat
    BY <2>1, <2>2 DEF Talking
  <2>4. turn' = PutAside \/ turn' = Answered
    BY <1>3 DEF TextCall, MockCall, ChatCall
  <2>5. /\ turn'.pc = "tools" /\ turn'.calls = Tail(turn.calls)
        /\ \/ turn'.gated = turn.gated + 1 /\ turn'.open = turn.open
           \/ turn'.gated = turn.gated /\ turn'.open = turn.open - 1
    <3>1. CASE turn' = PutAside
      BY <2>1, <2>2, <3>1 DEF PutAside, Talking
    <3>2. CASE turn' = Answered
      BY <2>1, <2>2, <3>2 DEF Answered, Talking
    <3> QED
      BY <2>4, <3>1, <3>2
  <2>6. turn'.open = turn'.gated + Len(turn'.calls)
    BY <2>2, <2>3, <2>5
  <2> QED
    BY <1>0, <2>1, <2>5, <2>6 DEF MemoryBalanced
<1>4. ASSUME PauseForConfirmation \/ NextIteration \/ StopAtMaxIter
      PROVE  turn \in Talking /\ turn.open = turn.gated
  <2>1. turn.pc = "tools" /\ turn.calls = <<>>
    BY <1>4 DEF PauseForConfirmation, NextIteration, StopAtMaxIter, ToolsDone
  <2>2. turn \in Talking /\ turn.open = turn.gated + Len(turn.calls) /\ Len(turn.calls) = 0
    BY <2>1, TalkingTurns DEF Balanced
  <2> QED
    BY <2>2 DEF Talking
<1>5. CASE PauseForConfirmation \/ StopAtMaxIter
  <2>1. MemoryBalanced'
    BY <1>0, <1>4, <1>5, RememberBalance DEF PauseForConfirmation, StopAtMaxIter
  <2>2. turn'.pc \in {"gate", "reply"}
    BY <1>5 DEF PauseForConfirmation, StopAtMaxIter, Replying
  <2> QED
    BY <2>1, <2>2
<1>6. CASE NextIteration
  <2>1. /\ turn'.pc = "llm" /\ turn'.open = turn.open /\ turn'.gated = turn.gated
        /\ memory' = memory
    BY <1>4, <1>6 DEF NextIteration, Talking
  <2> QED
    BY <1>0, <1>4, <1>6, <2>1 DEF MemoryBalanced
<1>7. ASSUME NEW t \in Tokens, Stash(t) \/ InvokeConfirmed
      PROVE  /\ MemoryBalanced'
             /\ turn'.pc \notin {"tools", "llm"}
  <2>1. turn'.pc \in {"gate", "reply"} /\ memory' = memory
    BY <1>7, TurnTypes DEF Stash, InvokeConfirmed, Idle, Replying, TypeOK, Turns
  <2> QED
    BY <1>0, <2>1 DEF MemoryBalanced
<1>8. CASE InvokeConfirmed
  BY <1>0, <1>8 DEF InvokeConfirmed, Replying, MemoryBalanced
<1>9. CASE Reply
  BY <1>0, <1>9 DEF Reply, Idle, MemoryBalanced
<1> QED
  BY <1>1, <1>2, <1>3, <1>5, <1>6, <1>7, <1>8, <1>9 DEF TurnStep

LEMMA NextBalance ==
    ASSUME TypeOK, Balanced, CallsAreAnswered, Next
    PROVE  Balanced' /\ CallsAreAnswered'
<1>1. CASE UserStep
  BY <1>1 DEF UserStep, Post, MentionInThread, Redeliver, Enqueue, Balanced, CallsAreAnswered
<1>2. CASE HandleText \/ HandleMockCommand
  <2>1. PICK e \in Events, kind \in Modes :
            Next_(e) /\ memory' = Get /\ Begin(kind, e.thread, Get[e.thread])
    BY <1>2 DEF HandleText, HandleMockCommand, HandleMessage, Modes
  <2>2. \A th \in Threads : Get[th].open = Get[th].gated
    BY DEF Get, NoEntry, CallsAreAnswered
  <2>3. turn'.pc = "llm" /\ turn'.open = turn'.gated
    BY <2>1, <2>2, EventTypes DEF Begin
  <2> QED
    BY <2>1, <2>2, <2>3 DEF Balanced, CallsAreAnswered
<1>3. CASE HandleConfirm
  <2>1. memory' = memory /\ turn'.pc \in {"run", "reply"}
    BY <1>3 DEF HandleConfirm, Replying
  <2> QED
    BY <2>1 DEF Balanced, CallsAreAnswered
<1>4. ASSUME NEW th \in Threads, HandleChat(th)
      PROVE  Balanced' /\ CallsAreAnswered'
  BY <1>4 DEF HandleChat, Chat, Begin, NoEntry, Balanced, CallsAreAnswered
<1>5. CASE Tick
  <2>1. /\ turn' = turn
        /\ \A th \in Threads : memory'[th].open = memory[th].open /\ memory'[th].gated = memory[th].gated
    BY <1>5 DEF Tick, TypeOK, Entries
  <2> QED
    BY <2>1 DEF Balanced, CallsAreAnswered
<1> QED
  BY <1>1, <1>2, <1>3, <1>4, <1>5, TurnStepBalance DEF Next

-------------------------------------------------------------------------------
(* Confirmations, and the steps of Approvals that they are.                     *)

Statuses == [t \in Tokens |-> Status(t)]

LEMMA StatusCases ==
    ASSUME TypeOK, NEW t \in Tokens
    PROVE  /\ word[t] = "none" <=> Statuses[t] = "fresh"
           /\ InTime(t) <=> Statuses[t] = "asked"
           /\ word[t] = "asked" /\ age[t] > ConfirmTTL <=> Statuses[t] = "lapsed"
           /\ word[t] = "confirm" <=> Statuses[t] = "approved"
           /\ word[t] = "cancel" <=> Statuses[t] = "cancelled"
<1>1. word[t] \in {"none", "asked", "confirm", "cancel"} /\ age[t] \in Int /\ ConfirmTTL \in Nat
  BY BoundsAssumption DEF TypeOK, Words
<1> QED
  BY <1>1 DEF Statuses, Status, InTime

LEMMA SameStatuses ==
    ASSUME UNCHANGED <<word, age>>
    PROVE  Statuses' = Statuses
BY DEF Statuses, Status

LEMMA SameStatus ==
    ASSUME TypeOK, NEW t \in Tokens, word'[t] = word[t], word[t] = "asked" => age'[t] = age[t]
    PROVE  Statuses'[t] = Statuses[t]
<1>1. word[t] \in {"none", "asked", "confirm", "cancel"} /\ age[t] \in Int /\ ConfirmTTL \in Nat
  BY BoundsAssumption DEF TypeOK, Words
<1> QED
  BY <1>1 DEF Statuses, Status

(* A step that changes neither words nor ages nor executions.                    *)
Silent == UNCHANGED <<word, age, runs>>

LEMMA SilentDecided ==
    ASSUME Decided, Silent, pending' \subseteq pending, turn'.pc = "run" => turn' = turn
    PROVE  Decided'
BY DEF Decided, Silent

LEMMA StashStep ==
    ASSUME TypeOK, Decided, NEW t \in Tokens, Stash(t)
    PROVE  Decided' /\ Promise!Ask(t)
<1>1. /\ word[t] = "none" /\ runs' = runs /\ turn'.pc # "run"
      /\ word' = [word EXCEPT ![t] = "asked"] /\ age' = [age EXCEPT ![t] = 0]
      /\ pending' = Kept \cup {t}
  BY DEF Stash, Asked, Idle, Replying, TypeOK, Turns
<1>2. /\ word'[t] = "asked" /\ age'[t] = 0
      /\ \A u \in Tokens \ {t} : word'[u] = word[u] /\ age'[u] = age[u]
  BY <1>1 DEF TypeOK
<1>3. runs[t] = 0
  BY <1>1 DEF Decided
<1>4. Decided'
  BY <1>1, <1>2, <1>3 DEF Decided, Kept, TypeOK
<1>5. Promise!Ask(t)
  <2>1. Statuses[t] = "fresh" /\ Statuses'[t] = "asked"
    BY <1>1, <1>2, BoundsAssumption, StatusCases DEF Statuses, Status
  <2>2. \A u \in Tokens \ {t} : Statuses'[u] = Statuses[u]
    BY <1>2, SameStatus
  <2>3. Statuses' = [Statuses EXCEPT ![t] = "asked"]
    BY <2>1, <2>2 DEF Statuses
  <2> QED
    BY <1>1, <2>1, <2>3 DEF Promise!Ask, Promise!Move, Statuses
<1> QED
  BY <1>4, <1>5

LEMMA ConfirmStep ==
    ASSUME TypeOK, Decided, HandleConfirm
    PROVE  /\ Decided'
           /\ Silent \/ \E t \in Tokens : Promise!Approve(t) \/ Promise!Cancel(t)
<1>1. PICK e \in Events :
            /\ Next_(e)
            /\ e.kind \in Words
            /\ Claim(e.token)
            /\ word' = IF InTime(e.token) THEN [word EXCEPT ![e.token] = e.kind] ELSE word
            /\ age' = IF InTime(e.token) THEN [age EXCEPT ![e.token] = 0] ELSE age
            /\ turn' = IF e.token \in Kept /\ e.kind = "confirm"
                       THEN [pc |-> "run", token |-> e.token] ELSE Replying
            /\ UNCHANGED <<memory, runs>>
  BY DEF HandleConfirm
<1> DEFINE t == e.token
<1>2. t \in Tokens /\ e.kind \in {"confirm", "cancel"} /\ turn.pc = "idle"
  BY <1>1, EventTypes DEF Words, Next_
<1>3. pending' = Kept \ {t} /\ Kept \subseteq pending
  BY <1>1 DEF Claim, Kept
<1>4. t \in Kept => InTime(t)
  BY DEF Kept, InTime, Decided
<1>5. \A u \in Tokens \ {t} : word'[u] = word[u] /\ age'[u] = age[u]
  BY <1>1, <1>2 DEF TypeOK
<1>6. /\ InTime(t) => word[t] = "asked" /\ word'[t] = e.kind /\ age'[t] = 0
      /\ ~InTime(t) => word' = word /\ age' = age
  BY <1>1, <1>2 DEF TypeOK, InTime
<1>7. Decided'
  <2>1. \A u \in pending' : word'[u] = "asked"
    BY <1>3, <1>5 DEF Decided, TypeOK
  <2>2. \A u \in Tokens : runs'[u] = 0 \/ (runs'[u] = 1 /\ word'[u] = "confirm")
    BY <1>1, <1>5, <1>6 DEF Decided
  <2>3. turn'.pc = "run" => word'[turn'.token] = "confirm" /\ runs'[turn'.token] = 0
    BY <1>1, <1>2, <1>4, <1>6 DEF Decided, Replying
  <2> QED
    BY <2>1, <2>2, <2>3 DEF Decided
<1>8. ASSUME InTime(t)
      PROVE  Promise!Approve(t) \/ Promise!Cancel(t)
  <2> DEFINE to == IF e.kind = "confirm" THEN "approved" ELSE "cancelled"
  <2>1. Statuses[t] = "asked" /\ Statuses'[t] = to
    BY <1>2, <1>6, <1>8, StatusCases DEF Statuses, Status
  <2>2. \A u \in Tokens \ {t} : Statuses'[u] = Statuses[u]
    BY <1>5, SameStatus
  <2>3. Statuses' = [Statuses EXCEPT ![t] = to]
    BY <2>1, <2>2 DEF Statuses
  <2>4. CASE e.kind = "confirm"
    BY <1>1, <2>1, <2>3, <2>4 DEF Promise!Approve, Promise!Move, Statuses
  <2>5. CASE e.kind # "confirm"
    BY <1>1, <2>1, <2>3, <2>5 DEF Promise!Cancel, Promise!Move, Statuses
  <2> QED
    BY <2>4, <2>5
<1>9. ~InTime(t) => Silent
  BY <1>1, <1>6 DEF Silent
<1> QED
  BY <1>2, <1>7, <1>8, <1>9

LEMMA InvokeStep ==
    ASSUME TypeOK, Decided, InvokeConfirmed
    PROVE  Decided' /\ \E t \in Tokens : Promise!Execute(t)
<1> DEFINE t == turn.token
<1>1. /\ turn.pc = "run" /\ t \in Tokens /\ word[t] = "confirm" /\ runs[t] = 0
      /\ runs' = [runs EXCEPT ![t] = @ + 1] /\ turn' = Replying
      /\ UNCHANGED <<word, age, pending>>
  BY TurnTypes DEF InvokeConfirmed, Decided
<1>2. runs' = [runs EXCEPT ![t] = 1]
  BY <1>1 DEF TypeOK
<1>3. runs'[t] = 1 /\ \A u \in Tokens \ {t} : runs'[u] = runs[u]
  BY <1>1, <1>2 DEF TypeOK
<1>4. Decided'
  BY <1>1, <1>3 DEF Decided, Replying
<1>5. Statuses[t] = "approved" /\ Statuses' = Statuses
  BY <1>1, StatusCases, SameStatuses
<1>6. Promise!Execute(t)
  BY <1>1, <1>2, <1>5 DEF Promise!Execute, Statuses
<1> QED
  BY <1>1, <1>4, <1>6

LEMMA TickStep ==
    ASSUME TypeOK, Decided, Tick
    PROVE  Decided' /\ \E S \in SUBSET Tokens : Promise!Lapse(S)
<1> DEFINE S == {t \in Tokens : word[t] = "asked" /\ age[t] = ConfirmTTL}
<1>1. UNCHANGED <<turn, pending, word, runs>>
  BY DEF Tick
<1>2. Decided'
  BY <1>1 DEF Decided
<1>3. \A t \in Tokens : age'[t] = IF word[t] = "asked" THEN Older(age[t], ConfirmTTL) ELSE age[t]
  BY DEF Tick
<1>4. \A t \in S : Statuses[t] = "asked" /\ Statuses'[t] = "lapsed"
  BY <1>1, <1>3, BoundsAssumption, StatusCases DEF Older, Statuses, Status, InTime
<1>5. ASSUME NEW t \in Tokens \ S
      PROVE  Statuses'[t] = Statuses[t]
  <2>1. age[t] \in 0..ConfirmTTL + 1 /\ ConfirmTTL \in Nat /\ word'[t] = word[t]
    BY <1>1, BoundsAssumption DEF TypeOK
  <2>2. CASE word[t] = "asked"
    <3>1. age[t] # ConfirmTTL
      BY <2>2
    <3>2. age'[t] <= ConfirmTTL <=> age[t] <= ConfirmTTL
      BY <1>3, <2>1, <2>2, <3>1 DEF Older
    <3>3. age'[t] \in Int
      BY <1>3, <2>1, <2>2 DEF Older
    <3> QED
      BY <2>1, <2>2, <3>2, <3>3 DEF Statuses, Status
  <2>3. CASE word[t] # "asked"
    BY <2>1, <2>3, SameStatus
  <2> QED
    BY <2>2, <2>3
<1>6. Statuses' = [t \in Tokens |-> IF t \in S THEN "lapsed" ELSE Statuses[t]]
  BY <1>4, <1>5 DEF Statuses
<1>7. Promise!Lapse(S)
  BY <1>1, <1>4, <1>6 DEF Promise!Lapse, Statuses
<1> QED
  BY <1>2, <1>7

-------------------------------------------------------------------------------
LEMMA InitInv == Init => Inv
<1> SUFFICES ASSUME Init
             PROVE  Inv
  OBVIOUS
<1>1. queue \in Seq(Events) /\ Len(queue) <= MaxQueue
  BY BoundsAssumption DEF Init
<1>2. TypeOK
  BY <1>1, BoundsAssumption DEF Init, TypeOK, Turns, NoEntry, Entries
<1>3. Balanced /\ CallsAreAnswered /\ Decided
  <2>1. turn.pc = "idle" /\ \A th \in Threads : memory[th].open = 0 /\ memory[th].gated = 0
    BY DEF Init, Idle, NoEntry
  <2>2. pending = {} /\ \A t \in Tokens : runs[t] = 0
    BY DEF Init
  <2> QED
    BY <2>1, <2>2 DEF Balanced, CallsAreAnswered, Decided
<1> QED
  BY <1>2, <1>3 DEF Inv

(* What the other steps do to the words: nothing.                              *)
LEMMA OtherSteps ==
    ASSUME TypeOK, Decided,
           \/ UserStep \/ HandleText \/ HandleMockCommand
           \/ \E th \in Threads : HandleChat(th)
           \/ LLMFails \/ LLMAnswers \/ \E s \in Answers : LLMCalls(s)
           \/ TextCall \/ MockCall \/ ChatCall
           \/ PauseForConfirmation \/ NextIteration \/ StopAtMaxIter \/ Reply
    PROVE  Decided' /\ Silent
<1>1. Silent /\ pending' = pending
  BY DEF UserStep, Post, MentionInThread, Redeliver, Enqueue, HandleText, HandleMockCommand,
         HandleMessage, HandleChat, LLMFails, LLMAnswers, LLMCalls, TextCall, MockCall, ChatCall,
         Calling, PauseForConfirmation, NextIteration, StopAtMaxIter, Reply, Silent
<1>2. turn'.pc = "run" => turn' = turn
  <2>1. CASE UserStep
    BY <2>1 DEF UserStep, Post, MentionInThread, Redeliver, Enqueue
  <2>2. CASE HandleText \/ HandleMockCommand \/ \E th \in Threads : HandleChat(th)
    BY <2>2 DEF HandleText, HandleMockCommand, HandleMessage, HandleChat, Chat, Begin
  <2>3. CASE LLMFails \/ LLMAnswers \/ PauseForConfirmation \/ StopAtMaxIter \/ Reply
    BY <2>3 DEF LLMFails, LLMAnswers, PauseForConfirmation, StopAtMaxIter, Reply, Idle, Replying
  <2>4. CASE (\E s \in Answers : LLMCalls(s)) \/ NextIteration
    <3>1. turn \in Talking
      BY <2>4, TalkingTurns DEF LLMCalls, NextIteration, ToolsDone
    <3>2. turn'.pc \in {"tools", "llm"}
      BY <2>4, <3>1 DEF LLMCalls, NextIteration, Talking
    <3> QED
      BY <3>2
  <2>5. CASE TextCall \/ MockCall \/ ChatCall
    <3>1. turn \in Talking /\ turn.pc = "tools"
      BY <2>5, TalkingTurns DEF TextCall, MockCall, ChatCall, Calling
    <3>2. PutAside.pc = "tools" /\ Answered.pc = "tools"
      BY <3>1 DEF PutAside, Answered, Talking
    <3>3. turn' = PutAside \/ turn' = Answered
      BY <2>5 DEF TextCall, MockCall, ChatCall
    <3> QED
      BY <3>2, <3>3
  <2> QED
    BY <2>1, <2>2, <2>3, <2>4, <2>5
<1> QED
  BY <1>1, <1>2, SilentDecided

(* A step of the bot is a step of Approvals or none.                           *)
LEMMA NextDecided ==
    ASSUME TypeOK, Decided, [Next]_vars
    PROVE  Decided' /\ [Promise!Next]_<<Statuses, runs>>
<1>1. CASE HandleConfirm
  <2>1. Decided' /\ (Silent \/ \E t \in Tokens : Promise!Approve(t) \/ Promise!Cancel(t))
    BY <1>1, ConfirmStep
  <2>2. Silent => UNCHANGED <<Statuses, runs>>
    BY SameStatuses DEF Silent
  <2> QED
    BY <2>1, <2>2 DEF Promise!Next
<1>2. CASE \E t \in Tokens : Stash(t)
  BY <1>2, StashStep DEF Promise!Next
<1>3. CASE InvokeConfirmed
  BY <1>3, InvokeStep DEF Promise!Next
<1>4. CASE Tick
  BY <1>4, TickStep DEF Promise!Next
<1>5. CASE UNCHANGED vars
  BY <1>5, SameStatuses DEF vars, Decided
<1>6. CASE \/ UserStep \/ HandleText \/ HandleMockCommand
           \/ \E th \in Threads : HandleChat(th)
           \/ LLMFails \/ LLMAnswers \/ \E s \in Answers : LLMCalls(s)
           \/ TextCall \/ MockCall \/ ChatCall
           \/ PauseForConfirmation \/ NextIteration \/ StopAtMaxIter \/ Reply
  <2>1. Decided' /\ Silent
    BY <1>6, OtherSteps
  <2> QED
    BY <2>1, SameStatuses DEF Silent
<1> QED
  BY <1>1, <1>2, <1>3, <1>4, <1>5, <1>6 DEF Next, TurnStep

LEMMA NextInv == Inv /\ [Next]_vars => Inv'
<1> SUFFICES ASSUME Inv, [Next]_vars
             PROVE  Inv'
  OBVIOUS
<1>1. CASE Next
  BY <1>1, NextType, NextBalance, NextDecided DEF Inv
<1>2. CASE UNCHANGED vars
  BY <1>2 DEF vars, Inv, TypeOK, Balanced, CallsAreAnswered, Decided
<1> QED
  BY <1>1, <1>2

LEMMA Invariant == Spec => []Inv
BY InitInv, NextInv, PTL DEF Spec

(* The queue, the turn, the memory and the stores always have their types; in particular *)
(* the loop of a turn stays within its iterations.                              *)
THEOREM TypeCorrect == Spec => []TypeOK
BY Invariant, PTL DEF Inv

(* No conversation is kept, or sent to the model, with a call that was neither answered  *)
(* nor set aside for a confirmation, whatever the model asks for.                 *)
THEOREM CallsHaveAnswers == Spec => []CallsAreAnswered
BY Invariant, PTL DEF Inv

(* The bot implements Approvals: a destructive call is executed at most once, and only  *)
(* if the first word handled within the time of its token confirmed it.             *)
THEOREM BotImplementsApprovals == Spec => ImplementsApprovals
<1>1. Init => Promise!Init
  BY BoundsAssumption DEF Init, Promise!Init, Status
<1>2. Inv /\ [Next]_vars => [Promise!Next]_<<Statuses, runs>>
  BY NextDecided DEF Inv
<1> QED
  BY <1>1, <1>2, Invariant, PTL DEF Spec, ImplementsApprovals, Promise!Spec, Statuses

-------------------------------------------------------------------------------
(* The length of a turn.                                                    *)

(* The iteration is one that the mode has, and the model is asked when nothing is  *)
(* set aside.                                                               *)
Counted ==
    /\ turn.pc \in {"llm", "tools"} => turn.iter < Iterations(turn.mode)
    /\ turn.pc = "llm" => turn.aside = 0

(* An iteration more costs more than what one can leave to do.                *)
LEMMA BudgetNumbers ==
    ASSUME NEW a \in Nat, NEW n \in Nat, n <= MaxCalls, a > 0
    PROVE  /\ (a - 1) * PerIteration \in Nat
           /\ (a - 1) * PerIteration + 2 * n + 2 < a * PerIteration
           /\ PerIteration \in Nat
<1>1. PerIteration \in Nat /\ PerIteration = 2 * MaxCalls + 3
  BY BoundsAssumption DEF PerIteration
<1>2. a - 1 \in Nat
  OBVIOUS
<1>3. (a - 1) * PerIteration \in Nat
  BY <1>1, <1>2
<1>4. a * PerIteration = (a - 1) * PerIteration + PerIteration
  BY <1>1, <1>2
<1> QED
  BY <1>1, <1>3, <1>4, BoundsAssumption

LEMMA TurnFacts ==
    ASSUME TypeOK, Counted, turn.pc \in {"llm", "tools"}
    PROVE  /\ turn \in Talking
           /\ Iterations(turn.mode) - turn.iter \in Nat \ {0}
           /\ turn.aside \in Nat /\ Len(turn.calls) \in Nat
<1>1. turn \in Talking
  BY TalkingTurns
<1>2. turn.mode \in Modes /\ turn.iter \in Nat /\ turn.aside \in Nat /\ turn.calls \in Seq(ToolKinds)
  BY <1>1 DEF Talking
<1>3. Iterations(turn.mode) \in Nat
  BY BoundsAssumption DEF Iterations
<1> QED
  BY <1>1, <1>2, <1>3 DEF Counted

(* What a turn of the model and of the calls costs.                           *)
LEMMA TalkingBudget ==
    ASSUME TypeOK, Counted
    PROVE  /\ turn.pc = "llm" =>
                  Budget(turn) = (Iterations(turn.mode) - turn.iter) * PerIteration
           /\ turn.pc = "tools" =>
                  Budget(turn) = (Iterations(turn.mode) - turn.iter - 1) * PerIteration
                                 + 2 * Len(turn.calls) + turn.aside + 2
           /\ turn.pc \in {"llm", "tools"} => Budget(turn) \in Nat \ {0, 1}
<1>1. /\ turn.pc = "llm" =>
             Budget(turn) = (Iterations(turn.mode) - turn.iter) * PerIteration
      /\ turn.pc = "tools" =>
             Budget(turn) = (Iterations(turn.mode) - turn.iter - 1) * PerIteration
                            + 2 * Len(turn.calls) + turn.aside + 2
  BY DEF Budget
<1>2. ASSUME turn.pc \in {"llm", "tools"}
      PROVE  Budget(turn) \in Nat \ {0, 1}
  <2> DEFINE a == Iterations(turn.mode) - turn.iter
             b == (a - 1) * PerIteration
  <2>1. a \in Nat \ {0} /\ turn.aside \in Nat /\ Len(turn.calls) \in Nat
    BY <1>2, TurnFacts
  <2>2. b \in Nat /\ b + 2 < a * PerIteration /\ a * PerIteration \in Nat
    <3>1. 0 <= MaxCalls
      BY BoundsAssumption
    <3> HIDE DEF a
    <3>2. b \in Nat /\ b + 2 * 0 + 2 < a * PerIteration /\ PerIteration \in Nat
      <4>1. a \in Nat /\ a > 0 /\ 0 \in Nat
        BY <2>1
      <4> QED
        BY <3>1, <4>1, BudgetNumbers
    <3>3. a * PerIteration \in Nat
      BY <2>1, <3>2
    <3> HIDE DEF b
    <3> QED
      BY <3>2, <3>3
  <2>3. CASE turn.pc = "llm"
    BY <1>1, <2>2, <2>3
  <2>4. CASE turn.pc = "tools"
    <3>1. Budget(turn) = b + 2 * Len(turn.calls) + turn.aside + 2
      BY <1>1, <2>4
    <3> HIDE DEF b
    <3> QED
      BY <2>1, <2>2, <3>1
  <2> QED
    BY <1>2, <2>3, <2>4
<1> QED
  BY <1>1, <1>2

(* One step of a turn.                                                       *)
LEMMA BudgetStep ==
    ASSUME TypeOK, Counted, TurnStep
    PROVE  Counted' /\ 0 <= Budget(turn') /\ Budget(turn') < Budget(turn)
<1>0. Budget(Replying) = 1 /\ Replying.pc = "reply"
  BY DEF Budget, Replying
<1>1. CASE LLMFails \/ LLMAnswers \/ StopAtMaxIter
  <2>1. turn' = Replying /\ turn.pc \in {"llm", "tools"}
    BY <1>1 DEF LLMFails, LLMAnswers, StopAtMaxIter, ToolsDone
  <2>2. Budget(turn) \in Nat \ {0, 1}
    BY <2>1, TalkingBudget
  <2>3. Counted'
    BY <1>0, <2>1 DEF Counted
  <2> QED
    BY <1>0, <2>1, <2>2, <2>3
<1>2. ASSUME NEW s \in Answers, LLMCalls(s)
      PROVE  Counted' /\ 0 <= Budget(turn') /\ Budget(turn') < Budget(turn)
  <2>1. turn.pc = "llm" /\ turn \in Talking /\ turn.aside = 0
    BY <1>2, TalkingTurns DEF LLMCalls, Counted
  <2>2. /\ turn'.pc = "tools" /\ turn'.calls = s /\ turn'.mode = turn.mode
        /\ turn'.iter = turn.iter /\ turn'.aside = 0
    BY <1>2, <2>1 DEF LLMCalls, Talking
  <2>3. Len(s) \in Nat /\ Len(s) <= MaxCalls
    <3>1. PICK n \in 1..MaxCalls : s \in [1..n -> ToolKinds]
      BY DEF Answers
    <3> QED
      BY <3>1, BoundsAssumption, SeqDef
  <2> DEFINE a == Iterations(turn.mode) - turn.iter
             b == (a - 1) * PerIteration
  <2>4. a \in Nat \ {0} /\ Budget(turn) = a * PerIteration
    BY <2>1, TurnFacts, TalkingBudget
  <2>5. Budget(turn') = b + 2 * Len(s) + 0 + 2
    BY <2>2 DEF Budget
  <2>6. b \in Nat /\ b + 2 * Len(s) + 2 < a * PerIteration
    <3> HIDE DEF a
    <3> QED
      BY <2>3, <2>4, BudgetNumbers
  <2>7. Counted'
    BY <2>1, <2>2 DEF Counted
  <2> HIDE DEF b
  <2> QED
    BY <2>3, <2>4, <2>5, <2>6, <2>7
<1>3. CASE TextCall \/ MockCall \/ ChatCall
  <2>1. turn.pc = "tools" /\ turn.calls # <<>> /\ turn \in Talking
    BY <1>3, TalkingTurns DEF TextCall, MockCall, ChatCall, Calling
  <2>2. turn' = PutAside \/ turn' = Answered
    BY <1>3 DEF TextCall, MockCall, ChatCall
  <2>3. /\ turn'.pc = "tools" /\ turn'.mode = turn.mode /\ turn'.iter = turn.iter
        /\ turn'.calls = Tail(turn.calls) /\ turn'.aside \in {turn.aside, turn.aside + 1}
    BY <2>1, <2>2 DEF PutAside, Answered, Talking
  <2>4. Len(Tail(turn.calls)) = Len(turn.calls) - 1 /\ Len(turn.calls) \in Nat \ {0}
    BY <2>1 DEF Talking
  <2> DEFINE a == Iterations(turn.mode) - turn.iter
             b == (a - 1) * PerIteration
  <2>5. a \in Nat \ {0} /\ turn.aside \in Nat
    BY <2>1, TurnFacts
  <2>6. /\ Budget(turn) = b + 2 * Len(turn.calls) + turn.aside + 2
        /\ Budget(turn') = b + 2 * Len(turn'.calls) + turn'.aside + 2
    BY <2>1, <2>3 DEF Budget
  <2>7. b \in Nat
    <3>1. 0 <= MaxCalls
      BY BoundsAssumption
    <3> HIDE DEF a
    <3> QED
      BY <2>5, <3>1, BudgetNumbers
  <2>8. Counted'
    BY <2>1, <2>3 DEF Counted
  <2> HIDE DEF b
  <2> QED
    BY <2>3, <2>4, <2>5, <2>6, <2>7, <2>8
<1>4. CASE PauseForConfirmation \/ NextIteration
  <2>1. /\ turn.pc = "tools" /\ turn \in Talking /\ turn.calls = <<>> /\ Len(turn.calls) = 0
    BY <1>4, TalkingTurns DEF PauseForConfirmation, NextIteration, ToolsDone
  <2> DEFINE a == Iterations(turn.mode) - turn.iter
             b == (a - 1) * PerIteration
  <2>2. a \in Nat \ {0} /\ turn.aside \in Nat
    BY <2>1, TurnFacts
  <2>3. Budget(turn) = b + 2 * Len(turn.calls) + turn.aside + 2
    BY <2>1 DEF Budget
  <2>4. b \in Nat
    <3>1. 0 <= MaxCalls
      BY BoundsAssumption
    <3> HIDE DEF a
    <3> QED
      BY <2>2, <3>1, BudgetNumbers
  <2>5. CASE PauseForConfirmation
    <3>1. turn'.pc = "gate" /\ turn'.aside = turn.aside
      BY <2>5 DEF PauseForConfirmation
    <3>2. Budget(turn') = turn.aside + 1
      BY <3>1 DEF Budget
    <3>3. Counted'
      BY <3>1 DEF Counted
    <3> HIDE DEF b
    <3> QED
      BY <2>1, <2>2, <2>3, <2>4, <3>2, <3>3
  <2>6. CASE NextIteration
    <3>1. /\ turn'.pc = "llm" /\ turn'.iter = turn.iter + 1 /\ turn'.mode = turn.mode
          /\ turn'.aside = turn.aside /\ turn.aside = 0
          /\ turn.iter + 1 < Iterations(turn.mode)
      BY <2>1, <2>6 DEF NextIteration, Talking
    <3>2. Budget(turn') = (Iterations(turn.mode) - (turn.iter + 1)) * PerIteration
      BY <3>1 DEF Budget
    <3>3. Iterations(turn.mode) - (turn.iter + 1) = a - 1
      BY <2>1, BoundsAssumption DEF Talking, Iterations
    <3>4. Budget(turn') = b
      BY <3>2, <3>3
    <3>5. Counted'
      BY <3>1 DEF Counted
    <3> HIDE DEF b
    <3> QED
      BY <2>1, <2>2, <2>3, <2>4, <3>4, <3>5
  <2> QED
    BY <1>4, <2>5, <2>6
<1>5. ASSUME NEW t \in Tokens, Stash(t)
      PROVE  Counted' /\ 0 <= Budget(turn') /\ Budget(turn') < Budget(turn)
  <2>1. turn.pc = "gate" /\ turn.aside \in Nat \ {0} /\ Budget(turn) = turn.aside + 1
    BY <1>5, TurnTypes DEF Stash, Budget
  <2>2. CASE turn.aside = 1
    <3>1. turn' = Replying
      BY <1>5, <2>2 DEF Stash
    <3>2. Counted'
      BY <1>0, <3>1 DEF Counted
    <3> QED
      BY <1>0, <2>1, <3>1, <3>2
  <2>3. CASE turn.aside # 1
    <3>1. turn' = [turn EXCEPT !.aside = @ - 1]
      BY <1>5, <2>3 DEF Stash
    <3>2. turn \in [pc : {"gate"}, aside : Nat \ {0}]
      BY <2>1 DEF TypeOK, Turns, Idle, Replying
    <3>3. turn'.pc = "gate" /\ turn'.aside = turn.aside - 1
      BY <3>1, <3>2
    <3>4. Budget(turn') = turn'.aside + 1 /\ Counted'
      BY <3>3 DEF Budget, Counted
    <3> QED
      BY <2>1, <2>3, <3>3, <3>4
  <2> QED
    BY <2>2, <2>3
<1>6. CASE InvokeConfirmed
  BY <1>0, <1>6 DEF InvokeConfirmed, Counted, Budget
<1>7. CASE Reply
  BY <1>7 DEF Reply, Idle, Counted, Budget
<1> QED
  BY <1>1, <1>2, <1>3, <1>4, <1>5, <1>6, <1>7 DEF TurnStep

(* No event and no tick touches a turn that is under way.                        *)
LEMMA TurnUntouched ==
    ASSUME TypeOK, Next, ~TurnStep, turn.pc # "idle"
    PROVE  turn' = turn
BY DEF Next, UserStep, Post, MentionInThread, Redeliver, Enqueue, HandleText, HandleMockCommand,
       HandleMessage, HandleConfirm, HandleChat, Chat, Next_, Tick

LEMMA CountedStep ==
    ASSUME TypeOK, Counted, [Next]_vars
    PROVE  Counted'
<1>1. CASE TurnStep
  BY <1>1, BudgetStep
<1>2. CASE Next /\ ~TurnStep /\ turn.pc # "idle"
  BY <1>2, TurnUntouched DEF Counted
<1>3. CASE Next /\ ~TurnStep /\ turn.pc = "idle"
  <2>1. ASSUME NEW mode, NEW thread, NEW m, mode \in Modes, Begin(mode, thread, m)
        PROVE  Counted'
    <3>1. turn'.pc = "llm" /\ turn'.iter = 0 /\ turn'.mode = mode /\ turn'.aside = 0
      BY <2>1 DEF Begin
    <3>2. 0 < Iterations(mode)
      BY BoundsAssumption DEF Iterations
    <3> QED
      BY <3>1, <3>2 DEF Counted
  <2>2. CASE UserStep \/ Tick
    BY <1>3, <2>2 DEF UserStep, Post, MentionInThread, Redeliver, Enqueue, Tick, Counted
  <2>3. CASE HandleText \/ HandleMockCommand
    BY <2>1, <2>3 DEF HandleText, HandleMockCommand, HandleMessage, Modes
  <2>4. CASE HandleConfirm
    <3>1. turn'.pc \in {"reply", "run"}
      BY <1>3, <2>4 DEF HandleConfirm, Replying
    <3> QED
      BY <3>1 DEF Counted
  <2>5. ASSUME NEW th \in Threads, HandleChat(th)
        PROVE  Counted'
    BY <2>1, <2>5 DEF HandleChat, Chat, Modes
  <2> QED
    BY <1>3, <2>2, <2>3, <2>4, <2>5 DEF Next
<1>4. CASE UNCHANGED vars
  BY <1>4 DEF vars, Counted
<1> QED
  BY <1>1, <1>2, <1>3, <1>4

(* Every step of a turn of HandleText, of handleMockCommand or of Chat uses up some   *)
(* of a budget that the maximum of iterations bounds, whatever the model asks for,  *)
(* and no event or tick touches a turn that is under way: the bound of the loop holds *)
(* in every path through it.                                                  *)
THEOREM TurnsAreBounded == Spec => TurnGetsShorter
<1>1. Init => Counted
  BY DEF Init, Idle, Counted
<1>2. Spec => []Counted
  <2>1. TypeOK /\ Counted /\ [Next]_vars => Counted'
    BY CountedStep
  <2>2. Inv => TypeOK
    BY DEF Inv
  <2> QED
    BY <1>1, <2>1, <2>2, Invariant, PTL DEF Spec
<1>3. TypeOK /\ Counted /\ [Next]_vars =>
        [turn.pc # "idle" => IF TurnStep THEN 0 <= Budget(turn') /\ Budget(turn') < Budget(turn)
                                         ELSE turn' = turn]_vars
  BY BudgetStep, TurnUntouched
<1>4. Inv => TypeOK
  BY DEF Inv
<1> QED
  BY <1>2, <1>3, <1>4, Invariant, PTL DEF Spec, TurnGetsShorter
===============================================================================
