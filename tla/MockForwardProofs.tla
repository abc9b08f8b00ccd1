--------------------------- MODULE MockForwardProofs ---------------------------
(***************************************************************************)
(* Proofs about MockForward and CallFreshness, for any number of calls,     *)
(* handlers, pods, accounts and scopes.                                    *)
(***************************************************************************)
EXTENDS CallFreshness, TLAPS

(* What a fetch is about to store is a document.                            *)
SetHasContent == \A f \in Flights :
    (flight[f] # None /\ flight[f].step = "set") => flight[f].found \in Contents

(* A creation has inserted nothing before its insert.                       *)
NotYetInserted == \A w \in Writers :
    wpc[w] \in {"idle", "check", "insert"} => docs[w] = None

(* Each handler is at a step of its own kind.                               *)
StepsOfOp == \A w \in Writers :
    /\ wpc[w] \in {"check", "insert"} => warg[w].op \in CreateOps
    /\ wpc[w] \in {"write", "reread"} => warg[w].op \in UpdateOps
    /\ wpc[w] \in {"find", "remove"}  => warg[w].op \in DeleteOps

Typing == TypeOK /\ SetHasContent /\ NotYetInserted /\ StepsOfOp

-------------------------------------------------------------------------------

USE DEF Goto, WGoto, Forget, writing, Writing

LEMMA InputFields ==
    ASSUME NEW a \in Inputs
    PROVE  /\ a.op \in CreateOps \cup UpdateOps \cup DeleteOps
           /\ a.op \in CreateOps \cup {"updateHTTP"} => a.prefix \in Prefixes
           /\ a.op \in CreateOps \cup UpdateOps => a.shape \in Shapes
           /\ a.op \in UpdateOps \cup DeleteOps => a.doc \in Docs
           /\ a.op \in CreateOps \cup UpdateOps => a.set \in [active : BOOLEAN, seq : BOOLEAN]
BY SettingsAssumption DEF Inputs, CreateOps, UpdateOps, DeleteOps, Initially

(* Where a call is, and what its key reads like.                            *)
LEMMA PlaceType ==
    ASSUME NEW r \in Requests, on[r] \in Places
    PROVE  /\ on[r][2] \in Keys /\ on[r][2].scope \in Scopes
           /\ Text(r) \in Texts /\ FlightOf(r) \in Flights /\ FlightOf(r)[2] = Text(r)
BY TextAssumption DEF Places, Flights, Keys, Text, FlightOf

(* The scopes of entries and fetches.                                       *)
LEMMA ScopesOf ==
    ASSUME TypeOK
    PROVE  /\ \A f \in Flights : flight[f] # None => flight[f] \in Fetch /\ flight[f].scope \in Scopes
           /\ \A t \in Texts : cached[t] # None => /\ cached[t] \in Entry
                                                 /\ cached[t].scope \in Scopes
                                                 /\ cached[t].scope.prefix \in Prefixes
BY DEF TypeOK, Fetch, Entry, Scopes

(* The shape of a change of a document.                                     *)
LEMMA TouchType ==
    ASSUME TypeOK, NEW w \in Writers, NEW d \in Docs, NEW doc \in DocRec \cup {None},
           doc # None => doc.ver \in Writers,
           Touch(w, d, doc)
    PROVE  /\ docs' \in [Docs -> DocRec \cup {None}]
           /\ docs' = [docs EXCEPT ![d] = doc]
           /\ ever' \in [Scopes -> SUBSET Contents]
           /\ dirty' \in [Prefixes -> SUBSET Writers]
           /\ flight' \in [Flights -> Fetch \cup {None}]
           /\ \A f \in Flights :
                 /\ flight'[f] = None <=> flight[f] = None
                 /\ flight[f] # None => /\ flight'[f].scope = flight[f].scope
                                        /\ flight'[f].step = flight[f].step
                                        /\ flight'[f].found = flight[f].found
                                        /\ flight'[f].seq = flight[f].seq
           /\ SetHasContent => SetHasContent'
<1>1. docs' = [docs EXCEPT ![d] = doc]
  BY DEF Touch
<1>2. docs' \in [Docs -> DocRec \cup {None}]
  BY <1>1 DEF TypeOK
<1>3. ever' \in [Scopes -> SUBSET Contents]
  BY DEF Touch, TypeOK, Contents
<1>4. CASE docs[d] = None
  BY <1>1, <1>2, <1>3, <1>4 DEF Touch, TypeOK, SetHasContent
<1>5. CASE docs[d] # None
  <2>1. dirty' \in [Prefixes -> SUBSET Writers]
    BY <1>5 DEF Touch, TypeOK, DocRec, Scopes
  <2>2. \A f \in Flights :
           flight'[f] = IF flight[f] # None /\ flight[f].scope = docs[d].scope
                                            /\ flight[f].step = "set"
                        THEN [flight[f] EXCEPT !.raced = TRUE] ELSE flight[f]
    BY <1>5 DEF Touch
  <2>3. \A f \in Flights : flight[f] # None =>
           [flight[f] EXCEPT !.raced = TRUE] \in Fetch
    <3> TAKE f \in Flights
    <3> HAVE flight[f] # None
    <3>1. flight[f] \in Fetch
      BY DEF TypeOK
    <3> QED
      BY <3>1 DEF Fetch
  <2>4. /\ flight' \in [Flights -> Fetch \cup {None}]
        /\ \A f \in Flights :
                 /\ flight'[f] = None <=> flight[f] = None
                 /\ flight[f] # None => /\ flight'[f].scope = flight[f].scope
                                        /\ flight'[f].step = flight[f].step
                                        /\ flight'[f].found = flight[f].found
                                        /\ flight'[f].seq = flight[f].seq
    BY <1>5, <2>2, <2>3, NoneAssumption DEF Touch, TypeOK, Fetch
  <2>5. SetHasContent => SetHasContent'
    BY <2>4 DEF SetHasContent
  <2> QED
    BY <1>1, <1>2, <1>3, <2>1, <2>4, <2>5
<1> QED
  BY <1>4, <1>5

LEMMA TypeInit == Init => Typing
<1> SUFFICES ASSUME Init PROVE Typing
  OBVIOUS
<1>1. docs \in [Docs -> DocRec \cup {None}]
  <2>1. \A d \in Seeds : [scope |-> SeedScope[d], ver |-> None, set |-> Initially] \in DocRec
    BY SeedAssumption DEF DocRec, Initially
  <2> QED
    BY <2>1 DEF Init
<1>2. ever \in [Scopes -> SUBSET Contents]
  <2>1. \A d \in Docs : docs[d] # None => ContentOf(d) \in Contents
    BY <1>1 DEF ContentOf, Contents, DocRec
  <2> QED
    BY <2>1 DEF Init, Matching
<1>3. NotYetInserted
  BY SeedAssumption DEF Init, NotYetInserted, Docs
<1> QED
  BY <1>1, <1>2, <1>3, MaxAssumption DEF Init, Typing, TypeOK, SetHasContent, StepsOfOp

(* Steps of calls and flights leave the handlers alone.                     *)
LEMMA TypeCall ==
    ASSUME Typing, NEW r \in Requests, Arrive(r) \/ Call(r)
    PROVE  Typing'
<1> USE DEF Typing, TypeOK
<1>1. NotYetInserted' /\ StepsOfOp'
  BY DEF NotYetInserted, StepsOfOp, Arrive, Call, CacheHit, CacheMiss, Do, Incr
<1>2. CASE Arrive(r)
  BY <1>1, <1>2 DEF Arrive, SetHasContent
<1>3. CASE CacheHit(r)
  <2>1. \A t \in Texts : cached[t] # None => cached[t].content \in Contents
    BY DEF Entry
  <2> QED
    BY <1>1, <1>3, <2>1 DEF CacheHit, SetHasContent, Answered
<1>4. CASE CacheMiss(r)
  BY <1>1, <1>4 DEF CacheMiss, SetHasContent
<1>5. CASE Do(r)
  <2>1. FlightOf(r) \in Flights /\ on[r][2].scope \in Scopes
    BY <1>5, PlaceType DEF Do
  <2>2. [scope |-> on[r][2].scope, step |-> "find", found |-> None,
         seq |-> FALSE, raced |-> FALSE] \in Fetch
    BY <2>1 DEF Fetch
  <2>3. flight' \in [Flights -> Fetch \cup {None}]
    BY <1>5, <2>1, <2>2 DEF Do
  <2>4. SetHasContent'
    BY <1>5, <2>1, <2>2 DEF Do, SetHasContent
  <2> QED
    BY <1>1, <1>5, <2>3, <2>4 DEF Do
<1>6. CASE Incr(r)
  BY <1>1, <1>6 DEF Incr, SetHasContent, Answered
<1> QED
  BY <1>2, <1>3, <1>4, <1>5, <1>6 DEF Call

LEMMA MatchingContent ==
    ASSUME TypeOK, NEW s \in Scopes, NEW d \in Matching(s)
    PROVE  d \in Docs /\ docs[d] \in DocRec /\ ContentOf(d) \in Contents /\ docs[d].scope = s
BY DEF Matching, TypeOK, ContentOf, Contents, DocRec

LEMMA TypeFlight ==
    ASSUME Typing, NEW f \in Flights, Fly(f)
    PROVE  Typing'
<1> USE DEF Typing, TypeOK
<1>1. NotYetInserted' /\ StepsOfOp'
  BY DEF NotYetInserted, StepsOfOp, Fly, Find, Set, Return
<1>2. f[2] \in Texts
  BY DEF Flights
<1>3. flight[f] \in Fetch /\ flight[f].scope \in Scopes
  BY ScopesOf DEF Fly, Find, Set, Return
<1>4. CASE Find(f)
  <2>1. ASSUME NEW d \in Matching(flight[f].scope)
        PROVE  [scope |-> flight[f].scope, step |-> IF docs[d].set.seq THEN "return" ELSE "set",
                found |-> ContentOf(d), seq |-> docs[d].set.seq, raced |-> FALSE] \in Fetch
    BY <1>3, MatchingContent DEF Fetch, DocRec
  <2>2. [flight[f] EXCEPT !.step = "return"] \in Fetch
    BY <1>3 DEF Fetch
  <2>3. flight' \in [Flights -> Fetch \cup {None}]
    BY <1>4, <2>1, <2>2 DEF Find
  <2>4. SetHasContent'
    <3>1. ASSUME NEW d \in Matching(flight[f].scope) PROVE ContentOf(d) \in Contents
      BY <1>3, MatchingContent
    <3> QED
      BY <1>3, <1>4, <3>1 DEF Find, SetHasContent, Fetch
  <2> QED
    BY <1>1, <1>4, <2>3, <2>4 DEF Find
<1>5. CASE Set(f)
  <2>1. flight[f].found \in Contents
    BY <1>5 DEF Set, SetHasContent
  <2>2. [scope |-> flight[f].scope, content |-> flight[f].found,
         raced |-> flight[f].raced] \in Entry
    BY <1>3, <2>1 DEF Entry, Fetch
  <2>3. cached' \in [Texts -> Entry \cup {None}]
    BY <1>2, <1>5, <2>2 DEF Set
  <2>4. [flight[f] EXCEPT !.step = "return"] \in Fetch
    BY <1>3 DEF Fetch
  <2>5. SetHasContent'
    BY <1>3, <1>5 DEF Set, SetHasContent, Fetch
  <2> QED
    BY <1>1, <1>5, <2>3, <2>4, <2>5 DEF Set
<1>6. CASE Return(f)
  <2>1. answer' \in [Requests -> Contents \cup {None}]
    BY <1>3, <1>6 DEF Return, Fetch
  <2>2. \A r \in Requests : pc[r] = "wait" => on[r] \in Places
    OBVIOUS
  <2>3. /\ pc' \in [Requests -> {"idle", "get", "do", "wait", "incr"} \cup Answered]
        /\ \A r \in Requests : pc'[r] \in {"get", "do", "wait", "incr", "answered"}
                                  => on'[r] \in Places
    BY <1>6, <2>2 DEF Return, Woken, Answered
  <2>4. flight' \in [Flights -> Fetch \cup {None}] /\ SetHasContent'
    BY <1>6 DEF Return, SetHasContent
  <2> QED
    BY <1>1, <1>6, <2>1, <2>3, <2>4 DEF Return
<1> QED
  BY <1>4, <1>5, <1>6 DEF Fly

LEMMA TypeRestart ==
    ASSUME Typing, NEW p \in Pods, Restart(p)
    PROVE  Typing'
<1> USE DEF Typing, TypeOK
<1>1. NotYetInserted' /\ StepsOfOp'
  BY DEF NotYetInserted, StepsOfOp, Restart
<1>2. cached' \in [Texts -> Entry \cup {None}]
  BY DEF Restart
<1>3. dirty' \in [Prefixes -> SUBSET Writers]
  BY DEF Restart
<1>4. flight' \in [Flights -> Fetch \cup {None}] /\ SetHasContent'
  BY DEF Restart, SetHasContent
<1>5. /\ pc' \in [Requests -> {"idle", "get", "do", "wait", "incr"} \cup Answered]
      /\ \A r \in Requests : pc'[r] \in {"get", "do", "wait", "incr", "answered"}
                                => on'[r] \in Places
  BY DEF Restart, Answered
<1>6. restarts' \in 0..MaxRestarts
  BY MaxAssumption DEF Restart
<1> QED
  BY <1>1, <1>2, <1>3, <1>4, <1>5, <1>6 DEF Restart

(* The documents a handler writes.                                          *)
LEMMA WriteDoc ==
    ASSUME Typing, NEW w \in Writers, wpc[w] = "write", docs[warg[w].doc] # None
    PROVE  /\ warg[w] \in Inputs
           /\ warg[w].op \in UpdateOps
           /\ warg[w].doc \in Docs
           /\ docs[warg[w].doc] \in DocRec
           /\ [scope |-> Moved(warg[w], docs[warg[w].doc].scope), ver |-> w,
               set |-> warg[w].set] \in DocRec
<1>1. warg[w] \in Inputs /\ warg[w].op \in UpdateOps
  BY DEF Typing, TypeOK, StepsOfOp
<1>2. warg[w].doc \in Docs /\ docs[warg[w].doc] \in DocRec
  BY <1>1, InputFields DEF Typing, TypeOK
<1>3. Moved(warg[w], docs[warg[w].doc].scope) \in Scopes
  BY <1>1, <1>2, InputFields DEF Moved, ScopeOf, Scopes, DocRec, UpdateOps
<1> QED
  BY <1>1, <1>2, <1>3, InputFields DEF DocRec

LEMMA InsertDoc ==
    ASSUME Typing, NEW w \in Writers, wpc[w] = "insert"
    PROVE  /\ warg[w] \in Inputs
           /\ warg[w].op \in CreateOps
           /\ docs[w] = None
           /\ ScopeOf(warg[w]) \in Scopes
           /\ [scope |-> ScopeOf(warg[w]), ver |-> w, set |-> warg[w].set] \in DocRec
<1>1. warg[w] \in Inputs /\ warg[w].op \in CreateOps /\ docs[w] = None
  BY DEF Typing, TypeOK, StepsOfOp, NotYetInserted
<1> QED
  BY <1>1, InputFields DEF ScopeOf, Scopes, DocRec

LEMMA RemovedDoc ==
    ASSUME Typing, NEW w \in Writers, wpc[w] \in {"find", "remove"}
    PROVE  warg[w] \in Inputs /\ warg[w].op \in DeleteOps /\ warg[w].doc \in Docs
BY InputFields DEF Typing, TypeOK, StepsOfOp

(* What the typing of a handler's step needs besides its effect.            *)
LEMMA TypeWriter ==
    ASSUME Typing, NEW w \in Writers,
           Begin(w) \/ WFail(w) \/ Check(w) \/ Insert(w) \/ Write(w) \/ Reread(w)
           \/ FindDoc(w) \/ Remove(w) \/ InvalidAllKey(w) \/ InvalidAllKeyError(w)
    PROVE  Typing'
<1> USE DEF Typing, TypeOK
<1> DEFINE WType == /\ wpc \in [Writers -> WLive \cup {"idle", "done", "failed"}]
                    /\ warg \in [Writers -> Inputs \cup {None}]
                    /\ \A v \in Writers : wpc[v] # "idle" => warg[v] \in Inputs
                    /\ plan \in [Writers -> Prefixes \cup {None}]
                    /\ skipped \subseteq Writers
                    /\ late \subseteq Writers
                    /\ StepsOfOp
<1>1. CASE Begin(w)
  <2>1. PICK a \in Inputs : /\ warg' = [warg EXCEPT ![w] = a]
                            /\ wpc' = [wpc EXCEPT ![w] = FirstStep(a)]
    BY <1>1 DEF Begin
  <2>2. FirstStep(a) = IF a.op \in CreateOps THEN "check"
                       ELSE IF a.op \in UpdateOps THEN "write" ELSE "find"
    BY DEF FirstStep
  <2>3. a.op \in CreateOps \cup UpdateOps \cup DeleteOps
    BY InputFields
  <2>4. WType'
    BY <1>1, <2>1, <2>2, <2>3 DEF Begin, StepsOfOp, WLive, CreateOps, UpdateOps, DeleteOps
  <2>5. NotYetInserted'
    BY <1>1, <2>1, <2>2, <2>3 DEF Begin, NotYetInserted
  <2> QED
    BY <1>1, <2>4, <2>5 DEF Begin, SetHasContent
<1>2. CASE WFail(w)
  BY <1>2 DEF WFail, SetHasContent, NotYetInserted, StepsOfOp, WLive
<1>3. CASE Check(w)
  <2>1. WType' /\ NotYetInserted'
    BY <1>3 DEF Check, NotYetInserted, StepsOfOp, WLive
  <2> QED
    BY <1>3, <2>1 DEF Check, SetHasContent
<1>4. CASE Insert(w)
  <2> DEFINE doc == [scope |-> ScopeOf(warg[w]), ver |-> w, set |-> warg[w].set]
  <2>1. wpc[w] = "insert" /\ Touch(w, w, doc) /\ w \in Docs
    BY <1>4 DEF Insert, Docs
  <2>2. warg[w].prefix \in Prefixes /\ doc \in DocRec
    BY <2>1, InsertDoc, InputFields
  <2>3. WType'
    BY <1>4, <2>1, <2>2 DEF Insert, StepsOfOp, WLive
  <2> HIDE DEF doc
  <2>4. doc.ver = w
    BY DEF doc
  <2>5. /\ docs' \in [Docs -> DocRec \cup {None}]
        /\ docs' = [docs EXCEPT ![w] = doc]
        /\ ever' \in [Scopes -> SUBSET Contents]
        /\ dirty' \in [Prefixes -> SUBSET Writers]
        /\ flight' \in [Flights -> Fetch \cup {None}]
        /\ SetHasContent'
    BY <2>1, <2>2, <2>4, TouchType
  <2>6. NotYetInserted'
    BY <1>4, <2>1, <2>5 DEF Insert, NotYetInserted, Docs
  <2> QED
    BY <1>4, <2>3, <2>5, <2>6 DEF Insert
<1>5. CASE Write(w)
  <2> DEFINE d   == warg[w].doc
             doc == [scope |-> Moved(warg[w], docs[d].scope), ver |-> w, set |-> warg[w].set]
  <2>1. /\ wpc[w] = "write" /\ warg[w].op \in UpdateOps
        /\ warg[w].op = "updateHTTP" => warg[w].prefix \in Prefixes
    BY <1>5, InputFields DEF Write, StepsOfOp
  <2>2. WType'
    BY <1>5, <2>1 DEF Write, StepsOfOp, WLive, UpdateOps
  <2>3. CASE docs[d] = None
    BY <1>5, <2>2, <2>3 DEF Write, NotYetInserted, SetHasContent
  <2>4. CASE docs[d] # None
    <3>1. Touch(w, d, doc) /\ d \in Docs /\ doc \in DocRec /\ doc.ver = w
      BY <1>5, <2>1, <2>4, WriteDoc DEF Write
    <3> HIDE DEF doc
    <3>2. /\ docs' \in [Docs -> DocRec \cup {None}]
          /\ docs' = [docs EXCEPT ![d] = doc]
          /\ ever' \in [Scopes -> SUBSET Contents]
          /\ dirty' \in [Prefixes -> SUBSET Writers]
          /\ flight' \in [Flights -> Fetch \cup {None}]
          /\ SetHasContent'
      BY <3>1, TouchType
    <3>3. NotYetInserted'
      <4> HIDE DEF d
      <4>1. \A v \in Writers : wpc[v] \in {"idle", "check", "insert"} => v # d
        BY <2>4 DEF NotYetInserted
      <4> QED
        BY <1>5, <2>1, <3>1, <3>2, <4>1 DEF Write, NotYetInserted, Docs
    <3> QED
      BY <1>5, <2>2, <3>2, <3>3 DEF Write
  <2> QED
    BY <2>3, <2>4
<1>6. CASE Reread(w)
  <2>1. warg[w].doc \in Docs
    BY <1>6, InputFields DEF Reread, StepsOfOp
  <2>2. plan' \in [Writers -> Prefixes \cup {None}]
    BY <1>6, <2>1 DEF Reread, DocRec, Scopes
  <2>3. WType' /\ NotYetInserted'
    BY <1>6, <2>2 DEF Reread, NotYetInserted, StepsOfOp, WLive
  <2> QED
    BY <1>6, <2>3 DEF Reread, SetHasContent
<1>7. CASE FindDoc(w)
  <2>1. wpc[w] = "find" /\ warg[w].doc \in Docs
    BY <1>7, RemovedDoc DEF FindDoc
  <2>2. plan' \in [Writers -> Prefixes \cup {None}]
    BY <1>7, <2>1 DEF FindDoc, DocRec, Scopes
  <2>3. WType' /\ NotYetInserted'
    BY <1>7, <2>2 DEF FindDoc, NotYetInserted, StepsOfOp, WLive
  <2> QED
    BY <1>7, <2>3 DEF FindDoc, SetHasContent
<1>8. CASE Remove(w)
  <2> DEFINE d == warg[w].doc
  <2>1. wpc[w] = "remove" /\ d \in Docs
    BY <1>8, RemovedDoc DEF Remove
  <2>2. WType'
    BY <1>8, <2>1 DEF Remove, StepsOfOp, WLive
  <2>3. CASE UNCHANGED <<docs, ever, dirty, flight>>
    BY <1>8, <2>2, <2>3 DEF Remove, NotYetInserted, SetHasContent
  <2>4. CASE Touch(w, d, None)
    <3>1. /\ docs' \in [Docs -> DocRec \cup {None}]
          /\ docs' = [docs EXCEPT ![d] = None]
          /\ ever' \in [Scopes -> SUBSET Contents]
          /\ dirty' \in [Prefixes -> SUBSET Writers]
          /\ flight' \in [Flights -> Fetch \cup {None}]
          /\ SetHasContent'
      BY <2>1, <2>4, TouchType
    <3>2. NotYetInserted'
      BY <1>8, <2>1, <3>1 DEF Remove, NotYetInserted, Docs
    <3> QED
      BY <1>8, <2>2, <3>1, <3>2 DEF Remove
  <2> QED
    BY <1>8, <2>3, <2>4 DEF Remove
<1>9. CASE InvalidAllKey(w) \/ InvalidAllKeyError(w)
  <2>1. WType' /\ NotYetInserted'
    BY <1>9 DEF InvalidAllKey, InvalidAllKeyError, NotYetInserted, StepsOfOp, WLive
  <2>2. /\ cached' \in [Texts -> Entry \cup {None}]
        /\ dirty' \in [Prefixes -> SUBSET Writers]
    BY <1>9 DEF InvalidAllKey, InvalidAllKeyError
  <2> QED
    BY <1>9, <2>1, <2>2 DEF InvalidAllKey, InvalidAllKeyError, SetHasContent
<1> QED
  BY <1>1, <1>2, <1>3, <1>4, <1>5, <1>6, <1>7, <1>8, <1>9

WriterStep(w) ==
    \/ Begin(w) \/ WFail(w) \/ Check(w) \/ Insert(w) \/ Write(w) \/ Reread(w)
    \/ FindDoc(w) \/ Remove(w) \/ InvalidAllKey(w) \/ InvalidAllKeyError(w)

LEMMA TypeStep == Typing /\ [Next]_vars => Typing'
<1> SUFFICES ASSUME Typing, [Next]_vars PROVE Typing'
  OBVIOUS
<1>1. ASSUME NEW r \in Requests, Arrive(r) \/ Call(r) PROVE Typing'
  BY <1>1, TypeCall
<1>2. ASSUME NEW f \in Flights, Fly(f) PROVE Typing'
  BY <1>2, TypeFlight
<1>3. ASSUME NEW w \in Writers, WriterStep(w) PROVE Typing'
  BY <1>3, TypeWriter DEF WriterStep
<1>4. ASSUME NEW p \in Pods, Restart(p) PROVE Typing'
  BY <1>4, TypeRestart
<1>5. CASE UNCHANGED vars
  BY <1>5 DEF vars, Typing, TypeOK, SetHasContent, NotYetInserted, StepsOfOp
<1> QED
  BY <1>1, <1>2, <1>3, <1>4, <1>5 DEF Next, AllReturned, WriterStep

(* Every reachable state is well typed, for every instance.                 *)
THEOREM TypeCorrect == Spec => []TypeOK
<1>1. Typing => TypeOK
  BY DEF Typing
<1> QED
  BY <1>1, TypeInit, TypeStep, PTL DEF Spec

-------------------------------------------------------------------------------
(***************************************************************************)
(* StaleExplained.                                                         *)
(***************************************************************************)

(* What a fetch that no write has overtaken is about to store is current.   *)
FetchIsCurrent == \A f \in Flights :
    (flight[f] # None /\ flight[f].step = "set" /\ ~flight[f].raced)
        => flight[f].found \in Cacheable(flight[f].scope)

(* An entry that such a fetch stored, and that the pattern of its prefix      *)
(* matches, is current unless a handler has changed its prefix since the     *)
(* last invalidation.                                                       *)
EntryIsCurrent == \A t \in Texts :
    (/\ cached[t] # None /\ ~cached[t].raced
     /\ cached[t].content \notin Cacheable(cached[t].scope)
     /\ t \in Named[cached[t].scope.prefix])
        => dirty[cached[t].scope.prefix] # {}

(* A handler that returned cleanly has invalidated the prefix it planned for *)
(* after its own change.                                                    *)
CleanHasFlushed == \A w \in Writers, p \in Prefixes :
    (w \in dirty[p] /\ wpc[w] = "done" /\ plan[w] = p) => w \in skipped

(* A handler that has changed a prefix is past its change.                   *)
DirtyHasChanged == \A w \in Writers, p \in Prefixes :
    w \in dirty[p] => wpc[w] \in {"reread", "invalidate", "done", "failed"}

Freshness == FetchIsCurrent /\ EntryIsCurrent /\ CleanHasFlushed /\ DirtyHasChanged

(* A change of a document takes nothing away from other scopes.             *)
LEMMA TouchKeeps ==
    ASSUME TypeOK, NEW w \in Writers, NEW d \in Docs, NEW doc,
           docs' = [docs EXCEPT ![d] = doc],
           NEW s \in Scopes, docs[d] = None \/ docs[d].scope # s
    PROVE  Cacheable(s) \subseteq Cacheable(s)'
<1> SUFFICES ASSUME NEW e \in Matching(s), ~docs[e].set.seq
             PROVE  ContentOf(e) \in Cacheable(s)'
  BY DEF Cacheable
<1>1. e \in Docs /\ e # d
  BY DEF Matching
<1>2. docs'[e] = docs[e]
  BY <1>1 DEF TypeOK
<1>3. e \in Matching(s)' /\ ContentOf(e)' = ContentOf(e)
  BY <1>1, <1>2 DEF Matching, ContentOf
<1> QED
  BY <1>2, <1>3 DEF Cacheable

(* After a change of a document the fetches and entries are as they should be *)
(* with the handler in the dirty set of the prefix.                         *)
LEMMA TouchFresh ==
    ASSUME Typing, Freshness, NEW w \in Writers, NEW d \in Docs, NEW doc \in DocRec \cup {None},
           doc # None => doc.ver \in Writers,
           Touch(w, d, doc), cached' = cached
    PROVE  FetchIsCurrent' /\ EntryIsCurrent'
<1>1. /\ docs' = [docs EXCEPT ![d] = doc]
      /\ \A f \in Flights :
            /\ flight'[f] = None <=> flight[f] = None
            /\ flight[f] # None => /\ flight'[f].scope = flight[f].scope
                                   /\ flight'[f].step = flight[f].step
                                   /\ flight'[f].found = flight[f].found
  BY TouchType DEF Typing
<1>2. CASE docs[d] = None
  <2>1. \A s \in Scopes : Cacheable(s) \subseteq Cacheable(s)'
    BY <1>1, <1>2, TouchKeeps DEF Typing
  <2>2. UNCHANGED <<flight, dirty>>
    BY <1>2 DEF Touch
  <2> QED
    BY <2>1, <2>2, ScopesOf DEF Typing, Freshness, FetchIsCurrent, EntryIsCurrent
<1>3. CASE docs[d] # None
  <2> DEFINE old == docs[d].scope
  <2>1. old \in Scopes /\ old.prefix \in Prefixes
    BY <1>3 DEF Typing, TypeOK, DocRec, Scopes
  <2>2. \A s \in Scopes : s # old => Cacheable(s) \subseteq Cacheable(s)'
    BY <1>1, <1>3, TouchKeeps DEF Typing
  <2>3. /\ dirty' = [dirty EXCEPT ![old.prefix] = @ \cup {w}]
        /\ \A f \in Flights :
              flight'[f] = IF flight[f] # None /\ flight[f].scope = old /\ flight[f].step = "set"
                           THEN [flight[f] EXCEPT !.raced = TRUE] ELSE flight[f]
    BY <1>3 DEF Touch
  <2>4. FetchIsCurrent'
    <3> SUFFICES ASSUME NEW f \in Flights, flight'[f] # None, flight'[f].step = "set",
                        ~flight'[f].raced
                 PROVE  flight'[f].found \in Cacheable(flight[f].scope)'
      BY <1>1 DEF FetchIsCurrent
    <3>1. flight[f] # None /\ flight[f].step = "set" /\ flight[f] \in Fetch
      BY <1>1 DEF Typing, TypeOK
    <3>2. flight[f].scope # old
      BY <2>3, <3>1 DEF Fetch
    <3>3. flight[f].scope \in Scopes
      BY <3>1 DEF Fetch
    <3>4. flight'[f] = flight[f]
      BY <2>3, <3>2
    <3> QED
      BY <2>2, <3>1, <3>2, <3>3, <3>4 DEF Freshness, FetchIsCurrent
  <2>5. EntryIsCurrent'
    <3> SUFFICES ASSUME NEW t \in Texts, cached[t] # None, ~cached[t].raced,
                        cached[t].content \notin Cacheable(cached[t].scope)',
                        t \in Named[cached[t].scope.prefix]
                 PROVE  dirty'[cached[t].scope.prefix] # {}
      BY DEF EntryIsCurrent
    <3> DEFINE s == cached[t].scope
    <3>1. s \in Scopes /\ s.prefix \in Prefixes
      BY ScopesOf DEF Typing
    <3>2. CASE s = old
      BY <2>1, <2>3, <3>1, <3>2 DEF Typing, TypeOK
    <3>3. CASE s # old
      <4>1. dirty[s.prefix] # {}
        BY <2>2, <3>1, <3>3 DEF Freshness, EntryIsCurrent
      <4> QED
        BY <2>1, <2>3, <3>1, <4>1 DEF Typing, TypeOK
    <3> QED
      BY <3>2, <3>3
  <2> QED
    BY <2>4, <2>5
<1> QED
  BY <1>2, <1>3

LEMMA FreshInit == Init => Freshness
BY DEF Init, Freshness, FetchIsCurrent, EntryIsCurrent, CleanHasFlushed, DirtyHasChanged

(* A step that changes neither the documents nor the histories leaves what   *)
(* is cacheable as it is.                                                   *)
LEMMA CacheableSame == UNCHANGED docs => \A s \in Scopes : Cacheable(s)' = Cacheable(s)
BY DEF Cacheable, Matching, ContentOf

LEMMA FreshCall ==
    ASSUME Typing, Freshness, NEW r \in Requests, Arrive(r) \/ Call(r)
    PROVE  Freshness'
<1>1. UNCHANGED <<docs, cached, dirty, wpc, plan, skipped>>
  BY DEF Arrive, Call, CacheHit, CacheMiss, Do, Incr
<1>2. EntryIsCurrent' /\ CleanHasFlushed' /\ DirtyHasChanged'
  BY <1>1, CacheableSame, ScopesOf
     DEF Freshness, EntryIsCurrent, CleanHasFlushed, DirtyHasChanged, Typing
<1>3. FetchIsCurrent'
  <2>1. CASE Do(r)
    <3>1. FlightOf(r) \in Flights
      BY <2>1, PlaceType DEF Do, Typing, TypeOK
    <3>2. \A g \in Flights :
             (flight'[g] # None /\ flight'[g].step = "set") => flight'[g] = flight[g]
      BY <2>1, <3>1 DEF Do, Typing, TypeOK
    <3> QED
      BY <1>1, <3>2, CacheableSame, ScopesOf DEF Typing, Freshness, FetchIsCurrent
  <2>2. CASE ~Do(r)
    <3>1. UNCHANGED flight
      BY <2>2 DEF Arrive, Call, CacheHit, CacheMiss, Incr
    <3> QED
      BY <1>1, <3>1, CacheableSame, ScopesOf DEF Typing, Freshness, FetchIsCurrent
  <2> QED
    BY <2>1, <2>2
<1> QED
  BY <1>2, <1>3 DEF Freshness

LEMMA FreshFlight ==
    ASSUME Typing, Freshness, NEW f \in Flights, Fly(f)
    PROVE  Freshness'
<1>1. UNCHANGED <<docs, dirty, wpc, plan, skipped>>
  BY DEF Fly, Find, Set, Return
<1>2. CleanHasFlushed' /\ DirtyHasChanged'
  BY <1>1 DEF Freshness, CleanHasFlushed, DirtyHasChanged
<1>3. /\ f[2] \in Texts /\ flight[f] # None
      /\ flight[f] \in Fetch /\ flight[f].scope \in Scopes
  BY ScopesOf DEF Flights, Fly, Find, Set, Return, Typing
<1>4. \A g \in Flights : flight[g] # None => flight[g].scope \in Scopes
  BY ScopesOf DEF Typing
<1>5. \A t \in Texts : cached[t] # None => cached[t].scope \in Scopes
  BY ScopesOf DEF Typing
<1>6. CASE Find(f)
  <2>1. ASSUME NEW d \in Matching(flight[f].scope), ~docs[d].set.seq
        PROVE  ContentOf(d) \in Cacheable(flight[f].scope)
    BY <2>1 DEF Cacheable
  <2>2. ASSUME NEW g \in Flights, g # f PROVE flight'[g] = flight[g]
    <3>1. PICK x : flight' = [flight EXCEPT ![f] = x]
      BY <1>6 DEF Find
    <3> QED
      BY <2>2, <3>1 DEF Typing, TypeOK
  <2>3. /\ flight'[f].scope = flight[f].scope
        /\ (flight'[f].step = "set") => flight'[f].found \in Cacheable(flight[f].scope)
    BY <1>3, <1>6, <2>1 DEF Find, Typing, TypeOK, Fetch
  <2>4. FetchIsCurrent'
    BY <1>1, <1>3, <1>4, <2>2, <2>3, CacheableSame DEF Freshness, FetchIsCurrent
  <2>5. EntryIsCurrent'
    BY <1>1, <1>5, <1>6, CacheableSame DEF Find, Freshness, EntryIsCurrent
  <2> QED
    BY <1>2, <2>4, <2>5 DEF Freshness
<1>7. CASE Set(f)
  <2>1. FetchIsCurrent'
    BY <1>1, <1>3, <1>4, <1>7, CacheableSame
       DEF Set, Typing, TypeOK, Freshness, FetchIsCurrent, Fetch
  <2>2. ~flight[f].raced => flight[f].found \in Cacheable(flight[f].scope)
    BY <1>7 DEF Set, Freshness, FetchIsCurrent
  <2>3. EntryIsCurrent'
    BY <1>1, <1>3, <1>5, <1>7, <2>2, CacheableSame
       DEF Set, Typing, TypeOK, Freshness, EntryIsCurrent
  <2> QED
    BY <1>2, <2>1, <2>3 DEF Freshness
<1>8. CASE Return(f)
  <2>1. FetchIsCurrent'
    BY <1>1, <1>4, <1>8, CacheableSame DEF Return, Typing, TypeOK, Freshness, FetchIsCurrent
  <2>2. EntryIsCurrent'
    BY <1>1, <1>5, <1>8, CacheableSame DEF Return, Freshness, EntryIsCurrent
  <2> QED
    BY <1>2, <2>1, <2>2 DEF Freshness
<1> QED
  BY <1>6, <1>7, <1>8 DEF Fly

LEMMA FreshRestart ==
    ASSUME Typing, Freshness, NEW p \in Pods, Restart(p)
    PROVE  Freshness'
<1>1. UNCHANGED <<docs, wpc, plan, skipped>>
  BY DEF Restart
<1>2. \A t \in Texts : cached[t] # None => cached[t].scope \in Scopes /\ cached[t].scope.prefix \in Prefixes
  BY ScopesOf DEF Typing
<1>3. FetchIsCurrent'
  <2>1. \A f \in Flights : flight'[f] # None => flight'[f] = flight[f]
    BY DEF Restart
  <2> QED
    BY <1>1, <2>1, CacheableSame, ScopesOf DEF Typing, Freshness, FetchIsCurrent
<1>4. CleanHasFlushed' /\ DirtyHasChanged'
  BY <1>1 DEF Restart, Freshness, CleanHasFlushed, DirtyHasChanged
<1>5. EntryIsCurrent'
  BY <1>1, <1>2, CacheableSame DEF Restart, Freshness, EntryIsCurrent
<1> QED
  BY <1>3, <1>4, <1>5 DEF Freshness

(* The documents do not change.                                             *)
LEMMA FreshQuiet ==
    ASSUME Typing, Freshness, NEW w \in Writers,
           Begin(w) \/ WFail(w) \/ Check(w) \/ Reread(w) \/ FindDoc(w)
    PROVE  Freshness'
<1>1. UNCHANGED <<docs, cached, flight, dirty>> /\ skipped \subseteq skipped'
  BY DEF Begin, WFail, Check, Reread, FindDoc, Writing
<1>2. FetchIsCurrent' /\ EntryIsCurrent'
  BY <1>1, CacheableSame, ScopesOf DEF Typing, Freshness, FetchIsCurrent, EntryIsCurrent
<1>3. CleanHasFlushed' /\ DirtyHasChanged'
  BY <1>1 DEF Begin, WFail, Check, Reread, FindDoc, Typing, TypeOK,
              Freshness, CleanHasFlushed, DirtyHasChanged, FirstStep, WLive
<1> QED
  BY <1>2, <1>3 DEF Freshness

(* A change adds the handler to the dirty set of one prefix at most.         *)
LEMMA TouchDirty ==
    ASSUME TypeOK, NEW w \in Writers, NEW d \in Docs, NEW doc, Touch(w, d, doc)
    PROVE  /\ \A p \in Prefixes : dirty'[p] \subseteq dirty[p] \cup {w}
           /\ docs[d] = None => dirty' = dirty
BY DEF Touch, TypeOK

(* The document of an insert is new: nobody becomes dirty.                  *)
LEMMA FreshInsert ==
    ASSUME Typing, Freshness, NEW w \in Writers, Insert(w)
    PROVE  Freshness'
<1> DEFINE doc == [scope |-> ScopeOf(warg[w]), ver |-> w, set |-> warg[w].set]
<1>1. /\ wpc[w] = "insert" /\ Touch(w, w, doc) /\ w \in Docs
      /\ doc \in DocRec /\ docs[w] = None /\ cached' = cached
  BY InsertDoc DEF Insert, Docs, Writing
<1>2. doc.ver = w
  OBVIOUS
<1> HIDE DEF doc
<1>3. FetchIsCurrent' /\ EntryIsCurrent'
  BY <1>1, <1>2, TouchFresh
<1>4. dirty' = dirty /\ skipped' = skipped
  BY <1>1, TouchDirty DEF Typing, Insert
<1>5. \A p \in Prefixes : w \notin dirty[p]
  BY <1>1 DEF Freshness, DirtyHasChanged
<1>6. CleanHasFlushed' /\ DirtyHasChanged'
  BY <1>4, <1>5 DEF Insert, Typing, TypeOK, Freshness, CleanHasFlushed, DirtyHasChanged
<1> QED
  BY <1>3, <1>6 DEF Freshness

LEMMA FreshWrite ==
    ASSUME Typing, Freshness, NEW w \in Writers, Write(w)
    PROVE  Freshness'
<1> DEFINE d   == warg[w].doc
           doc == [scope |-> Moved(warg[w], docs[d].scope), ver |-> w, set |-> warg[w].set]
<1>1. wpc[w] = "write" /\ cached' = cached /\ skipped' = skipped
  BY DEF Write, Writing
<1>2. /\ \A p \in Prefixes : dirty'[p] \subseteq dirty[p] \cup {w}
      /\ FetchIsCurrent' /\ EntryIsCurrent'
  <2>1. CASE docs[d] = None
    <3>1. UNCHANGED <<docs, dirty, flight>>
      BY <2>1 DEF Write
    <3> QED
      BY <1>1, <3>1, CacheableSame, ScopesOf
         DEF Typing, Freshness, FetchIsCurrent, EntryIsCurrent
  <2>2. CASE docs[d] # None
    <3>1. Touch(w, d, doc) /\ d \in Docs /\ doc \in DocRec /\ doc.ver = w
      BY <1>1, <2>2, WriteDoc DEF Write
    <3> HIDE DEF doc
    <3> QED
      BY <1>1, <3>1, TouchFresh, TouchDirty DEF Typing
  <2> QED
    BY <2>1, <2>2
<1>3. CleanHasFlushed' /\ DirtyHasChanged'
  <2>1. /\ wpc'[w] \in {"reread", "invalidate"}
        /\ \A v \in Writers \ {w} : wpc'[v] = wpc[v] /\ plan'[v] = plan[v]
    BY DEF Write, Typing, TypeOK
  <2> QED
    BY <1>1, <1>2, <2>1 DEF Freshness, CleanHasFlushed, DirtyHasChanged
<1> QED
  BY <1>2, <1>3 DEF Freshness

LEMMA FreshRemove ==
    ASSUME Typing, Freshness, NEW w \in Writers, Remove(w)
    PROVE  Freshness'
<1>1. /\ wpc[w] = "remove" /\ warg[w].doc \in Docs
      /\ cached' = cached /\ UNCHANGED <<skipped, plan>>
  BY RemovedDoc DEF Remove, Writing
<1>2. /\ \A p \in Prefixes : dirty'[p] \subseteq dirty[p] \cup {w}
      /\ FetchIsCurrent' /\ EntryIsCurrent'
  <2>1. CASE UNCHANGED <<docs, ever, dirty, flight>>
    BY <1>1, <2>1, CacheableSame, ScopesOf
       DEF Typing, Freshness, FetchIsCurrent, EntryIsCurrent
  <2>2. CASE Touch(w, warg[w].doc, None)
    BY <1>1, <2>2, TouchFresh, TouchDirty DEF Typing
  <2> QED
    BY <2>1, <2>2 DEF Remove
<1>3. CleanHasFlushed' /\ DirtyHasChanged'
  <2>1. /\ wpc'[w] \in {"invalidate", "done"}
        /\ wpc'[w] = "done" => plan[w] = None
        /\ \A v \in Writers \ {w} : wpc'[v] = wpc[v]
    BY DEF Remove, Typing, TypeOK
  <2> QED
    BY <1>1, <1>2, <2>1, NoneAssumption DEF Freshness, CleanHasFlushed, DirtyHasChanged
<1> QED
  BY <1>2, <1>3 DEF Freshness

LEMMA FreshInvalidate ==
    ASSUME Typing, Freshness, NEW w \in Writers, InvalidAllKey(w) \/ InvalidAllKeyError(w)
    PROVE  Freshness'
<1>1. UNCHANGED <<docs, flight, plan>>
  BY DEF InvalidAllKey, InvalidAllKeyError
<1>2. \A t \in Texts : cached[t] # None => cached[t].scope \in Scopes /\ cached[t].scope.prefix \in Prefixes
  BY ScopesOf DEF Typing
<1>3. FetchIsCurrent'
  BY <1>1, CacheableSame, ScopesOf DEF Typing, Freshness, FetchIsCurrent
<1>4. EntryIsCurrent'
  BY <1>1, <1>2, CacheableSame
     DEF InvalidAllKey, InvalidAllKeyError, Covers, Freshness, EntryIsCurrent
<1>5. CleanHasFlushed' /\ DirtyHasChanged'
  BY <1>1 DEF InvalidAllKey, InvalidAllKeyError, Typing, TypeOK,
              Freshness, CleanHasFlushed, DirtyHasChanged
<1> QED
  BY <1>3, <1>4, <1>5 DEF Freshness

LEMMA FreshStep == Typing /\ Freshness /\ [Next]_vars => Freshness'
<1> SUFFICES ASSUME Typing, Freshness, [Next]_vars PROVE Freshness'
  OBVIOUS
<1>1. ASSUME NEW r \in Requests, Arrive(r) \/ Call(r) PROVE Freshness'
  BY <1>1, FreshCall
<1>2. ASSUME NEW f \in Flights, Fly(f) PROVE Freshness'
  BY <1>2, FreshFlight
<1>3. ASSUME NEW w \in Writers, WriterStep(w) PROVE Freshness'
  BY <1>3, FreshQuiet, FreshInsert, FreshWrite, FreshRemove, FreshInvalidate DEF WriterStep
<1>4. ASSUME NEW p \in Pods, Restart(p) PROVE Freshness'
  BY <1>4, FreshRestart
<1>5. CASE UNCHANGED vars
  BY <1>5, CacheableSame, ScopesOf DEF vars, Typing, Freshness, FetchIsCurrent, EntryIsCurrent,
     CleanHasFlushed, DirtyHasChanged
<1> QED
  BY <1>1, <1>2, <1>3, <1>4, <1>5 DEF Next, AllReturned, WriterStep

LEMMA FreshExplains == Typing /\ Freshness => StaleExplained
<1> SUFFICES ASSUME Typing, Freshness, NEW t \in Texts, cached[t] # None,
                    cached[t].content \notin Cacheable(cached[t].scope), ~cached[t].raced,
                    t \in Named[cached[t].scope.prefix]
             PROVE  \E w \in dirty[cached[t].scope.prefix] :
                       wpc[w] # "done" \/ w \in skipped \/ plan[w] # cached[t].scope.prefix
  BY DEF StaleExplained, Excused
<1>1. cached[t].scope.prefix \in Prefixes
  BY ScopesOf DEF Typing
<1>2. PICK w : w \in dirty[cached[t].scope.prefix]
  BY DEF Freshness, EntryIsCurrent
<1>3. w \in Writers
  BY <1>1, <1>2 DEF Typing, TypeOK
<1> QED
  BY <1>1, <1>2, <1>3 DEF Freshness, CleanHasFlushed

(* However many calls, handlers and pods there are, a stale entry has one of  *)
(* the reasons of StaleExplained; a handler that returned cleanly is none.    *)
THEOREM StaleHasReason == Spec => []StaleExplained
<1>1. Init => Typing /\ Freshness
  BY TypeInit, FreshInit
<1>2. Typing /\ Freshness /\ [Next]_vars => Typing' /\ Freshness'
  BY TypeStep, FreshStep
<1> QED
  BY <1>1, <1>2, FreshExplains, PTL DEF Spec

-------------------------------------------------------------------------------
(***************************************************************************)
(* AnswerFromScope.                                                        *)
(***************************************************************************)

(* A call whose key reads like t has asked for scope s.                      *)
Asked(t, s) == \E q \in Requests : on[q] # None /\ Text(q) = t /\ on[q][2].scope = s

(* What a call was given is of a scope that a call with its text asked for.  *)
Supplied(r) == \E q \in Requests : /\ on[q] # None /\ Text(q) = Text(r)
                                   /\ answer[r] \in ever[on[q][2].scope]

(* The history has everything that a scope contains now, and every copy of a *)
(* content (in the cache, in a fetch, at a caller) is of a scope that a call *)
(* with the same text has asked for.                                        *)
Recorded ==
    /\ \A d \in Docs : docs[d] # None => ContentOf(d) \in ever[docs[d].scope]
    /\ \A t \in Texts : cached[t] # None => /\ cached[t].content \in ever[cached[t].scope]
                                           /\ Asked(t, cached[t].scope)
    /\ \A f \in Flights : flight[f] # None =>
          /\ flight[f].found # None => flight[f].found \in ever[flight[f].scope]
          /\ Asked(f[2], flight[f].scope)
    /\ \A r \in Requests : pc[r] \in {"incr", "answered"} => Supplied(r)
    /\ \A r \in Requests : pc[r] = "idle" => on[r] = None

(* Calls keep the key they came with.                                        *)
OnKept == \A q \in Requests : on[q] # None => on'[q] = on[q]

LEMMA AskedStays ==
    ASSUME OnKept, NEW t, NEW s, Asked(t, s)
    PROVE  Asked(t, s)'
BY DEF OnKept, Asked, Text

LEMMA SuppliedStays ==
    ASSUME OnKept, NEW r \in Requests, Supplied(r), on[r] # None, answer'[r] = answer[r],
           \A q \in Requests : on[q] # None => ever[on[q][2].scope] \subseteq ever'[on[q][2].scope]
    PROVE  Supplied(r)'
BY DEF OnKept, Supplied, Text

(* An answer of a scope that a call with the same text asked for.            *)
LEMMA AskedSupplies ==
    ASSUME NEW r \in Requests, NEW s, Asked(Text(r), s), answer[r] \in ever[s]
    PROVE  Supplied(r)
BY DEF Asked, Supplied

LEMMA RecordedInit == Init => Recorded
<1> SUFFICES ASSUME Init PROVE Recorded
  OBVIOUS
<1>1. ASSUME NEW d \in Docs, docs[d] # None
      PROVE  ContentOf(d) \in ever[docs[d].scope]
  <2>1. d \in Seeds /\ docs[d].scope = SeedScope[d] /\ docs[d].set.active
    BY <1>1 DEF Init, Initially
  <2>2. SeedScope[d] \in Scopes
    BY <2>1, SeedAssumption
  <2> QED
    BY <1>1, <2>1, <2>2 DEF Init, Matching
<1> QED
  BY <1>1 DEF Init, Recorded

LEMMA RecordedCall ==
    ASSUME Typing, Recorded, NEW r \in Requests, Arrive(r) \/ Call(r)
    PROVE  Recorded'
<1>1. UNCHANGED <<docs, cached, ever>>
  BY DEF Arrive, Call, CacheHit, CacheMiss, Do, Incr
<1>2. OnKept
  <2>1. CASE Arrive(r)
    BY <2>1 DEF Arrive, OnKept, Recorded, Typing, TypeOK
  <2>2. CASE Call(r)
    BY <2>2 DEF Call, CacheHit, CacheMiss, Do, Incr, OnKept
  <2> QED
    BY <2>1, <2>2
<1>3. /\ \A d \in Docs : docs'[d] # None => ContentOf(d)' \in ever'[docs'[d].scope]
      /\ \A t \in Texts : cached'[t] # None => /\ cached'[t].content \in ever'[cached'[t].scope]
                                              /\ Asked(t, cached[t].scope)'
  BY <1>1, <1>2, AskedStays DEF Recorded, ContentOf
<1>4. \A t, s : Asked(t, s) => Asked(t, s)'
  BY <1>2, AskedStays
<1>5. \A f \in Flights : flight'[f] # None =>
          /\ flight'[f].found # None => flight'[f].found \in ever'[flight'[f].scope]
          /\ Asked(f[2], flight[f].scope)'
  <2>1. CASE UNCHANGED flight
    BY <1>1, <1>4, <2>1 DEF Recorded
  <2>2. CASE Do(r) /\ flight[FlightOf(r)] = None
    <3>1. on[r] \in Places /\ on[r] # None /\ FlightOf(r) \in Flights /\ FlightOf(r)[2] = Text(r)
      BY <2>2, PlaceType, NoneAssumption DEF Do, Typing, TypeOK
    <3>2. Asked(Text(r), on[r][2].scope)
      BY <3>1 DEF Asked
    <3>3. /\ flight'[FlightOf(r)].found = None /\ flight'[FlightOf(r)].scope = on[r][2].scope
          /\ \A f \in Flights \ {FlightOf(r)} : flight'[f] = flight[f]
      BY <2>2, <3>1 DEF Do, Typing, TypeOK
    <3> QED
      BY <1>1, <1>4, <3>1, <3>2, <3>3 DEF Recorded
  <2> QED
    BY <2>1, <2>2 DEF Arrive, Call, CacheHit, CacheMiss, Do, Incr
<1>6. ASSUME NEW q \in Requests, pc'[q] \in {"incr", "answered"} PROVE Supplied(q)'
  <2>1. CASE pc[q] \in {"incr", "answered"}
    <3>1. answer'[q] = answer[q]
      BY <1>6, <2>1 DEF Arrive, Call, CacheHit, CacheMiss, Do, Incr, Typing, TypeOK
    <3>2. on[q] # None
      BY <2>1, NoneAssumption, PlaceType DEF Typing, TypeOK
    <3> QED
      BY <1>1, <1>2, <2>1, <3>1, <3>2, SuppliedStays DEF Recorded
  <2>2. CASE pc[q] \notin {"incr", "answered"}
    <3>1. q = r /\ CacheHit(r)
      BY <1>6, <2>2 DEF Arrive, Call, CacheHit, CacheMiss, Do, Incr, Typing, TypeOK
    <3>2. PICK t \in Texts : /\ t = Text(r) /\ cached[t] # None
                             /\ answer' = [answer EXCEPT ![r] = cached[t].content]
      BY <3>1 DEF CacheHit, Hits
    <3>3. on' = on
      BY <3>1 DEF CacheHit
    <3>4. answer'[r] \in ever'[cached[t].scope]
      BY <1>1, <3>2 DEF Typing, TypeOK, Recorded
    <3>5. PICK p \in Requests :
             on[p] # None /\ Text(p) = Text(r) /\ on[p][2].scope = cached[t].scope
      BY <3>2 DEF Recorded, Asked
    <3>6. on'[p] # None /\ Text(p)' = Text(r)' /\ on'[p][2].scope = cached[t].scope
      BY <3>3, <3>5 DEF Text
    <3> QED
      BY <3>1, <3>4, <3>6 DEF Supplied
  <2> QED
    BY <2>1, <2>2
<1>7. \A q \in Requests : pc'[q] = "idle" => on'[q] = None
  BY DEF Arrive, Call, CacheHit, CacheMiss, Do, Incr, Typing, TypeOK, Recorded
<1> QED
  BY <1>3, <1>5, <1>6, <1>7 DEF Recorded

LEMMA RecordedFlight ==
    ASSUME Typing, Recorded, NEW f \in Flights, Fly(f)
    PROVE  Recorded'
<1>1. UNCHANGED <<docs, ever, on>>
  BY DEF Fly, Find, Set, Return
<1>2. OnKept
  BY <1>1 DEF OnKept
<1>3. \A d \in Docs : docs'[d] # None => ContentOf(d)' \in ever'[docs'[d].scope]
  BY <1>1 DEF Recorded, ContentOf
<1>4. /\ f[2] \in Texts /\ flight[f] # None
      /\ flight[f] \in Fetch /\ flight[f].scope \in Scopes
      /\ Asked(f[2], flight[f].scope)
  BY ScopesOf DEF Flights, Fly, Find, Set, Return, Typing, Recorded
<1>5. \A t, s : Asked(t, s) => Asked(t, s)'
  BY <1>2, AskedStays
<1>6. \A q \in Requests : on[q] # None => ever[on[q][2].scope] \subseteq ever'[on[q][2].scope]
  BY <1>1
<1>7. \A r \in Requests : pc[r] \in {"incr", "answered"} => on[r] # None
  BY NoneAssumption DEF Typing, TypeOK
<1>8. CASE Find(f)
  <2>1. ASSUME NEW d \in Matching(flight[f].scope)
        PROVE  ContentOf(d) \in ever[flight[f].scope]
    BY DEF Matching, Recorded
  <2>2. ASSUME NEW g \in Flights, g # f PROVE flight'[g] = flight[g]
    <3>1. PICK x : flight' = [flight EXCEPT ![f] = x]
      BY <1>8 DEF Find
    <3> QED
      BY <2>2, <3>1 DEF Typing, TypeOK
  <2>3. /\ flight'[f].scope = flight[f].scope
        /\ flight'[f].found # None => flight'[f].found \in ever[flight[f].scope]
    BY <1>4, <1>8, <2>1 DEF Find, Typing, TypeOK, Fetch, Recorded
  <2>4. UNCHANGED <<cached, pc, answer>>
    BY <1>8 DEF Find
  <2>5. \A g \in Flights : flight'[g] # None =>
          /\ flight'[g].found # None => flight'[g].found \in ever'[flight'[g].scope]
          /\ Asked(g[2], flight[g].scope)'
    BY <1>1, <1>4, <1>5, <2>2, <2>3 DEF Recorded
  <2>6. \A r \in Requests : pc[r] \in {"incr", "answered"} => Supplied(r)'
    BY <1>2, <1>6, <1>7, <2>4, SuppliedStays DEF Recorded
  <2> QED
    BY <1>1, <1>3, <1>5, <2>4, <2>5, <2>6 DEF Recorded
<1>9. CASE Set(f)
  <2>1. flight[f].found # None
    BY <1>9, NoneAssumption DEF Set, Typing, SetHasContent
  <2>2. \A t \in Texts : cached'[t] # None =>
          \/ cached'[t] = cached[t]
          \/ t = f[2] /\ cached'[t].scope = flight[f].scope /\ cached'[t].content = flight[f].found
    BY <1>4, <1>9 DEF Set, Typing, TypeOK
  <2>3. \A t \in Texts : cached'[t] # None => /\ cached'[t].content \in ever'[cached'[t].scope]
                                             /\ Asked(t, cached[t].scope)'
    BY <1>1, <1>4, <1>5, <2>1, <2>2 DEF Recorded
  <2>4. \A g \in Flights : flight'[g] # None =>
          flight[g] # None /\ flight'[g].found = flight[g].found /\ flight'[g].scope = flight[g].scope
    BY <1>4, <1>9 DEF Set, Typing, TypeOK, Fetch
  <2>5. UNCHANGED <<pc, answer>>
    BY <1>9 DEF Set
  <2>6. \A r \in Requests : pc[r] \in {"incr", "answered"} => Supplied(r)'
    BY <1>2, <1>6, <1>7, <2>5, SuppliedStays DEF Recorded
  <2> QED
    BY <1>1, <1>3, <1>5, <2>3, <2>4, <2>5, <2>6 DEF Recorded
<1>10. CASE Return(f)
  <2>1. \A g \in Flights : flight'[g] # None => flight'[g] = flight[g]
    BY <1>10 DEF Return, Typing, TypeOK
  <2>2. ASSUME NEW r \in Requests, pc'[r] \in {"incr", "answered"} PROVE Supplied(r)'
    <3>1. CASE r \in Woken(f)
      <4>1. /\ Text(r) = f[2] /\ flight[f].found # None /\ answer'[r] = flight[f].found
        BY <1>10, <2>2, <3>1 DEF Return, Woken, FlightOf
      <4>2. PICK q \in Requests : on[q] # None /\ Text(q) = f[2] /\ on[q][2].scope = flight[f].scope
        BY <1>4 DEF Asked
      <4>3. answer'[r] \in ever'[on'[q][2].scope] /\ Text(q)' = Text(r)' /\ on'[q] # None
        BY <1>1, <1>4, <4>1, <4>2 DEF Recorded, Text
      <4> QED
        BY <4>3 DEF Supplied
    <3>2. CASE r \notin Woken(f)
      BY <1>2, <1>6, <1>7, <1>10, <2>2, <3>2, SuppliedStays DEF Return, Recorded
    <3> QED
      BY <3>1, <3>2
  <2>3. \A r \in Requests : pc'[r] = "idle" => pc[r] = "idle"
    BY <1>10 DEF Return
  <2> QED
    BY <1>1, <1>3, <1>5, <1>10, <2>1, <2>2, <2>3 DEF Return, Recorded
<1> QED
  BY <1>8, <1>9, <1>10 DEF Fly

(* A change of a document records its new content and copies nothing.       *)
LEMMA RecordedTouch ==
    ASSUME Typing, Recorded, NEW w \in Writers, NEW d \in Docs, NEW doc \in DocRec \cup {None},
           doc # None => doc.ver \in Writers,
           Touch(w, d, doc), UNCHANGED <<cached, pc, on, answer>>
    PROVE  Recorded'
<1>1. /\ docs' = [docs EXCEPT ![d] = doc]
      /\ \A f \in Flights :
            /\ flight'[f] = None <=> flight[f] = None
            /\ flight[f] # None => /\ flight'[f].found = flight[f].found
                                   /\ flight'[f].scope = flight[f].scope
  BY TouchType DEF Typing
<1>2. \A s \in Scopes : /\ ever[s] \subseteq ever'[s]
                        /\ (doc # None /\ doc.scope = s) =>
                              [doc |-> d, ver |-> doc.ver] \in ever'[s]
  BY DEF Touch
<1>3. ASSUME NEW e \in Docs, docs'[e] # None
      PROVE  ContentOf(e)' \in ever'[docs'[e].scope]
  <2>1. docs'[e] \in DocRec /\ docs'[e].scope \in Scopes
    BY <1>1, <1>3 DEF Typing, TypeOK, DocRec
  <2>2. CASE e = d
    BY <1>1, <1>2, <1>3, <2>1, <2>2 DEF Typing, TypeOK, ContentOf
  <2>3. CASE e # d
    BY <1>1, <1>2, <1>3, <2>1, <2>3 DEF Typing, TypeOK, ContentOf, Recorded
  <2> QED
    BY <2>2, <2>3
<1>4. OnKept /\ \A t, a : Asked(t, a) => Asked(t, a)'
  BY AskedStays DEF OnKept
<1>5. \A q \in Requests : on[q] # None => on[q][2].scope \in Scopes
  BY PlaceType DEF Typing, TypeOK
<1>6. \A r \in Requests : pc[r] \in {"incr", "answered"} => Supplied(r)'
  <2>1. \A r \in Requests : pc[r] \in {"incr", "answered"} => on[r] # None
    BY NoneAssumption DEF Typing, TypeOK
  <2> QED
    BY <1>2, <1>4, <1>5, <2>1, SuppliedStays DEF Recorded
<1>7. \A f \in Flights : flight'[f] # None =>
          /\ flight'[f].found # None => flight'[f].found \in ever'[flight'[f].scope]
          /\ Asked(f[2], flight[f].scope)'
  BY <1>1, <1>2, <1>4, ScopesOf DEF Typing, Recorded
<1>8. \A t \in Texts : cached'[t] # None => /\ cached'[t].content \in ever'[cached'[t].scope]
                                           /\ Asked(t, cached[t].scope)'
  BY <1>2, <1>4, ScopesOf DEF Typing, Recorded
<1> QED
  BY <1>3, <1>6, <1>7, <1>8 DEF Recorded

(* A step that leaves the documents and calls alone, and drops entries and    *)
(* flights at most.                                                         *)
LEMMA RecordedLoss ==
    ASSUME Typing, Recorded, UNCHANGED <<docs, ever, on, answer>>,
           \A t \in Texts : cached'[t] # None => cached'[t] = cached[t],
           \A f \in Flights : flight'[f] # None => flight'[f] = flight[f],
           \A r \in Requests : pc'[r] \in {"idle", "incr", "answered"} => pc'[r] = pc[r]
    PROVE  Recorded'
<1>1. OnKept /\ \A t, a : Asked(t, a) => Asked(t, a)'
  BY AskedStays DEF OnKept
<1>2. \A r \in Requests : pc[r] \in {"incr", "answered"} => on[r] # None
  BY NoneAssumption DEF Typing, TypeOK
<1>3. \A r \in Requests : pc'[r] \in {"incr", "answered"} => Supplied(r)'
  BY <1>1, <1>2, SuppliedStays DEF Recorded
<1> QED
  BY <1>1, <1>3 DEF Recorded, ContentOf

LEMMA RecordedWriter ==
    ASSUME Typing, Recorded, NEW w \in Writers, WriterStep(w)
    PROVE  Recorded'
<1>1. CASE UNCHANGED <<docs, ever, flight, cached, pc, on, answer>>
  BY <1>1, RecordedLoss
<1>2. CASE Begin(w) \/ WFail(w) \/ Check(w) \/ Reread(w) \/ FindDoc(w)
  BY <1>1, <1>2 DEF Begin, WFail, Check, Reread, FindDoc, Writing
<1>3. CASE Insert(w)
  <2> DEFINE doc == [scope |-> ScopeOf(warg[w]), ver |-> w, set |-> warg[w].set]
  <2>1. Touch(w, w, doc) /\ w \in Docs /\ doc \in DocRec /\ doc.ver = w
    BY <1>3, InsertDoc DEF Insert, Docs
  <2> HIDE DEF doc
  <2> QED
    BY <1>3, <2>1, RecordedTouch DEF Insert, Writing
<1>4. CASE Write(w)
  <2> DEFINE d   == warg[w].doc
             doc == [scope |-> Moved(warg[w], docs[d].scope), ver |-> w, set |-> warg[w].set]
  <2>1. CASE docs[d] = None
    BY <1>1, <1>4, <2>1 DEF Write, Writing
  <2>2. CASE docs[d] # None
    <3>1. Touch(w, d, doc) /\ d \in Docs /\ doc \in DocRec /\ doc.ver = w
      BY <1>4, <2>2, WriteDoc DEF Write
    <3> HIDE DEF doc
    <3> QED
      BY <1>4, <3>1, RecordedTouch DEF Write, Writing
  <2> QED
    BY <2>1, <2>2
<1>5. CASE Remove(w)
  <2>1. warg[w].doc \in Docs
    BY <1>5, RemovedDoc DEF Remove
  <2> QED
    BY <1>1, <1>5, <2>1, RecordedTouch DEF Remove, Writing
<1>6. CASE InvalidAllKey(w) \/ InvalidAllKeyError(w)
  <2>1. UNCHANGED <<docs, ever, flight, pc, on, answer>>
    BY <1>6 DEF InvalidAllKey, InvalidAllKeyError
  <2>2. \A t \in Texts : cached'[t] # None => cached'[t] = cached[t]
    BY <1>6 DEF InvalidAllKey, InvalidAllKeyError
  <2> QED
    BY <2>1, <2>2, RecordedLoss
<1> QED
  BY <1>2, <1>3, <1>4, <1>5, <1>6 DEF WriterStep

LEMMA RecordedRestart ==
    ASSUME Typing, Recorded, NEW p \in Pods, Restart(p)
    PROVE  Recorded'
<1>1. UNCHANGED <<docs, ever, on, answer>>
  BY DEF Restart
<1>2. \A t \in Texts : cached'[t] # None => cached'[t] = cached[t]
  BY DEF Restart
<1>3. \A f \in Flights : flight'[f] # None => flight'[f] = flight[f]
  BY DEF Restart
<1>4. \A r \in Requests : pc'[r] \in {"idle", "incr", "answered"} => pc'[r] = pc[r]
  BY DEF Restart
<1> QED
  BY <1>1, <1>2, <1>3, <1>4, RecordedLoss

LEMMA RecordedStep == Typing /\ Recorded /\ [Next]_vars => Recorded'
<1> SUFFICES ASSUME Typing, Recorded, [Next]_vars PROVE Recorded'
  OBVIOUS
<1>1. CASE UNCHANGED vars
  BY <1>1, RecordedLoss DEF vars
<1> QED
  BY <1>1, RecordedCall, RecordedFlight, RecordedWriter, RecordedRestart
     DEF Next, AllReturned, WriterStep

(* In any interleaving of calls, handlers and restarts a call is answered     *)
(* with the mock of a scope that a call with the same text asked for: of its *)
(* own scope, unless there is a call for another one whose key reads alike.  *)
THEOREM AnswersStayInScope == Spec => []AnswerFromScope
<1>1. Init => Typing /\ Recorded
  BY TypeInit, RecordedInit
<1>2. Typing /\ Recorded /\ [Next]_vars => Typing' /\ Recorded'
  BY TypeStep, RecordedStep
<1>3. Recorded => AnswerFromScope
  BY DEF Recorded, Supplied, AnswerFromScope
<1> QED
  BY <1>1, <1>2, <1>3, PTL DEF Spec

-------------------------------------------------------------------------------
(***************************************************************************)
(* DuplicatesExplained.                                                    *)
(***************************************************************************)

Updated(d) == docs[d].ver \in Writers /\ warg[docs[d].ver].op \in UpdateOps

(* The last writer of a document has begun; one that no update has touched   *)
(* is a seed where it was, or new.                                          *)
Authored == \A d \in Docs : docs[d] # None =>
    /\ docs[d].ver \in Writers => wpc[docs[d].ver] # "idle"
    /\ docs[d].ver = None => d \in Seeds /\ docs[d].scope = SeedScope[d]

(* A creation whose check worked and that nobody overtook meets no untouched  *)
(* document at its insert.                                                  *)
InsertIsClear == \A w \in Writers :
    (wpc[w] = "insert" /\ w \notin late \cup skipped)
        => \A d \in Matching(ScopeOf(warg[w])) : Updated(d)

Uniqueness == Authored /\ InsertIsClear /\ DuplicatesExplained

LEMMA UniqueInit == Init => Uniqueness
<1> SUFFICES ASSUME Init PROVE Uniqueness
  OBVIOUS
<1>1. \A d \in Docs : docs[d] # None => d \in Seeds /\ docs[d].scope = SeedScope[d]
                                        /\ docs[d].ver = None
  BY DEF Init
<1>2. Authored
  BY <1>1, NoneAssumption DEF Authored, Docs
<1>3. InsertIsClear
  BY DEF Init, InsertIsClear
<1>4. DuplicatesExplained
  BY <1>1, SeedAssumption DEF DuplicatesExplained, Matching
<1> QED
  BY <1>2, <1>3, <1>4 DEF Uniqueness

(* Steps that leave the documents alone and insert nothing.                 *)
LEMMA UniqueSame ==
    ASSUME Uniqueness, UNCHANGED <<docs, warg, late>>, skipped \subseteq skipped',
           \A v \in Writers : /\ wpc'[v] = "idle" => wpc[v] = "idle"
                              /\ wpc'[v] = "insert" => wpc[v] = "insert"
    PROVE  Uniqueness'
<1>1. \A s : Matching(s)' = Matching(s)
  BY DEF Matching
<1>2. \A d : Updated(d)' = Updated(d)
  BY DEF Updated
<1>3. Authored'
  BY DEF Uniqueness, Authored
<1>4. InsertIsClear'
  BY <1>1, <1>2 DEF Uniqueness, InsertIsClear, ScopeOf
<1>5. DuplicatesExplained'
  BY <1>1 DEF Uniqueness, DuplicatesExplained
<1> QED
  BY <1>3, <1>4, <1>5 DEF Uniqueness

LEMMA UniqueBegin ==
    ASSUME Typing, Uniqueness, NEW w \in Writers, Begin(w)
    PROVE  Uniqueness'
<1>1. /\ UNCHANGED <<docs, late, skipped>> /\ wpc[w] = "idle"
      /\ \A v \in Writers \ {w} : warg'[v] = warg[v] /\ wpc'[v] = wpc[v]
      /\ wpc'[w] \notin {"idle", "insert"}
  BY DEF Begin, FirstStep, Typing, TypeOK
<1>2. \A d \in Docs : docs[d] # None => docs[d].ver # w
  BY <1>1 DEF Uniqueness, Authored
<1>3. \A s : Matching(s)' = Matching(s)
  BY <1>1 DEF Matching
<1>4. \A d \in Docs : docs[d] # None => (Updated(d)' <=> Updated(d))
  BY <1>1, <1>2 DEF Updated
<1>5. Authored'
  BY <1>1 DEF Uniqueness, Authored
<1>6. InsertIsClear'
  BY <1>1, <1>3, <1>4 DEF Uniqueness, InsertIsClear, ScopeOf, Matching
<1>7. DuplicatesExplained'
  BY <1>1, <1>3, <1>4 DEF Uniqueness, DuplicatesExplained, Updated, Matching
<1> QED
  BY <1>5, <1>6, <1>7 DEF Uniqueness

(* A check lets a creation through only when nothing is there.              *)
LEMMA UniqueCheck ==
    ASSUME Typing, Uniqueness, NEW w \in Writers, Check(w)
    PROVE  Uniqueness'
<1>1. /\ UNCHANGED <<docs, late, warg>> /\ skipped \subseteq skipped'
      /\ \A v \in Writers \ {w} : wpc'[v] = wpc[v]
      /\ wpc'[w] = "insert" => Matching(ScopeOf(warg[w])) = {} \/ w \in skipped'
      /\ wpc'[w] # "idle"
  BY DEF Check, Typing, TypeOK
<1>2. \A s : Matching(s)' = Matching(s)
  BY <1>1 DEF Matching
<1>3. Authored'
  BY <1>1 DEF Uniqueness, Authored
<1>4. InsertIsClear'
  BY <1>1, <1>2 DEF Uniqueness, InsertIsClear, Updated, ScopeOf
<1>5. DuplicatesExplained'
  BY <1>1, <1>2 DEF Uniqueness, DuplicatesExplained
<1> QED
  BY <1>3, <1>4, <1>5 DEF Uniqueness

LEMMA UniqueInsert ==
    ASSUME Typing, Uniqueness, NEW w \in Writers, Insert(w)
    PROVE  Uniqueness'
<1> DEFINE doc == [scope |-> ScopeOf(warg[w]), ver |-> w, set |-> warg[w].set]
<1>1. /\ wpc[w] = "insert" /\ Touch(w, w, doc) /\ w \in Docs /\ doc \in DocRec
      /\ docs[w] = None
  BY InsertDoc DEF Insert, Docs
<1>2. doc.ver = w /\ doc.scope = ScopeOf(warg[w]) /\ doc # None
  BY <1>1, NoneAssumption
<1> HIDE DEF doc
<1>3. docs' = [docs EXCEPT ![w] = doc]
  BY <1>1 DEF Touch
<1>4. /\ UNCHANGED <<warg, skipped>>
      /\ \A v \in Writers \ {w} : wpc'[v] = wpc[v]
      /\ wpc'[w] \in {"invalidate", "done"}
      /\ late \subseteq late'
      /\ \A v \in Writers \ {w} : (wpc[v] = "insert" /\ ScopeOf(warg[v]) = ScopeOf(warg[w]))
                                     => v \in late'
  BY DEF Insert, Typing, TypeOK
<1>5. \A d \in Docs \ {w} : docs'[d] = docs[d]
  BY <1>3 DEF Typing, TypeOK
<1>6. docs'[w] = doc
  BY <1>1, <1>3 DEF Typing, TypeOK
<1>7. \A d \in Docs \ {w} : /\ \A s : d \in Matching(s)' <=> d \in Matching(s)
                            /\ Updated(d)' <=> Updated(d)
  BY <1>4, <1>5 DEF Matching, Updated
<1>8. \A s : w \in Matching(s)' => s = ScopeOf(warg[w])
  BY <1>2, <1>6 DEF Matching
<1>9. Authored'
  BY <1>2, <1>4, <1>5, <1>6, NoneAssumption DEF Uniqueness, Authored, Docs
<1>10. InsertIsClear'
  <2> SUFFICES ASSUME NEW v \in Writers, wpc'[v] = "insert", v \notin late' \cup skipped',
                      NEW d \in Matching(ScopeOf(warg[v]))'
               PROVE  Updated(d)'
    BY <1>4 DEF InsertIsClear, ScopeOf
  <2>1. v # w /\ wpc[v] = "insert" /\ v \notin late \cup skipped
    BY <1>4
  <2>2. d \in Docs /\ d # w
    <3>1. w \in Matching(ScopeOf(warg[v]))' => ScopeOf(warg[v]) = ScopeOf(warg[w])
      BY <1>2, <1>4, <1>6, <2>1 DEF Matching, ScopeOf
    <3> QED
      BY <1>4, <2>1, <3>1 DEF Matching
  <2>3. d \in Matching(ScopeOf(warg[v]))
    BY <1>4, <1>5, <2>2 DEF Matching, ScopeOf
  <2> QED
    BY <1>7, <2>1, <2>2, <2>3 DEF Uniqueness, InsertIsClear
<1>11. DuplicatesExplained'
  <2> SUFFICES ASSUME NEW d \in Docs, NEW e \in Docs, d # e, NEW s \in Scopes,
                      {d, e} \subseteq Matching(s)'
               PROVE  (\E x \in {d, e} : Updated(x)') \/ {d, e} \cap (late' \cup skipped') # {}
    BY DEF DuplicatesExplained, Updated, Matching
  <2>1. CASE w \notin {d, e}
    BY <1>4, <1>7, <2>1 DEF Uniqueness, DuplicatesExplained, Updated
  <2>2. ASSUME NEW x \in {d, e}, x # w, w \in {d, e}
        PROVE  Updated(x)' \/ w \in late' \cup skipped'
    <3>1. x \in Matching(ScopeOf(warg[w]))
      BY <1>7, <1>8, <2>2
    <3> QED
      BY <1>1, <1>4, <1>7, <2>2, <3>1 DEF Uniqueness, InsertIsClear
  <2>3. CASE w \in {d, e}
    BY <2>2, <2>3
  <2> QED
    BY <2>1, <2>3
<1> QED
  BY <1>9, <1>10, <1>11 DEF Uniqueness

(* Writing a document or removing it: what matches now is the document that  *)
(* was written, or matched before.                                          *)
LEMMA UniqueChange ==
    ASSUME Typing, Uniqueness, NEW w \in Writers, NEW d \in Docs, NEW doc \in DocRec \cup {None},
           docs' = [docs EXCEPT ![d] = doc],
           doc # None => doc.ver = w /\ warg[w].op \in UpdateOps,
           UNCHANGED <<warg, late, skipped>>, wpc[w] # "insert",
           \A v \in Writers \ {w} : wpc'[v] = wpc[v],
           wpc'[w] \notin {"idle", "insert"}
    PROVE  Uniqueness'
<1>1. /\ \A e \in Docs \ {d} : docs'[e] = docs[e]
      /\ docs'[d] = doc
  BY DEF Typing, TypeOK
<1>2. \A e \in Docs \ {d} : /\ \A s : e \in Matching(s)' <=> e \in Matching(s)
                            /\ Updated(e)' <=> Updated(e)
  BY <1>1 DEF Matching, Updated
<1>3. \A s : d \in Matching(s)' => Updated(d)'
  BY <1>1 DEF Matching, Updated
<1>4. Authored'
  BY <1>1, NoneAssumption DEF Uniqueness, Authored, Docs
<1>5. InsertIsClear'
  <2> SUFFICES ASSUME NEW v \in Writers, wpc'[v] = "insert", v \notin late \cup skipped,
                      NEW e \in Matching(ScopeOf(warg[v]))'
               PROVE  Updated(e)'
    BY DEF InsertIsClear, ScopeOf
  <2>1. wpc[v] = "insert" /\ e \in Docs
    BY DEF Matching
  <2> QED
    BY <1>2, <1>3, <2>1 DEF Uniqueness, InsertIsClear
<1>6. DuplicatesExplained'
  <2> SUFFICES ASSUME NEW a \in Docs, NEW b \in Docs, a # b, NEW s \in Scopes,
                      {a, b} \subseteq Matching(s)'
               PROVE  (\E x \in {a, b} : Updated(x)') \/ {a, b} \cap (late \cup skipped) # {}
    BY DEF DuplicatesExplained, Updated, Matching
  <2>1. CASE d \in {a, b}
    BY <1>3, <2>1
  <2>2. CASE d \notin {a, b}
    BY <1>2, <2>2 DEF Uniqueness, DuplicatesExplained, Updated
  <2> QED
    BY <2>1, <2>2
<1> QED
  BY <1>4, <1>5, <1>6 DEF Uniqueness

LEMMA UniqueWriter ==
    ASSUME Typing, Uniqueness, NEW w \in Writers, WriterStep(w)
    PROVE  Uniqueness'
<1>1. CASE WFail(w) \/ Reread(w) \/ FindDoc(w) \/ InvalidAllKey(w) \/ InvalidAllKeyError(w)
  BY <1>1, UniqueSame DEF WFail, Reread, FindDoc, InvalidAllKey, InvalidAllKeyError,
                          Typing, TypeOK
<1>2. CASE Write(w)
  <2> DEFINE d   == warg[w].doc
             doc == [scope |-> Moved(warg[w], docs[d].scope), ver |-> w, set |-> warg[w].set]
  <2>1. /\ wpc[w] = "write" /\ UNCHANGED <<warg, late, skipped>>
        /\ \A v \in Writers \ {w} : wpc'[v] = wpc[v]
        /\ wpc'[w] \in {"reread", "invalidate"}
    BY <1>2 DEF Write, Typing, TypeOK
  <2>2. CASE docs[d] = None
    <3>1. UNCHANGED docs
      BY <1>2, <2>2 DEF Write
    <3> QED
      BY <2>1, <3>1, UniqueSame
  <2>3. CASE docs[d] # None
    <3>1. /\ docs' = [docs EXCEPT ![d] = doc]
          /\ d \in Docs /\ doc \in DocRec /\ doc.ver = w /\ warg[w].op \in UpdateOps
      BY <1>2, <2>1, <2>3, WriteDoc DEF Write, Touch
    <3> HIDE DEF d, doc
    <3> QED
      BY <2>1, <3>1, UniqueChange
  <2> QED
    BY <2>2, <2>3
<1>3. CASE Remove(w)
  <2>1. /\ wpc[w] = "remove" /\ UNCHANGED <<warg, late, skipped>>
        /\ \A v \in Writers \ {w} : wpc'[v] = wpc[v]
        /\ wpc'[w] \in {"done", "invalidate"}
        /\ warg[w].doc \in Docs
    BY <1>3, RemovedDoc DEF Remove, Typing, TypeOK
  <2>2. CASE UNCHANGED docs
    BY <2>1, <2>2, UniqueSame
  <2>3. CASE docs' = [docs EXCEPT ![warg[w].doc] = None]
    BY <2>1, <2>3, UniqueChange
  <2> QED
    BY <1>3, <2>2, <2>3 DEF Remove, Touch
<1> QED
  BY <1>1, <1>2, <1>3, UniqueBegin, UniqueCheck, UniqueInsert DEF WriterStep

(* Two active documents share a scope only because of an update or of two     *)
(* creations of which one overtook the other.                               *)
THEOREM DuplicatesHaveReason == Spec => []DuplicatesExplained
<1>1. Init => Typing /\ Uniqueness
  BY TypeInit, UniqueInit
<1>2. Typing /\ Uniqueness /\ [Next]_vars => Typing' /\ Uniqueness'
  <2> SUFFICES ASSUME Typing, Uniqueness, [Next]_vars PROVE Uniqueness'
    BY TypeStep
  <2>1. ASSUME NEW r \in Requests, Arrive(r) \/ Call(r) PROVE Uniqueness'
    BY <2>1, UniqueSame DEF Arrive, Call, CacheHit, CacheMiss, Do, Incr
  <2>2. ASSUME NEW f \in Flights, Fly(f) PROVE Uniqueness'
    BY <2>2, UniqueSame DEF Fly, Find, Set, Return
  <2>3. ASSUME NEW p \in Pods, Restart(p) PROVE Uniqueness'
    BY <2>3, UniqueSame DEF Restart
  <2>4. CASE UNCHANGED vars
    BY <2>4, UniqueSame DEF vars
  <2> QED
    BY <2>1, <2>2, <2>3, <2>4, UniqueWriter DEF Next, AllReturned, WriterStep
<1>3. Uniqueness => DuplicatesExplained
  BY DEF Uniqueness
<1> QED
  BY <1>1, <1>2, <1>3, PTL DEF Spec
-------------------------------------------------------------------------------
(***************************************************************************)
(* AnswerWasCurrent.                                                       *)
(***************************************************************************)

(* A call that runs has seen what it may be answered with now.              *)
Sees == \A r \in Requests : Running(r) => InReach(r) \subseteq since[r]

(* A call waits for a flight that is there.                                  *)
Awaited == \A r \in Requests : pc[r] = "wait" => flight[FlightOf(r)] # None

(* Call l leads flight f: it has seen what the flight found, and the other    *)
(* calls that wait for the flight came after it.                            *)
LedBy(f, l) ==
    /\ Leader(l, f)
    /\ flight[f].found # None => flight[f].found \in since[l]
    /\ \A r \in Requests \ {l} : (pc[r] = "wait" /\ FlightOf(r) = f) => l \in behind[r]

Led == \A f \in Flights : flight[f] # None => \E l \in Requests : LedBy(f, l)

Given(r) == \/ \E l \in {r} \cup behind[r] : answer[r] \in since[l]
            \/ r \in excused

Watched == /\ \A r \in Requests : behind[r] \subseteq Requests
           /\ Sees
           /\ Awaited
           /\ Led
           /\ \A r \in Requests : pc[r] \in {"incr", "answered"} => Given(r)

Watch == Seeing /\ Joining /\ Hitting

LEMMA WatchedAtStart == WatchedInit => Watched
BY DEF WatchedInit, Init, Watched, Sees, Running, Awaited, Led

(* What has been seen is not forgotten, and a call that runs sees the present. *)
LEMMA WatchGrows ==
    ASSUME Watch
    PROVE  /\ \A r \in Requests : since[r] \subseteq since'[r]
           /\ excused \subseteq excused'
           /\ Sees'
<1>1. \A r \in Requests :
          since'[r] = IF Running(r)' THEN since[r] \cup InReach(r)' ELSE since[r]
  BY DEF Watch, Seeing
<1>2. Sees'
  BY <1>1 DEF Sees
<1> QED
  BY <1>1, <1>2 DEF Watch, Hitting

(* Only a call that joins a flight gets somebody in front of it.             *)
LEMMA WatchBehind ==
    ASSUME Watch, Watched
    PROVE  /\ \A r \in Requests : behind'[r] \subseteq Requests
           /\ \A r \in Requests : ~(pc[r] = "do" /\ pc'[r] = "wait") => behind'[r] = behind[r]
BY DEF Watch, Joining, Watched

(* A call keeps what it was given.                                          *)
LEMMA GivenStays ==
    ASSUME Watch, Watched, NEW r \in Requests, pc[r] \in {"incr", "answered"}, answer'[r] = answer[r]
    PROVE  Given(r)'
<1>1. /\ \A l \in Requests : since[l] \subseteq since'[l]
      /\ excused \subseteq excused' /\ behind'[r] = behind[r] /\ behind[r] \subseteq Requests
  BY WatchGrows, WatchBehind DEF Watched
<1>2. Given(r)
  BY DEF Watched
<1> QED
  BY <1>1, <1>2 DEF Given

(* A flight keeps its leader while nobody joins or leaves it.                *)
LEMMA LedStays ==
    ASSUME Watch, Watched, NEW f \in Flights,
           flight[f] # None, flight'[f].found = flight[f].found,
           \A r \in Requests : (pc'[r] = "wait" /\ FlightOf(r)' = f) <=> (pc[r] = "wait" /\ FlightOf(r) = f)
    PROVE  \E l \in Requests : LedBy(f, l)'
<1>1. PICK l \in Requests : LedBy(f, l)
  BY DEF Watched, Led
<1>2. \A r \in Requests : (pc[r] = "wait" /\ FlightOf(r) = f) => behind'[r] = behind[r]
  BY WatchBehind
<1>3. since[l] \subseteq since'[l]
  BY WatchGrows
<1> QED
  BY <1>1, <1>2, <1>3 DEF LedBy, Leader

(* A step that moves no call and leaves each flight what it found.           *)
LEMMA WatchedAside ==
    ASSUME Watch, Watched, UNCHANGED <<pc, on, answer>>,
           \A f \in Flights : /\ flight'[f] = None <=> flight[f] = None
                              /\ flight[f] # None => flight'[f].found = flight[f].found,
           \A r \in Requests : pc[r] = "wait" => FlightOf(r) \in Flights
    PROVE  Watched'
<1> \A r \in Requests : FlightOf(r)' = FlightOf(r)
  BY DEF FlightOf, Text
<1>1. Led'
  BY LedStays DEF Led
<1>2. Awaited'
  BY DEF Watched, Awaited
<1>3. \A r \in Requests : pc'[r] \in {"incr", "answered"} => Given(r)'
  BY GivenStays
<1> QED
  BY <1>1, <1>2, <1>3, WatchGrows, WatchBehind DEF Watched

LEMMA WatchedWriter ==
    ASSUME Typing, Watch, Watched, NEW w \in Writers, WriterStep(w)
    PROVE  Watched'
<1>1. UNCHANGED <<pc, on, answer>>
  BY DEF WriterStep, Begin, WFail, Check, Insert, Write, Reread, FindDoc, Remove,
         InvalidAllKey, InvalidAllKeyError
<1>2. \A f \in Flights : /\ flight'[f] = None <=> flight[f] = None
                         /\ flight[f] # None => flight'[f].found = flight[f].found
  <2>1. CASE UNCHANGED flight
    BY <2>1
  <2>2. CASE Insert(w)
    <3> DEFINE doc == [scope |-> ScopeOf(warg[w]), ver |-> w, set |-> warg[w].set]
    <3>1. Touch(w, w, doc) /\ w \in Docs /\ doc \in DocRec
      BY <2>2, InsertDoc DEF Insert, Docs
    <3>2. doc.ver = w
      OBVIOUS
    <3> HIDE DEF doc
    <3> QED
      BY <3>1, <3>2, TouchType DEF Typing
  <2>3. CASE Write(w)
    <3> DEFINE d   == warg[w].doc
               doc == [scope |-> Moved(warg[w], docs[d].scope), ver |-> w, set |-> warg[w].set]
    <3>1. CASE docs[d] = None
      BY <2>3, <3>1 DEF Write
    <3>2. CASE docs[d] # None
      <4>1. Touch(w, d, doc) /\ d \in Docs /\ doc \in DocRec /\ doc.ver = w
        BY <2>3, <3>2, WriteDoc DEF Write
      <4> HIDE DEF d, doc
      <4> QED
        BY <4>1, TouchType DEF Typing
    <3> QED
      BY <3>1, <3>2
  <2>4. CASE Remove(w)
    <3>1. warg[w].doc \in Docs
      BY <2>4, RemovedDoc DEF Remove
    <3>2. CASE Touch(w, warg[w].doc, None)
      BY <3>1, <3>2, TouchType DEF Typing
    <3> QED
      BY <2>4, <3>2 DEF Remove
  <2> QED
    BY <2>1, <2>2, <2>3, <2>4 DEF WriterStep, Begin, WFail, Check, Reread, FindDoc,
       InvalidAllKey, InvalidAllKeyError
<1>3. \A r \in Requests : pc[r] = "wait" => FlightOf(r) \in Flights
  BY PlaceType DEF Typing, TypeOK
<1> QED
  BY <1>1, <1>2, <1>3, WatchedAside

(* A call may be answered with what any scope contains that a call with the   *)
(* same text asked for.                                                     *)
LEMMA AskedIsInReach ==
    ASSUME Typing, NEW r \in Requests, NEW s, Asked(Text(r), s)
    PROVE  Contained(s) \subseteq InReach(r)
<1>1. PICK q \in Requests : on[q] # None /\ Text(q) = Text(r) /\ on[q][2].scope = s
  BY DEF Asked
<1>2. on[q][2] \in Keys /\ TextOf[on[q][2]] = Text(r) /\ Text(r) \in Texts
  BY <1>1, PlaceType DEF Typing, TypeOK, Text
<1>3. s \in Alike[Text(r)]
  BY <1>1, <1>2 DEF Alike
<1> QED
  BY <1>3 DEF InReach

(* A hit answers with what a scope in reach contains, or with an entry that   *)
(* has an excuse.                                                           *)
LEMMA WatchedHit ==
    ASSUME Typing, Freshness, Recorded, Watch, Watched, NEW r \in Requests, CacheHit(r)
    PROVE  Given(r)'
<1> DEFINE t == Text(r)
<1>1. /\ pc[r] = "get" /\ pc'[r] = "answered" /\ cached[t] # None
      /\ answer'[r] = cached[t].content /\ t \in Texts
  <2>1. pc[r] = "get" /\ on[r] \in Places
    BY DEF CacheHit, Typing, TypeOK
  <2> QED
    BY <2>1, PlaceType DEF CacheHit, Hits, Typing, TypeOK
<1>2. CASE cached[t].content \in Cacheable(cached[t].scope)
  <2>1. answer'[r] \in Contained(cached[t].scope)
    BY <1>1, <1>2 DEF Cacheable, Contained
  <2>2. answer'[r] \in InReach(r)
    BY <1>1, <2>1, AskedIsInReach DEF Recorded
  <2>3. answer'[r] \in since[r]
    BY <1>1, <2>2 DEF Watched, Sees, Running
  <2> QED
    BY <2>3, WatchGrows DEF Given
<1>3. CASE cached[t].content \notin Cacheable(cached[t].scope)
  <2>1. Excused(t)
    BY <1>1, <1>3, FreshExplains DEF StaleExplained
  <2>2. r \in excused'
    BY <1>1, <2>1 DEF Watch, Hitting
  <2> QED
    BY <2>2 DEF Given
<1> QED
  BY <1>2, <1>3

(* Joining a flight, or starting one.                                       *)
LEMMA WatchedDo ==
    ASSUME Typing, Watch, Watched, NEW r \in Requests, Do(r)
    PROVE  Watched'
<1> PICK f \in Flights : f = FlightOf(r)
  BY PlaceType DEF Do, Typing, TypeOK
<1>1. /\ pc[r] = "do" /\ f = FlightOf(r) /\ pc' = [pc EXCEPT ![r] = "wait"]
      /\ UNCHANGED <<on, answer>>
      /\ \A q \in Requests : FlightOf(q)' = FlightOf(q)
  BY DEF Do, Typing, TypeOK, FlightOf, Text
<1>2. /\ pc'[r] = "wait"
      /\ \A q \in Requests \ {r} : pc'[q] = pc[q] /\ behind'[q] = behind[q]
  <2>1. pc'[r] = "wait" /\ \A q \in Requests \ {r} : pc'[q] = pc[q]
    BY <1>1 DEF Typing, TypeOK
  <2> QED
    BY <2>1, WatchBehind
<1>3. behind'[r] = {l \in Requests : Leader(l, f)}
  BY <1>1, <1>2 DEF Watch, Joining
<1>4. \A g \in Flights \ {f} : flight'[g] = flight[g]
  BY DEF Do, Typing, TypeOK
<1>5. flight'[f] # None
  <2>1. [scope |-> on[r][2].scope, step |-> "find", found |-> None,
         seq |-> FALSE, raced |-> FALSE] \in Fetch
    BY PlaceType DEF Do, Typing, TypeOK, Fetch
  <2> QED
    BY <1>1, <2>1, NoneAssumption DEF Do, Typing, TypeOK
<1>6. \E l \in Requests : LedBy(f, l)'
  <2>1. CASE flight[f] = None
    <3>1. \A q \in Requests : ~(pc[q] = "wait" /\ FlightOf(q) = f)
      BY <2>1 DEF Watched, Awaited
    <3>2. flight'[f].found = None
      BY <1>1, <2>1 DEF Do, Typing, TypeOK
    <3>3. behind'[r] = {}
      BY <1>3, <3>1 DEF Leader
    <3>4. LedBy(f, r)'
      BY <1>1, <1>2, <3>1, <3>2, <3>3 DEF LedBy, Leader
    <3> QED
      BY <3>4
  <2>2. CASE flight[f] # None
    <3>1. flight' = flight
      BY <2>2 DEF Do
    <3>2. PICK l \in Requests : LedBy(f, l)
      BY <1>1, <2>2 DEF Watched, Led
    <3>3. l # r /\ Leader(l, f)
      BY <1>1, <3>2 DEF LedBy, Leader
    <3>4. l \in behind'[r]
      BY <1>3, <3>3
    <3>5. since[l] \subseteq since'[l]
      BY WatchGrows
    <3>6. LedBy(f, l)'
      BY <1>1, <1>2, <3>1, <3>2, <3>3, <3>4, <3>5 DEF LedBy, Leader
    <3> QED
      BY <3>6
  <2> QED
    BY <2>1, <2>2
<1>7. Led'
  <2>1. ASSUME NEW g \in Flights \ {f}, flight'[g] # None PROVE \E l \in Requests : LedBy(g, l)'
    <3>1. \A q \in Requests : (pc'[q] = "wait" /\ FlightOf(q)' = g)
                               <=> (pc[q] = "wait" /\ FlightOf(q) = g)
      BY <1>1, <1>2, <2>1
    <3> QED
      BY <1>4, <2>1, <3>1, LedStays
  <2> QED
    BY <1>6, <2>1 DEF Led
<1>8. Awaited'
  <2>1. \A q \in Requests : pc[q] = "wait" => FlightOf(q) \in Flights
    BY PlaceType DEF Typing, TypeOK
  <2> QED
    BY <1>1, <1>2, <1>4, <1>5, <2>1 DEF Watched, Awaited
<1>9. \A q \in Requests : pc'[q] \in {"incr", "answered"} => Given(q)'
  BY <1>1, <1>2, GivenStays
<1> QED
  BY <1>7, <1>8, <1>9, WatchGrows, WatchBehind DEF Watched

LEMMA WatchedCall ==
    ASSUME Typing, Freshness, Recorded, Watch, Watched, NEW r \in Requests, Arrive(r) \/ Call(r)
    PROVE  Watched'
<1>1. CASE Do(r)
  BY <1>1, WatchedDo
<1>2. CASE ~Do(r)
  <2>1. /\ UNCHANGED flight
        /\ pc[r] \in {"idle", "get", "incr"} /\ pc'[r] # "wait"
        /\ \A q \in Requests \ {r} : /\ pc'[q] = pc[q] /\ answer'[q] = answer[q]
                                      /\ FlightOf(q)' = FlightOf(q)
    BY <1>2 DEF Arrive, Call, CacheHit, CacheMiss, Incr, Typing, TypeOK, FlightOf, Text
  <2>2. Led'
    BY <2>1, LedStays DEF Led
  <2>3. Awaited'
    BY <2>1 DEF Watched, Awaited
  <2>4. pc'[r] \in {"incr", "answered"} => Given(r)'
    <3>1. CASE CacheHit(r)
      BY <3>1, WatchedHit
    <3>2. CASE Incr(r) /\ pc'[r] = "answered"
      <4>1. pc[r] = "incr" /\ answer' = answer
        BY <3>2 DEF Incr, Typing, TypeOK
      <4> QED
        BY <4>1, GivenStays
    <3> QED
      BY <1>2, <3>1, <3>2 DEF Arrive, Call, CacheMiss, Incr, Typing, TypeOK
  <2>5. \A q \in Requests : pc'[q] \in {"incr", "answered"} => Given(q)'
    BY <2>1, <2>4, GivenStays
  <2> QED
    BY <2>2, <2>3, <2>5, WatchGrows, WatchBehind DEF Watched
<1> QED
  BY <1>1, <1>2

LEMMA WatchedFlight ==
    ASSUME Typing, Recorded, Watch, Watched, NEW f \in Flights, Fly(f)
    PROVE  Watched'
<1>1. flight[f] # None /\ flight[f] \in Fetch
  BY DEF Fly, Find, Set, Return, Typing, TypeOK
<1>2. /\ \A r \in Requests : pc[r] = "wait" => FlightOf(r) \in Flights
      /\ \A r \in Requests : FlightOf(r)' = FlightOf(r)
  BY PlaceType DEF Typing, TypeOK, Fly, Find, Set, Return, FlightOf, Text
<1>3. CASE Find(f)
  <2>1. UNCHANGED <<pc, on, answer>>
    BY <1>3 DEF Find
  <2>2. /\ \A g \in Flights \ {f} : flight'[g] = flight[g]
        /\ flight'[f] # None
        /\ flight'[f].found \in {flight[f].found} \cup Contained(flight[f].scope)
    <3> DEFINE Fetched(d) == [scope |-> flight[f].scope, step |-> IF docs[d].set.seq THEN "return" ELSE "set",
                              found |-> ContentOf(d), seq |-> docs[d].set.seq, raced |-> FALSE]
               Failed == [flight[f] EXCEPT !.step = "return"]
    <3>1. flight[f].scope \in Scopes
      BY <1>1 DEF Fetch
    <3>2. \A d \in Matching(flight[f].scope) :
             Fetched(d) \in Fetch /\ Fetched(d).found \in Contained(flight[f].scope)
      BY <3>1, MatchingContent DEF Typing, Fetch, DocRec, Contained
    <3>3. Failed \in Fetch /\ Failed.found = flight[f].found
      BY <1>1 DEF Fetch
    <3>4. \/ \E d \in Matching(flight[f].scope) : flight' = [flight EXCEPT ![f] = Fetched(d)]
          \/ flight' = [flight EXCEPT ![f] = Failed]
      BY <1>3 DEF Find
    <3> HIDE DEF Fetched, Failed
    <3> QED
      BY <3>2, <3>3, <3>4, NoneAssumption DEF Typing, TypeOK
  <2>3. PICK l \in Requests : LedBy(f, l)
    BY <1>1 DEF Watched, Led
  <2>4. Contained(flight[f].scope) \subseteq since[l] /\ since[l] \subseteq since'[l]
    <3>1. pc[l] = "wait" /\ Text(l) = f[2]
      BY <2>3 DEF LedBy, Leader, FlightOf
    <3>2. Contained(flight[f].scope) \subseteq InReach(l)
      BY <1>1, <3>1, AskedIsInReach DEF Recorded
    <3> QED
      BY <3>1, <3>2, WatchGrows DEF Watched, Sees, Running
  <2>5. \A r \in Requests : behind'[r] = behind[r]
    BY <2>1, WatchBehind
  <2>6. LedBy(f, l)'
    BY <1>2, <2>1, <2>2, <2>3, <2>4, <2>5 DEF LedBy, Leader
  <2>7. Led'
    BY <1>2, <2>1, <2>2, <2>6, LedStays DEF Led
  <2>8. Awaited'
    BY <1>2, <2>1, <2>2 DEF Watched, Awaited
  <2>9. \A r \in Requests : pc'[r] \in {"incr", "answered"} => Given(r)'
    BY <2>1, GivenStays
  <2> QED
    BY <2>7, <2>8, <2>9, WatchGrows, WatchBehind DEF Watched
<1>4. CASE Set(f)
  <2>1. UNCHANGED <<pc, on, answer>> /\ flight' = [flight EXCEPT ![f].step = "return"]
    BY <1>4 DEF Set
  <2>2. [flight[f] EXCEPT !.step = "return"] \in Fetch
    BY <1>1 DEF Fetch
  <2>3. \A g \in Flights : /\ flight'[g] = None <=> flight[g] = None
                           /\ flight[g] # None => flight'[g].found = flight[g].found
    BY <1>1, <2>1, <2>2, NoneAssumption DEF Typing, TypeOK, Fetch
  <2> QED
    BY <1>2, <2>1, <2>3, WatchedAside
<1>5. CASE Return(f)
  <2>1. /\ \A g \in Flights \ {f} : flight'[g] = flight[g]
        /\ flight'[f] = None /\ UNCHANGED on
    BY <1>5 DEF Return, Typing, TypeOK
  <2>2. \A r \in Requests \ Woken(f) : pc'[r] = pc[r] /\ answer'[r] = answer[r]
    BY <1>5 DEF Return, Typing, TypeOK
  <2>3. \A r \in Woken(f) : /\ r \in Requests /\ pc[r] = "wait" /\ FlightOf(r) = f
                            /\ pc'[r] \in {"failed", "incr", "answered"}
                            /\ pc'[r] # "failed" => answer'[r] = flight[f].found
                                                    /\ flight[f].found # None
    BY <1>5 DEF Return, Woken
  <2>4. Led'
    <3>1. ASSUME NEW g \in Flights, flight'[g] # None PROVE \E l \in Requests : LedBy(g, l)'
      <4>1. g # f
        BY <2>1, <3>1
      <4>2. \A r \in Requests : (pc'[r] = "wait" /\ FlightOf(r)' = g)
                                <=> (pc[r] = "wait" /\ FlightOf(r) = g)
        BY <1>2, <2>1, <2>2, <2>3, <4>1
      <4> QED
        BY <2>1, <3>1, <4>1, <4>2, LedStays
    <3> QED
      BY <3>1 DEF Led
  <2>5. Awaited'
    <3>1. \A r \in Requests : pc'[r] = "wait" => pc[r] = "wait" /\ FlightOf(r) # f
      BY <2>2, <2>3 DEF Woken
    <3> QED
      BY <1>2, <2>1, <3>1 DEF Watched, Awaited
  <2>6. ASSUME NEW r \in Requests, pc'[r] \in {"incr", "answered"} PROVE Given(r)'
    <3>1. CASE r \in Woken(f)
      <4>1. PICK l \in Requests : LedBy(f, l)
        BY <1>1 DEF Watched, Led
      <4>2. l \in {r} \cup behind[r] /\ answer'[r] \in since[l]
        BY <2>3, <2>6, <3>1, <4>1 DEF LedBy
      <4>3. behind'[r] = behind[r] /\ since[l] \subseteq since'[l]
        BY <2>3, <3>1, WatchGrows, WatchBehind
      <4> QED
        BY <4>2, <4>3 DEF Given
    <3>2. CASE r \notin Woken(f)
      BY <2>2, <2>6, <3>2, GivenStays
    <3> QED
      BY <3>1, <3>2
  <2> QED
    BY <2>4, <2>5, <2>6, WatchGrows, WatchBehind DEF Watched
<1> QED
  BY <1>3, <1>4, <1>5 DEF Fly

LEMMA WatchedRestart ==
    ASSUME Typing, Watch, Watched, NEW p \in Pods, Restart(p)
    PROVE  Watched'
<1>1. /\ \A f \in Flights : flight'[f] = IF f[1] = p THEN None ELSE flight[f]
      /\ \A r \in Requests : pc'[r] = IF pc[r] \in {"get", "do", "wait", "incr"} /\ on[r][1] = p
                                      THEN "failed" ELSE pc[r]
      /\ UNCHANGED <<on, answer>>
      /\ \A r \in Requests : FlightOf(r)' = FlightOf(r) /\ FlightOf(r)[1] = on[r][1]
  BY DEF Restart, FlightOf, Text
<1>2. Led'
  BY <1>1, LedStays DEF Led
<1>3. Awaited'
  <2>1. \A r \in Requests : pc[r] = "wait" => FlightOf(r) \in Flights
    BY PlaceType DEF Typing, TypeOK
  <2> QED
    BY <1>1, <2>1 DEF Watched, Awaited
<1>4. \A r \in Requests : pc'[r] \in {"incr", "answered"} => Given(r)'
  BY <1>1, GivenStays
<1> QED
  BY <1>2, <1>3, <1>4, WatchGrows, WatchBehind DEF Watched

LEMMA WatchedStep ==
    Typing /\ Freshness /\ Recorded /\ Watched /\ [WatchedNext]_watchedVars => Watched'
<1> SUFFICES ASSUME Typing, Freshness, Recorded, Watched, [WatchedNext]_watchedVars PROVE Watched'
  OBVIOUS
<1>1. CASE WatchedNext
  <2>1. Watch /\ Next
    BY <1>1 DEF WatchedNext, Watch
  <2>2. ASSUME NEW r \in Requests, Arrive(r) \/ Call(r) PROVE Watched'
    BY <2>1, <2>2, WatchedCall
  <2>3. ASSUME NEW f \in Flights, Fly(f) PROVE Watched'
    BY <2>1, <2>3, WatchedFlight
  <2>4. ASSUME NEW w \in Writers, WriterStep(w) PROVE Watched'
    BY <2>1, <2>4, WatchedWriter
  <2>5. ASSUME NEW p \in Pods, Restart(p) PROVE Watched'
    BY <2>1, <2>5, WatchedRestart
  <2>6. CASE UNCHANGED vars
    <3>1. \A r \in Requests : pc[r] = "wait" => FlightOf(r) \in Flights
      BY PlaceType DEF Typing, TypeOK
    <3> QED
      BY <2>1, <2>6, <3>1, WatchedAside DEF vars
  <2> QED
    BY <2>1, <2>2, <2>3, <2>4, <2>5, <2>6 DEF Next, AllReturned, WriterStep
<1>2. CASE UNCHANGED watchedVars
  <2>1. \A r \in Requests : InReach(r)' = InReach(r) /\ FlightOf(r)' = FlightOf(r)
    BY <1>2 DEF watchedVars, vars, InReach, Alike, Contained, Matching, ContentOf, FlightOf, Text
  <2>2. Sees' /\ Awaited' /\ Led'
    BY <1>2, <2>1 DEF watchedVars, vars, history, Watched, Sees, Running, Awaited,
       Led, LedBy, Leader
  <2> QED
    BY <1>2, <2>2 DEF watchedVars, vars, history, Watched, Given
<1> QED
  BY <1>1, <1>2

(* However calls, flights, pods and admins interleave, an answer is something *)
(* that the scope of the call, or one whose key reads alike, had while the    *)
(* call ran, or while the call ran that it joined, unless it came from a      *)
(* stale entry with one of the known reasons.                               *)
THEOREM AnswersWereCurrent == WatchedSpec => []AnswerWasCurrent
<1>1. WatchedInit => Typing /\ Freshness /\ Recorded /\ Watched
  BY TypeInit, FreshInit, RecordedInit, WatchedAtStart DEF WatchedInit
<1>2. [WatchedNext]_watchedVars => [Next]_vars
  BY DEF WatchedNext, watchedVars
<1>3. /\ Typing /\ Freshness /\ Recorded /\ Watched /\ [WatchedNext]_watchedVars
      => Typing' /\ Freshness' /\ Recorded' /\ Watched'
  BY <1>2, TypeStep, FreshStep, RecordedStep, WatchedStep
<1>4. Watched => AnswerWasCurrent
  BY DEF Watched, Given, AnswerWasCurrent
<1> QED
  BY <1>1, <1>3, <1>4, PTL DEF WatchedSpec

(* Every shared fetch has a caller that waits for it, and every caller that    *)
(* waits has a fetch: the callers of a flight go on together, whichever way   *)
(* it ends.                                                                  *)
THEOREM NobodyIsForgotten == WatchedSpec => []FlightsAreAwaited
<1>1. WatchedInit => Typing /\ Freshness /\ Recorded /\ Watched
  BY TypeInit, FreshInit, RecordedInit, WatchedAtStart DEF WatchedInit
<1>2. [WatchedNext]_watchedVars => [Next]_vars
  BY DEF WatchedNext, watchedVars
<1>3. /\ Typing /\ Freshness /\ Recorded /\ Watched /\ [WatchedNext]_watchedVars
      => Typing' /\ Freshness' /\ Recorded' /\ Watched'
  BY <1>2, TypeStep, FreshStep, RecordedStep, WatchedStep
<1>4. Watched => FlightsAreAwaited
  BY DEF Watched, Awaited, Led, LedBy, Leader, FlightsAreAwaited
<1> QED
  BY <1>1, <1>3, <1>4, PTL DEF WatchedSpec
===============================================================================
