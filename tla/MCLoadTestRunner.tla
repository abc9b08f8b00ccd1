--------------------------- MODULE MCLoadTestRunner ---------------------------
(* An instance of LoadTestRunner: two workers, two names, a list with two
   accounts, one that holds a name twice and one with one account; scenarios of two steps.
   Beside it an instance of Conditions: until the first run starts, somebody may write the
   text of a condition, and runs start once it is put away. *)
EXTENDS LoadTestRunner

CONSTANTS a, b, user, token, flag

Request == [curl |-> FALSE, valid |-> TRUE, path |-> {user}, rest |-> {}, condition |-> NoVar,
            saves |-> {}, retry |-> FALSE, max |-> 0, expect |-> TRUE]

\* Log in, then use the token; the second step is tried again until its deadline.
LoginThenUse == <<[Request EXCEPT !.saves = {token}],
                  [Request EXCEPT !.path = {token}, !.retry = TRUE]>>

\* A condition on what the first answer held, a curl command tried at most twice.
CurlOnFlag == <<[Request EXCEPT !.saves = {flag}],
                [Request EXCEPT !.curl = TRUE, !.rest = {flag}, !.condition = flag,
                                !.retry = TRUE, !.max = 2]>>

\* A request that cannot be built.
Malformed == <<[Request EXCEPT !.valid = FALSE]>>

MCLists == {<<a, b>>, <<a, a>>, <<b>>}
MCStepLists == {LoginThenUse, CurlOnFlag, Malformed}

-------------------------------------------------------------------------------
CONSTANTS Comparisons, MaxTokens

VARIABLE condition

\* "10" comes before "5" as a string and after it as a number, and both before the words
\* that are no numbers.
MCWords == <<"", "10", "5", "false", "true">>

Texts == INSTANCE Conditions WITH Words <- MCWords

PutAway == condition # <<>> /\ condition' = <<>>

MCNext == \/ condition = <<>> /\ Next /\ UNCHANGED condition
          \/ run.phase = "none" /\ (Texts!AddToken \/ PutAway) /\ UNCHANGED vars

MCInit == Init /\ Texts!Init

MCSpec == /\ MCInit
          /\ [][MCNext]_<<vars, condition>>
          /\ Fairness

\* A condition is evaluated to the value its structure gives it, and is an error exactly
\* when a bracket is never closed, although the code rewrites the text from the inside.
ConditionsAreStandard == Texts!ConditionsAreStandard
===============================================================================
