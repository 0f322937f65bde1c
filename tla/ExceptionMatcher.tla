--------------------------- MODULE ExceptionMatcher ---------------------------
(***************************************************************************)
(* What the goroutines that share one exceptions.Processor rely on: every  *)
(* comparison and every digest of a designator is answered as if it were   *)
(* computed afresh for the one who asks.  There is no cache here.          *)
(***************************************************************************)
CONSTANTS
    Goroutine,  \* the goroutines that share the processor
    Request,    \* what they can ask
    Answer,     \* Answer[r]: the right answer to request r
    Nothing     \* neither a request nor an answer

VARIABLES
    asked,      \* asked[g]: the last request of g
    busy,       \* busy[g]: g waits for the answer
    answered    \* answered[g]: the answer it got, or Nothing

matcherVars == <<asked, busy, answered>>

MatcherInit ==
    /\ asked = [g \in Goroutine |-> Nothing]
    /\ busy = [g \in Goroutine |-> FALSE]
    /\ answered = [g \in Goroutine |-> Nothing]

Ask(g, r) ==
    /\ ~busy[g]
    /\ asked' = [asked EXCEPT ![g] = r]
    /\ busy' = [busy EXCEPT ![g] = TRUE]
    /\ answered' = [answered EXCEPT ![g] = Nothing]

Reply(g) ==
    /\ busy[g]
    /\ busy' = [busy EXCEPT ![g] = FALSE]
    /\ answered' = [answered EXCEPT ![g] = Answer[asked[g]]]
    /\ UNCHANGED asked

MatcherNext == \E g \in Goroutine : Reply(g) \/ \E r \in Request : Ask(g, r)

MatcherSpec == MatcherInit /\ [][MatcherNext]_matcherVars
=============================================================================
