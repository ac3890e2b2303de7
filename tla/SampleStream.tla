----------------------------- MODULE SampleStream -----------------------------
(***************************************************************************)
(* What libsigrokdecode promises a decoder script: one continuous stream   *)
(* of samples.  A script asks for the next sample at which one of a list   *)
(* of conditions holds, and is answered with the first such sample of the  *)
(* stream, however the application cuts the capture into chunks.           *)
(***************************************************************************)
EXTENDS WaitConditions

VARIABLES
    data,   \* the samples of the capture
    given,  \* how many of them the application has handed over
    ask     \* the script: what it asks for, from where, and what it was answered

vars == <<data, given, ask>>

\* The value the stream had before sample p, for a question asked at q.from.
Before(q, p) ==
    IF p > q.from THEN data[p - 1]
    ELSE IF p = 0 /\ q.before = Same THEN data[0] ELSE q.before

\* The conditions of question q that hold at sample p.
MatchedAt(q, p) == {term \in q.conds : Holds(term, Before(q, p), data[p], p - q.from)}

Silent(status, p) == [status |-> status, conds |-> {}, from |-> p, before |-> Same,
                      num |-> 0, matched |-> {}]

Init ==
    /\ data \in [0..(NumSamples - 1) -> Pin]
    /\ given \in Pos
    /\ ask = Silent("over", given)

\* A new session starts at sample p, or one that asked nothing starts anew.
Open(p) ==
    /\ ask.status = "over" \/ (ask.status = "script" /\ ask.conds = {})
    /\ given' = p
    /\ ask' = Silent("script", p)
    /\ UNCHANGED data

\* The application hands over samples; it never takes one back.
Supply(e) ==
    /\ e >= given
    /\ given' = e
    /\ UNCHANGED <<data, ask>>

\* wait(): the next question starts at the last answer, which is the sample
\* before it as well: a level may be found there again, an edge may not.
Ask(conds) ==
    /\ ask.status = "script"
    /\ ask' = [status  |-> "asking",
               conds   |-> conds,
               from    |-> IF ask.conds = {} THEN ask.from ELSE ask.num,
               before  |-> IF ask.conds = {} THEN Same ELSE data[ask.num],
               num     |-> ask.num,
               matched |-> {}]
    /\ UNCHANGED <<data, given>>

\* The answer: the first sample at which a condition holds, and all that do.
Answer(p) ==
    /\ ask.status = "asking"
    /\ p \in ask.from..(given - 1)
    /\ MatchedAt(ask, p) # {}
    /\ \A q \in ask.from..(p - 1) : MatchedAt(ask, q) = {}
    /\ ask' = [status |-> "script", conds |-> ask.conds, from |-> ask.from,
               before |-> ask.before, num |-> p, matched |-> MatchedAt(ask, p)]
    /\ UNCHANGED <<data, given>>

\* The script ends, or is made to; what was not yet read is gone.
Over(p) ==
    /\ p <= given
    /\ given' = p
    /\ ask' = [ask EXCEPT !.status = "over"]
    /\ UNCHANGED data

Next ==
    \/ \E p \in Pos : Open(p) \/ Supply(p) \/ Answer(p) \/ Over(p)
    \/ \E conds \in CondLists \cup Skips : Ask(conds)

Spec == Init /\ [][Next]_vars
=============================================================================
