---------------------------- MODULE WaitConditions ----------------------------
(***************************************************************************)
(* The conditions a decoder script passes to wait() and when they hold     *)
(* (instance.c): one channel, a list of conditions of one term each.       *)
(***************************************************************************)
EXTENDS Integers

CONSTANTS
    NumSamples, \* bound: the length of the capture
    MaxSkip,    \* bound: the largest skip count a script uses
    CondLists   \* bound: the condition lists scripts pass to wait()

Same == 2   \* SRD_INITIAL_PIN_SAME_AS_SAMPLE0: no sample seen yet

Pos == 0..NumSamples
Pin == {0, 1}
PinKinds == {"high", "low", "rising", "falling", "either", "noedge"}
Term == [kind : PinKinds, count : {0}] \cup [kind : {"skip"}, count : 0..MaxSkip]

\* A wait() without conditions counts samples instead.
Skips == {{[kind |-> "skip", count |-> n]} : n \in {0, 1}}

ASSUME StreamAssumption ==
    /\ NumSamples \in Nat \ {0}
    /\ MaxSkip \in Nat \ {0}
    /\ CondLists \subseteq SUBSET Term

\* sample_matches: the sample v, the one before it, and how many samples the
\* condition has already let pass.
Holds(term, before, v, passed) ==
    CASE term.kind = "high"    -> v = 1
      [] term.kind = "low"     -> v = 0
      [] term.kind = "rising"  -> before = 0 /\ v = 1
      [] term.kind = "falling" -> before = 1 /\ v = 0
      [] term.kind = "either"  -> {before, v} = {0, 1}
      [] term.kind = "noedge"  -> before = v
      [] OTHER                 -> term.count = passed
=============================================================================
