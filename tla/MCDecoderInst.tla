----------------------------- MODULE MCDecoderInst -----------------------------
(* Instances of DecoderInst: the condition lists scripts use.              *)
EXTENDS DecoderInst

T(kind) == [kind |-> kind, count |-> 0]
Skip(n) == [kind |-> "skip", count |-> n]

\* No condition, edges, levels, the state at rest, and an edge with a timeout.
MCCondLists == {{}, {T("rising")}, {T("high")}, {T("noedge")}, {T("either"), Skip(2)}}

\* What the two-sided handshake needs: a wait that advances and one that may not.
MCFewConds == {{}, {T("low")}}
=============================================================================
