------------------------------ MODULE MCSpanMerge ------------------------------
(***************************************************************************)
(* Instances of SpanMerge for TLC: every sorted sequence of up to MaxSpans *)
(* spans of a line of LineLen positions.                                   *)
(***************************************************************************)
EXTENDS SpanMerge

CONSTANT MaxSpans

SpansInLine == {s \in [start: 0..LineLen-1, end: 1..LineLen] : s.start < s.end}

EverySorted ==
    {s \in UNION {[1..n -> SpansInLine] : n \in 0..MaxSpans} :
        \A j \in 1..(Len(s) - 1) : s[j].start <= s[j + 1].start}
=============================================================================
