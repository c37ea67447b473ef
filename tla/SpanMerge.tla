------------------------------- MODULE SpanMerge -------------------------------
(***************************************************************************)
(* obfuscateLine of internal/netdev/obfuscate.go, after the patterns have  *)
(* run: the spans they captured are sorted by start, merged IN PLACE, and  *)
(* the line is rebuilt with a token for each merged span.  merged is       *)
(* spans[:1], so an append overwrites the array that the range loop is     *)
(* still reading; every read and write below goes to that one array.       *)
(***************************************************************************)
EXTENDS Integers, Sequences

CONSTANTS
    LineLen,  \* length of the line
    Found     \* the sorted sequences of captured spans to consider

Span == [start: Nat, end: Nat]

\* Captures of a line, empty ones left out, sorted by start: SortFunc leaves
\* spans with the same start in any order.
Captures ==
    {s \in Seq(Span) :
        /\ \A j \in 1..Len(s) : s[j].start < s[j].end /\ s[j].end <= LineLen
        /\ \A j, k \in 1..Len(s) : j < k => s[j].start <= s[k].start}

ASSUME LineLenAssumption == LineLen \in Nat
ASSUME FoundAssumption == \A s \in Found : s \in Captures

VARIABLES
    spans,   \* the array
    at,      \* where the function is: "merge", "build" or "done"
    next,    \* the element the range loop reads next
    last,    \* len(merged): merged is the array up to here
    written, \* merged spans the builder has replaced
    prev,    \* end of the last of them
    clear,   \* positions of the line copied to the output as they are
    found    \* history: the spans as sorted

vars == <<spans, at, next, last, written, prev, clear, found>>

TypeOK ==
    /\ found \in Captures
    /\ spans \in [1..Len(found) -> Span]
    /\ at \in {"merge", "build", "done"}
    /\ next \in Nat
    /\ last \in Nat
    /\ written \in Nat
    /\ prev \in Nat
    /\ clear \subseteq 0..LineLen-1

Init ==
    /\ found \in Found
    /\ spans = found
    /\ at = "merge"
    /\ next = 2
    /\ last = 1
    /\ written = 0
    /\ prev = 0
    /\ clear = {}

-----------------------------------------------------------------------------
\* No secret: the line is returned as it came.
NothingFound ==
    /\ at = "merge"
    /\ Len(found) = 0
    /\ clear' = 0..LineLen-1
    /\ at' = "done"
    /\ UNCHANGED <<spans, next, last, written, prev, found>>

\* Mutants: no overlap is noticed; the later end is taken, even if smaller.
NeverStartsInside(s, t) == FALSE
GrownToLater(t, s) == [start |-> t.start, end |-> s.end]

StartsInside(s, t) == s.start < t.end

\* last.end = max(last.end, s.end)
Grown(t, s) == [start |-> t.start, end |-> IF s.end > t.end THEN s.end ELSE t.end]

\* The span starts inside the last merged one, which grows if need be.
Extend ==
    /\ at = "merge"
    /\ next <= Len(found)
    /\ StartsInside(spans[next], spans[last])
    /\ spans' = [spans EXCEPT ![last] = Grown(spans[last], spans[next])]
    /\ next' = next + 1
    /\ UNCHANGED <<at, last, written, prev, clear, found>>

\* Mutant: one element too far.
AppendTooFar ==
    /\ at = "merge"
    /\ next <= Len(found)
    /\ ~StartsInside(spans[next], spans[last])
    /\ spans' = [j \in DOMAIN spans |-> IF j = last + 2 THEN spans[next] ELSE spans[j]]
    /\ last' = last + 1
    /\ next' = next + 1
    /\ UNCHANGED <<at, written, prev, clear, found>>

\* append(merged, s), into the array itself.
AppendSpan ==
    /\ at = "merge"
    /\ next <= Len(found)
    /\ ~StartsInside(spans[next], spans[last])
    /\ spans' = [spans EXCEPT ![last + 1] = spans[next]]
    /\ last' = last + 1
    /\ next' = next + 1
    /\ UNCHANGED <<at, written, prev, clear, found>>

MergeDone ==
    /\ at = "merge"
    /\ Len(found) > 0
    /\ next > Len(found)
    /\ at' = "build"
    /\ UNCHANGED <<spans, next, last, written, prev, clear, found>>

\* line[prev:start], then the token of line[start:end].
WriteSpan ==
    /\ at = "build"
    /\ written < last
    /\ clear' = clear \cup (prev..(spans[written + 1].start - 1))
    /\ prev' = spans[written + 1].end
    /\ written' = written + 1
    /\ UNCHANGED <<spans, at, next, last, found>>

\* Mutant: one position past the end of the line.
WriteTailTooFar ==
    /\ at = "build"
    /\ written = last
    /\ clear' = clear \cup (prev..LineLen)
    /\ at' = "done"
    /\ UNCHANGED <<spans, next, last, written, prev, found>>

WriteTail ==
    /\ at = "build"
    /\ written = last
    /\ clear' = clear \cup (prev..(LineLen - 1))
    /\ at' = "done"
    /\ UNCHANGED <<spans, next, last, written, prev, found>>

Next == NothingFound \/ Extend \/ AppendSpan \/ MergeDone \/ WriteSpan \/ WriteTail

Spec == Init /\ [][Next]_vars

-----------------------------------------------------------------------------
Inside(p, s) == s.start <= p /\ p < s.end

Secret(p) == \E j \in 1..Len(found) : Inside(p, found[j])

\* The output keeps exactly the positions that no pattern captured: no part
\* of a secret survives an overlap or the in-place merge, and nothing else is
\* swallowed with it.
SecretsHidden ==
    at = "done" => clear = {p \in 0..LineLen-1 : ~Secret(p)}

\* The merge never overwrites a span the range loop has still to read.
UnreadIntact ==
    at = "merge" => \A j \in next..Len(found) : spans[j] = found[j]

\* The slices the builder takes are in order and within the line, so that no
\* line panics: line[prev:start] and line[start:end] of every merged span.
SlicesInRange ==
    at = "build" /\ written < last =>
        /\ prev <= spans[written + 1].start
        /\ spans[written + 1].start < spans[written + 1].end
        /\ spans[written + 1].end <= LineLen
=============================================================================
