---------------------------- MODULE SpanMergeProofs ----------------------------
(***************************************************************************)
(* SecretsHidden, UnreadIntact and SlicesInRange for a line of any length  *)
(* and any number of captured spans, in any order the sort allows.         *)
(*                                                                         *)
(* While merging: the array up to last is sorted and disjoint, covers what *)
(* the spans read so far cover, and lies before next, so what is still to  *)
(* be read is as the sort left it, and none of it starts before a merged   *)
(* span.  While building: the output holds the positions before prev that  *)
(* no merged span covers.                                                  *)
(***************************************************************************)
EXTENDS SpanMerge, TLAPS

\* A merged prefix: within the line, sorted and disjoint.
Apart ==
    /\ \A a \in 1..last : spans[a].start < spans[a].end /\ spans[a].end <= LineLen
    /\ \A a, b \in 1..last : a < b => spans[a].end <= spans[b].start

Merged(p) == \E a \in 1..last : Inside(p, spans[a])

MergeInv ==
    /\ last \in 1..(next - 1)
    /\ next <= Len(found) + 1
    /\ Apart
    /\ \A j \in next..Len(found) : spans[j] = found[j]
    /\ \A a \in 1..last, j \in next..Len(found) : spans[a].start <= found[j].start
    /\ \A p \in Nat : Merged(p) <=> \E j \in 1..(next - 1) : Inside(p, found[j])

BuildInv ==
    /\ last \in 1..Len(found)
    /\ Apart
    /\ \A p \in Nat : Merged(p) <=> Secret(p)
    /\ written \in 0..last
    /\ prev = IF written = 0 THEN 0 ELSE spans[written].end
    /\ clear = {p \in 0..(prev - 1) : ~Merged(p)}

Inv ==
    /\ TypeOK
    /\ at = "merge" /\ Len(found) > 0 => MergeInv
    /\ at = "merge" => next >= 2 /\ written = 0 /\ prev = 0 /\ clear = {}
    /\ at = "build" => BuildInv
    /\ SecretsHidden

-----------------------------------------------------------------------------
LEMMA CapturesType ==
    ASSUME NEW s \in Captures
    PROVE  /\ Len(s) \in Nat
           /\ s \in [1..Len(s) -> Span]
           /\ \A j \in 1..Len(s) : /\ s[j].start \in Nat /\ s[j].end \in Nat
                                   /\ s[j].start < s[j].end /\ s[j].end <= LineLen
           /\ \A j, k \in 1..Len(s) : j < k => s[j].start <= s[k].start
<1>1. s \in Seq(Span)
  BY DEF Captures
<1>2. Len(s) \in Nat /\ s \in [1..Len(s) -> Span]
  BY <1>1
<1>3. \A j \in 1..Len(s) : s[j].start \in Nat /\ s[j].end \in Nat
  BY <1>2 DEF Span
<1> QED
  BY <1>2, <1>3 DEF Captures

LEMMA InitInv == Init => Inv
<1> SUFFICES ASSUME Init PROVE Inv
  OBVIOUS
<1>1. found \in Captures /\ spans = found
  BY FoundAssumption DEF Init
<1>2. TypeOK
  BY <1>1, CapturesType, LineLenAssumption DEF Init, TypeOK
<1>3. ASSUME Len(found) > 0 PROVE MergeInv
  <2>1. Len(found) \in Nat /\ last = 1 /\ next = 2
    BY <1>1, CapturesType DEF Init
  <2>2. Apart
    BY <1>1, <1>3, <2>1, CapturesType DEF Apart
  <2>3. \A j \in next..Len(found) : spans[1].start <= found[j].start
    BY <1>1, <1>3, <2>1, CapturesType
  <2>4. \A p \in Nat : Merged(p) <=> \E j \in 1..(next - 1) : Inside(p, found[j])
    BY <1>1, <2>1 DEF Merged
  <2> QED
    BY <1>1, <1>3, <2>1, <2>2, <2>3, <2>4 DEF MergeInv
<1> QED
  BY <1>2, <1>3 DEF Init, Inv, SecretsHidden

-----------------------------------------------------------------------------
\* The elements of the array as numbers.
LEMMA SpansType ==
    ASSUME TypeOK
    PROVE  /\ Len(found) \in Nat
           /\ \A a \in 1..Len(found) : spans[a].start \in Nat /\ spans[a].end \in Nat
  BY CapturesType DEF TypeOK, Span

LEMMA ExtendInv ==
    ASSUME Inv, Extend
    PROVE  Inv'
<1> DEFINE n == Len(found)
           s == spans[next]
<1>1. MergeInv /\ TypeOK /\ n \in Nat /\ n > 0
  BY CapturesType DEF Inv, Extend, TypeOK
<1>2. /\ last \in 1..n /\ next \in 1..n /\ last < next
      /\ s = found[next]
      /\ s.start \in Nat /\ s.end \in Nat /\ s.start < s.end /\ s.end <= LineLen
  <2>1. last \in 1..n /\ next \in 1..n /\ last < next
    BY <1>1 DEF MergeInv, Extend, TypeOK
  <2>2. s = found[next]
    BY <1>1, <2>1 DEF MergeInv
  <2>3. /\ found[next].start \in Nat /\ found[next].end \in Nat
        /\ found[next].start < found[next].end /\ found[next].end <= LineLen
    BY <1>1, <2>1, CapturesType DEF TypeOK
  <2> QED
    BY <2>1, <2>2, <2>3
<1>3. /\ DOMAIN spans = 1..n
      /\ \A a \in 1..n : spans[a].start \in Nat /\ spans[a].end \in Nat
  BY <1>1, SpansType DEF TypeOK
<1>4. spans[last].start <= s.start /\ s.start < spans[last].end
  BY <1>1, <1>2 DEF MergeInv, Extend, StartsInside
<1>5. /\ \A a \in 1..n : a # last => spans'[a] = spans[a]
      /\ spans'[last].start = spans[last].start
      /\ spans'[last].end = IF s.end > spans[last].end THEN s.end ELSE spans[last].end
      /\ spans' \in [1..n -> Span]
  BY <1>1, <1>2, <1>3 DEF Extend, TypeOK, Span, Grown
<1>6. UNCHANGED <<at, last, written, prev, clear, found>> /\ next' = next + 1
  BY DEF Extend
<1>7. TypeOK'
  BY <1>1, <1>5, <1>6 DEF TypeOK
<1>8. Apart'
  <2>1. /\ \A a \in 1..last : spans[a].start < spans[a].end /\ spans[a].end <= LineLen
        /\ \A a, b \in 1..last : a < b => spans[a].end <= spans[b].start
    BY <1>1 DEF MergeInv, Apart
  <2>2. \A a \in 1..last : a \in 1..n /\ a \in Nat
    BY <1>2
  <2>3. ASSUME NEW a \in 1..last
        PROVE  spans'[a].start < spans'[a].end /\ spans'[a].end <= LineLen
    <3>1. CASE a = last
      BY <1>2, <1>3, <1>4, <1>5, <2>1, <3>1
    <3>2. CASE a # last
      BY <1>5, <2>1, <2>2, <3>2
    <3> QED
      BY <3>1, <3>2
  <2>4. ASSUME NEW a \in 1..last, NEW b \in 1..last, a < b
        PROVE  spans'[a].end <= spans'[b].start
    <3>1. a # last /\ spans'[a] = spans[a]
      BY <1>2, <1>5, <2>2, <2>4
    <3>2. spans'[b].start = spans[b].start
      BY <1>5, <2>2
    <3> QED
      BY <2>1, <2>4, <3>1, <3>2
  <2> QED
    BY <1>6, <2>3, <2>4 DEF Apart
<1>9. \A p \in Nat : Inside(p, spans'[last]) <=> Inside(p, spans[last]) \/ Inside(p, s)
  BY <1>2, <1>3, <1>4, <1>5 DEF Inside
<1>10. \A p \in Nat : Merged(p)' <=> Merged(p) \/ Inside(p, s)
  <2>1. ASSUME NEW p \in Nat PROVE Merged(p)' <=> Merged(p) \/ Inside(p, s)
    <3>1. \A a \in 1..last : a # last => (Inside(p, spans'[a]) <=> Inside(p, spans[a]))
      BY <1>2, <1>5
    <3> QED
      BY <1>2, <1>6, <1>9, <2>1, <3>1 DEF Merged
  <2> QED
    BY <2>1
<1>11. \A p \in Nat : Merged(p)' <=> \E j \in 1..next : Inside(p, found[j])
  <2>1. ASSUME NEW p \in Nat
        PROVE  (\E j \in 1..next : Inside(p, found[j]))
                  <=> (\E j \in 1..(next - 1) : Inside(p, found[j])) \/ Inside(p, s)
    BY <1>2
  <2> QED
    BY <1>1, <1>10, <2>1 DEF MergeInv
<1>12. MergeInv'
  <2>1. \A j \in (next + 1)..n : spans'[j] = found[j]
    BY <1>1, <1>2, <1>5 DEF MergeInv
  <2>2. \A a \in 1..last, j \in (next + 1)..n : spans'[a].start <= found[j].start
    BY <1>1, <1>2, <1>5 DEF MergeInv
  <2> QED
    BY <1>2, <1>6, <1>8, <1>11, <2>1, <2>2 DEF MergeInv
<1>13. at' = "merge" /\ next' >= 2 /\ written' = 0 /\ prev' = 0 /\ clear' = {}
  BY <1>2, <1>6 DEF Inv, Extend
<1> QED
  BY <1>1, <1>6, <1>7, <1>12, <1>13 DEF Inv, SecretsHidden

LEMMA AppendInv ==
    ASSUME Inv, AppendSpan
    PROVE  Inv'
<1> DEFINE n == Len(found)
           s == spans[next]
<1>1. MergeInv /\ TypeOK /\ n \in Nat /\ n > 0
  BY CapturesType DEF Inv, AppendSpan, TypeOK
<1>2. /\ last \in 1..n /\ next \in 1..n /\ last + 1 \in 1..n /\ last < next
      /\ s = found[next]
      /\ s.start \in Nat /\ s.end \in Nat /\ s.start < s.end /\ s.end <= LineLen
  <2>1. last \in 1..n /\ next \in 1..n /\ last + 1 \in 1..n /\ last < next
    BY <1>1 DEF MergeInv, AppendSpan, TypeOK
  <2>2. s = found[next]
    BY <1>1, <2>1 DEF MergeInv
  <2>3. /\ found[next].start \in Nat /\ found[next].end \in Nat
        /\ found[next].start < found[next].end /\ found[next].end <= LineLen
    BY <1>1, <2>1, CapturesType DEF TypeOK
  <2> QED
    BY <2>1, <2>2, <2>3
<1>3. /\ DOMAIN spans = 1..n
      /\ \A a \in 1..n : spans[a].start \in Nat /\ spans[a].end \in Nat
  BY <1>1, SpansType DEF TypeOK
<1>4. /\ \A a \in 1..n : a # last + 1 => spans'[a] = spans[a]
      /\ spans'[last + 1] = s
      /\ spans' \in [1..n -> Span]
  BY <1>1, <1>2 DEF AppendSpan, TypeOK
<1>5. /\ UNCHANGED <<at, written, prev, clear, found>>
      /\ next' = next + 1 /\ last' = last + 1
  BY DEF AppendSpan
<1>6. TypeOK'
  BY <1>1, <1>2, <1>4, <1>5 DEF TypeOK
<1>5a. /\ \A a \in 1..last : spans[a].start < spans[a].end /\ spans[a].end <= LineLen
      /\ \A a, b \in 1..last : a < b => spans[a].end <= spans[b].start
  BY <1>1 DEF MergeInv, Apart
<1>5b. \A a \in 1..last : a \in 1..n /\ a # last + 1
  BY <1>2
<1>7. ASSUME NEW a \in 1..last PROVE spans[a].end <= s.start
  <2>1. spans[last].end <= s.start
    BY <1>2, <1>3 DEF AppendSpan, StartsInside
  <2>2. CASE a = last
    BY <2>1, <2>2
  <2>3. CASE a # last
    <3>1. a < last
      BY <1>2, <2>3
    <3>2. spans[a].end <= spans[last].start /\ spans[last].start < spans[last].end
      BY <1>2, <1>5a, <3>1
    <3> QED
      BY <1>2, <1>3, <1>5b, <2>1, <3>2
  <2> QED
    BY <2>2, <2>3
<1>8. Apart'
  <2>1. ASSUME NEW a \in 1..(last + 1)
        PROVE  spans'[a].start < spans'[a].end /\ spans'[a].end <= LineLen
    <3>1. CASE a = last + 1
      BY <1>2, <1>4, <3>1
    <3>2. CASE a # last + 1
      <4>1. a \in 1..last
        BY <1>2, <3>2
      <4> QED
        BY <1>4, <1>5a, <1>5b, <4>1
    <3> QED
      BY <3>1, <3>2
  <2>2. ASSUME NEW a \in 1..(last + 1), NEW b \in 1..(last + 1), a < b
        PROVE  spans'[a].end <= spans'[b].start
    <3>1. a \in 1..last /\ spans'[a] = spans[a]
      <4>1. a \in 1..last
        BY <1>2, <2>2
      <4> QED
        BY <1>4, <1>5b, <4>1
    <3>2. CASE b = last + 1
      BY <1>4, <1>7, <3>1, <3>2
    <3>3. CASE b # last + 1
      <4>1. b \in 1..last
        BY <1>2, <3>3
      <4> QED
        BY <1>4, <1>5a, <1>5b, <2>2, <3>1, <4>1
    <3> QED
      BY <3>2, <3>3
  <2> QED
    BY <1>5, <2>1, <2>2 DEF Apart
<1>9. \A p \in Nat : Merged(p)' <=> \E j \in 1..next : Inside(p, found[j])
  <2>1. ASSUME NEW p \in Nat
        PROVE  Merged(p)' <=> Merged(p) \/ Inside(p, s)
    <3>1. \A a \in 1..last : Inside(p, spans'[a]) <=> Inside(p, spans[a])
      BY <1>4, <1>5b
    <3>2. Inside(p, spans'[last + 1]) <=> Inside(p, s)
      BY <1>4
    <3>3. \A a : a \in 1..(last + 1) <=> a \in 1..last \/ a = last + 1
      BY <1>2
    <3> QED
      BY <1>5, <3>1, <3>2, <3>3 DEF Merged
  <2>2. ASSUME NEW p \in Nat
        PROVE  (\E j \in 1..next : Inside(p, found[j]))
                  <=> (\E j \in 1..(next - 1) : Inside(p, found[j])) \/ Inside(p, s)
    BY <1>2
  <2> QED
    BY <1>1, <2>1, <2>2 DEF MergeInv
<1>10. MergeInv'
  <2>1. ASSUME NEW j \in (next + 1)..n PROVE spans'[j] = found[j]
    <3>1. j \in next..n /\ j \in 1..n /\ j # last + 1
      BY <1>2
    <3> QED
      BY <1>1, <1>4, <3>1 DEF MergeInv
  <2>2. ASSUME NEW a \in 1..(last + 1), NEW j \in (next + 1)..n
        PROVE  spans'[a].start <= found[j].start
    <3>1. s.start <= found[j].start
      BY <1>1, <1>2, CapturesType DEF TypeOK
    <3>2. CASE a = last + 1
      BY <1>4, <3>1, <3>2
    <3>3. CASE a # last + 1
      <4>1. a \in 1..last /\ a \in 1..n /\ j \in next..n
        BY <1>2, <3>3
      <4>2. spans'[a] = spans[a]
        BY <1>4, <3>3, <4>1
      <4> QED
        BY <1>1, <4>1, <4>2 DEF MergeInv
    <3> QED
      BY <3>2, <3>3
  <2> QED
    BY <1>2, <1>5, <1>8, <1>9, <2>1, <2>2 DEF MergeInv
<1>11. at' = "merge" /\ next' >= 2 /\ written' = 0 /\ prev' = 0 /\ clear' = {}
  BY <1>2, <1>5 DEF Inv, AppendSpan
<1> QED
  BY <1>1, <1>5, <1>6, <1>10, <1>11 DEF Inv, SecretsHidden

-----------------------------------------------------------------------------
LEMMA MergeDoneInv ==
    ASSUME Inv, MergeDone
    PROVE  Inv'
<1>1. MergeInv /\ TypeOK /\ Len(found) \in Nat /\ next = Len(found) + 1
  <2>1. MergeInv /\ TypeOK
    BY DEF Inv, MergeDone
  <2>2. Len(found) \in Nat /\ next \in Nat
    BY <2>1, CapturesType DEF TypeOK
  <2>3. next = Len(found) + 1
    BY <2>1, <2>2 DEF MergeDone, MergeInv
  <2> QED
    BY <2>1, <2>2, <2>3
<1>2. TypeOK' /\ at' = "build"
  BY <1>1 DEF MergeDone, TypeOK
<1>3. \A p \in Nat : Merged(p)' <=> Merged(p)
  BY DEF MergeDone, Merged, Inside
<1>4. BuildInv'
  <2>1. (last \in 1..Len(found) /\ Apart)'
    BY <1>1 DEF MergeInv, MergeDone, Apart
  <2>2. \A p \in Nat : Merged(p)' <=> Secret(p)'
    BY <1>1, <1>3 DEF MergeInv, MergeDone, Secret
  <2>3. written' = 0 /\ prev' = 0 /\ clear' = {}
    BY DEF MergeDone, Inv
  <2> QED
    BY <2>1, <2>2, <2>3 DEF BuildInv
<1> QED
  BY <1>2, <1>4 DEF Inv, SecretsHidden

LEMMA NothingFoundInv ==
    ASSUME Inv, NothingFound
    PROVE  Inv'
<1>1. TypeOK' /\ at' = "done" /\ clear' = 0..(LineLen - 1) /\ found' = found
  BY LineLenAssumption DEF Inv, TypeOK, NothingFound
<1>2. \A p : ~Secret(p)'
  BY <1>1 DEF NothingFound, Secret
<1> QED
  BY <1>1, <1>2 DEF Inv, SecretsHidden

LEMMA WriteTailInv ==
    ASSUME Inv, WriteTail
    PROVE  Inv'
<1>1. BuildInv /\ TypeOK /\ written = last /\ Len(found) \in Nat
  BY CapturesType DEF Inv, WriteTail, TypeOK
<1>2. /\ last \in 1..Len(found) /\ last \in Nat
      /\ prev = spans[last].end /\ prev \in Nat /\ prev <= LineLen
  BY <1>1, SpansType DEF BuildInv, Apart
<1>3. \A p \in prev..(LineLen - 1) : ~Merged(p)
  <2>1. ASSUME NEW p \in prev..(LineLen - 1), NEW a \in 1..last
        PROVE  ~Inside(p, spans[a])
    <3>1. CASE a = last
      BY <1>2, <2>1, <3>1, LineLenAssumption DEF Inside
    <3>2. CASE a # last
      <4>1. a < last /\ a \in 1..Len(found) /\ last \in 1..last
        BY <1>1, <1>2, <3>2
      <4>2. spans[a].end <= spans[last].start /\ spans[last].start < spans[last].end
        BY <1>1, <4>1 DEF BuildInv, Apart
      <4>3. spans[a].end \in Nat /\ spans[last].start \in Nat /\ spans[last].end \in Nat
        BY <1>1, <1>2, <4>1, SpansType
      <4> QED
        BY <1>2, <2>1, <4>2, <4>3, LineLenAssumption DEF Inside
    <3> QED
      BY <3>1, <3>2
  <2> QED
    BY <2>1 DEF Merged
<1>4. clear' = {p \in 0..(LineLen - 1) : ~Merged(p)}
  <2>1. clear = {p \in 0..(prev - 1) : ~Merged(p)}
    BY <1>1 DEF BuildInv
  <2>2. \A p : p \in 0..(LineLen - 1) <=> p \in 0..(prev - 1) \/ p \in prev..(LineLen - 1)
    BY <1>2, LineLenAssumption
  <2> QED
    BY <1>3, <2>1, <2>2 DEF WriteTail
<1>5. clear' = {p \in 0..(LineLen - 1) : ~Secret(p)}
  BY <1>1, <1>4, LineLenAssumption DEF BuildInv
<1>6. TypeOK' /\ at' = "done" /\ found' = found
  BY <1>1, <1>5 DEF TypeOK, WriteTail
<1>7. \A p : Secret(p)' <=> Secret(p)
  BY <1>6 DEF Secret, Inside
<1> QED
  BY <1>5, <1>6, <1>7 DEF Inv, SecretsHidden

\* What WriteSpan finds: the next merged span starts at prev or later.
LEMMA NextSpan ==
    ASSUME Inv, at = "build", written < last
    PROVE  /\ BuildInv /\ TypeOK /\ Len(found) \in Nat /\ last \in Nat /\ written \in Nat
           /\ written + 1 \in 1..last
           /\ \A a \in 1..last : /\ spans[a].start \in Nat /\ spans[a].end \in Nat
                                 /\ spans[a].start < spans[a].end
                                 /\ spans[a].end <= LineLen
           /\ \A a \in 1..last : a <= written => spans[a].end <= prev
           /\ prev \in Nat /\ prev <= spans[written + 1].start
<1>1. BuildInv /\ TypeOK /\ Len(found) \in Nat
  BY CapturesType DEF Inv, TypeOK
<1>2. last \in Nat /\ written \in Nat /\ written + 1 \in 1..last /\ last <= Len(found)
  BY <1>1 DEF BuildInv
<1>3. \A a \in 1..last : /\ spans[a].start \in Nat /\ spans[a].end \in Nat
                         /\ spans[a].start < spans[a].end /\ spans[a].end <= LineLen
  <2>1. \A a \in 1..last : a \in 1..Len(found)
    BY <1>1, <1>2
  <2> QED
    BY <1>1, <2>1, SpansType DEF BuildInv, Apart
<1>4. /\ \A a, b \in 1..last : a < b => spans[a].end <= spans[b].start
      /\ prev = IF written = 0 THEN 0 ELSE spans[written].end
  BY <1>1 DEF BuildInv, Apart
<1>5. prev \in Nat /\ prev <= spans[written + 1].start
  <2>1. CASE written = 0
    BY <1>2, <1>3, <1>4, <2>1
  <2>2. CASE written # 0
    <3>1. written \in 1..last /\ written < written + 1
      BY <1>2, <2>2
    <3> QED
      BY <1>2, <1>3, <1>4, <2>2, <3>1
  <2> QED
    BY <2>1, <2>2
<1>6. ASSUME NEW a \in 1..last, a <= written
      PROVE  spans[a].end <= prev
  <2>1. written # 0 /\ written \in 1..last /\ prev = spans[written].end
    BY <1>2, <1>4, <1>6
  <2>2. CASE a = written
    BY <1>3, <2>1, <2>2
  <2>3. CASE a # written
    <3>1. a < written
      BY <1>2, <1>6, <2>3
    <3>2. spans[a].end <= spans[written].start
      BY <1>4, <2>1, <3>1
    <3> QED
      BY <1>3, <2>1, <3>2
  <2> QED
    BY <2>2, <2>3
<1> QED
  BY <1>1, <1>2, <1>3, <1>5, <1>6

LEMMA WriteSpanInv ==
    ASSUME Inv, WriteSpan
    PROVE  Inv'
<1> DEFINE s == spans[written + 1]
<1>1. at = "build" /\ written < last
  BY DEF WriteSpan
<1>2. /\ BuildInv /\ TypeOK /\ Len(found) \in Nat /\ last \in Nat /\ written \in Nat
      /\ written + 1 \in 1..last
      /\ s.start \in Nat /\ s.end \in Nat /\ s.start < s.end /\ s.end <= LineLen
      /\ prev \in Nat /\ prev <= s.start
  BY <1>1, NextSpan
<1>3. \A p \in prev..(s.start - 1) : ~Merged(p)
  <2>1. ASSUME NEW p \in prev..(s.start - 1), NEW a \in 1..last
        PROVE  ~Inside(p, spans[a])
    <3>1. spans[a].start \in Nat /\ spans[a].end \in Nat /\ a \in Nat
      BY <1>1, <1>2, NextSpan
    <3>2. CASE a <= written
      <4>1. spans[a].end <= prev
        BY <1>1, <3>2, NextSpan
      <4> QED
        BY <1>2, <2>1, <3>1, <4>1 DEF Inside
    <3>3. CASE a = written + 1
      BY <1>2, <2>1, <3>3 DEF Inside
    <3>4. CASE a > written + 1
      <4>1. s.end <= spans[a].start
        BY <1>2, <3>4 DEF BuildInv, Apart
      <4> QED
        BY <1>2, <2>1, <3>1, <4>1 DEF Inside
    <3> QED
      BY <1>2, <3>1, <3>2, <3>3, <3>4
  <2> QED
    BY <2>1 DEF Merged
<1>4. \A p \in s.start..(s.end - 1) : Merged(p)
  BY <1>2 DEF Merged, Inside
<1>5. clear' = {p \in 0..(s.end - 1) : ~Merged(p)}
  <2>1. clear = {p \in 0..(prev - 1) : ~Merged(p)}
    BY <1>2 DEF BuildInv
  <2>2. \A p : p \in 0..(s.end - 1)
                  <=> \/ p \in 0..(prev - 1) \/ p \in prev..(s.start - 1)
                      \/ p \in s.start..(s.end - 1)
    BY <1>2
  <2> QED
    BY <1>3, <1>4, <2>1, <2>2 DEF WriteSpan
<1>6. /\ UNCHANGED <<spans, at, next, last, found>>
      /\ prev' = s.end /\ written' = written + 1
  BY DEF WriteSpan
<1>7. TypeOK'
  <2>1. clear' \subseteq 0..(LineLen - 1)
    BY <1>2, <1>5, LineLenAssumption
  <2> QED
    BY <1>2, <1>6, <2>1 DEF TypeOK
<1>8. BuildInv'
  <2>1. (last \in 1..Len(found) /\ Apart)'
    BY <1>2, <1>6 DEF BuildInv, Apart
  <2>2. /\ \A p : Merged(p)' <=> Merged(p)
        /\ \A p : Secret(p)' <=> Secret(p)
    BY <1>6 DEF Merged, Secret, Inside
  <2>3. (written \in 0..last /\ prev = IF written = 0 THEN 0 ELSE spans[written].end)'
    BY <1>2, <1>6
  <2>4. (\A p \in Nat : Merged(p) <=> Secret(p))'
    BY <1>2, <2>2 DEF BuildInv
  <2>5. (clear = {p \in 0..(prev - 1) : ~Merged(p)})'
    BY <1>5, <1>6, <2>2
  <2> QED
    BY <2>1, <2>3, <2>4, <2>5 DEF BuildInv
<1> QED
  BY <1>1, <1>6, <1>7, <1>8 DEF Inv, SecretsHidden

LEMMA StutterInv ==
    ASSUME Inv, UNCHANGED vars
    PROVE  Inv'
<1> USE DEF vars
<1>1. TypeOK'
  BY DEF Inv, TypeOK
<1>2. /\ \A p : Merged(p)' <=> Merged(p)
      /\ \A p : Secret(p)' <=> Secret(p)
  BY DEF Merged, Secret, Inside
<1>3. Apart' <=> Apart
  BY DEF Apart
<1>4. at = "merge" /\ Len(found) > 0 => MergeInv'
  BY <1>2, <1>3 DEF Inv, MergeInv, Inside
<1>5. at = "build" => BuildInv'
  BY <1>2, <1>3 DEF Inv, BuildInv
<1> QED
  BY <1>1, <1>2, <1>4, <1>5 DEF Inv, SecretsHidden

-----------------------------------------------------------------------------
\* The invariant holds of every behaviour, whatever LineLen and Found are.
THEOREM Correct == Spec => []Inv
<1>1. Inv /\ [Next]_vars => Inv'
  BY ExtendInv, AppendInv, MergeDoneInv, NothingFoundInv, WriteTailInv, WriteSpanInv,
     StutterInv DEF Next
<1> QED
  BY InitInv, <1>1, PTL DEF Spec

\* In every reachable state the indices and the array have their types.
THEOREM TypeCorrect == Spec => []TypeOK
<1>1. Inv => TypeOK
  BY DEF Inv
<1> QED
  BY Correct, <1>1, PTL

\* A line of any length, with any number of overlapping, nested or equal
\* captures, leaves obfuscateLine without one character of a secret, and
\* with every other character.
THEOREM SecretsAreHidden == Spec => []SecretsHidden
<1>1. Inv => SecretsHidden
  BY DEF Inv
<1> QED
  BY Correct, <1>1, PTL

\* The in-place append never overwrites what range has still to read.
THEOREM NothingOverwritten == Spec => []UnreadIntact
<1>1. Inv => UnreadIntact
  BY CapturesType DEF Inv, MergeInv, UnreadIntact, TypeOK
<1> QED
  BY Correct, <1>1, PTL

\* No slice of the builder is out of order or out of the line.
THEOREM SlicesNeverPanic == Spec => []SlicesInRange
<1>1. Inv => SlicesInRange
  BY NextSpan DEF SlicesInRange
<1> QED
  BY Correct, <1>1, PTL
=============================================================================
