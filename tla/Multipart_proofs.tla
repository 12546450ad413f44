--------------------------- MODULE Multipart_proofs ---------------------------
(***************************************************************************)
(* Proofs about a multipart upload, for a file of any size and any         *)
(* deployment.                                                             *)
(*                                                                         *)
(* The list of covered ranges is the result of a loop, so what             *)
(* addCoveredRange computes is shown by induction over the ranges: that a  *)
(* set of numbers with 0 and every successor is all of Nat follows from    *)
(* < being well-founded, the recursion of AfterRange has a solution, and   *)
(* the invariant of the loop holds after every range.                      *)
(*                                                                         *)
(* On top of it MultipartInv is inductive: the list covers exactly the     *)
(* bytes recorded, what is recorded was written, only the request that     *)
(* closes the temporary file commits it, and the bytes whose hash was      *)
(* compared are the ones stored.                                           *)
(***************************************************************************)
EXTENDS Multipart, WellFoundedInduction, TLAPS
(* Every non-empty set of numbers has a least one. *)
LEMMA LeastNumber ==
  ASSUME NEW T, T \subseteq Nat, T # {}
  PROVE  \E x \in T : \A y \in T : x <= y
<1> DEFINE R == {p \in Nat \X Nat : p[1] < p[2]}
<1>1. IsWellFoundedOn(R, Nat)
  BY NatLessThanWellFounded, Zenon DEF OpToRel
<1>2. PICK x \in T : \A y \in T : ~(<<y, x>> \in R)
  <2> HIDE DEF R
  <2> QED BY <1>1, WFMin, Zenon
<1>3. \A y \in T : ~(y < x) BY <1>2
<1>4. \A y \in T : x <= y BY <1>3
<1> QED BY <1>4

(* Induction, for a set: a least number outside it would have a predecessor. *)
LEMMA Induction ==
  ASSUME NEW S, 0 \in S, \A n \in Nat : n \in S => n + 1 \in S
  PROVE  Nat \subseteq S
<1> DEFINE T == {n \in Nat : n \notin S}
<1> SUFFICES ASSUME T # {} PROVE FALSE
  OBVIOUS
<1>1. PICK x \in T : \A y \in T : x <= y
  <2>1. T \subseteq Nat OBVIOUS
  <2> HIDE DEF T
  <2> QED BY LeastNumber, <2>1, Zenon
<1>2. x \in Nat /\ x # 0 OBVIOUS
<1>3. x - 1 \in Nat /\ x - 1 \notin T BY <1>1, <1>2
<1>4. x - 1 \in S BY <1>3
<1>5. (x - 1) + 1 \in S BY <1>4, <1>3
<1> QED BY <1>5, <1>2

-----------------------------------------------------------------------------
(* The loop of addCoveredRange; First is what it starts with. *)

First(start, end) == [merged |-> <<>>, inserted |-> FALSE, start |-> start, end |-> end]

(* The variables of the loop after each of k ranges, if g is the function that gives them. *)
IsRun(g, covered, first, k) ==
  g = [i \in 0 .. k |-> IF i = 0 THEN first ELSE Merge(g[i - 1], covered[i])]

(* The recursion of the loop has a solution: it can be continued for one more range. *)
LEMMA RunExists ==
  ASSUME NEW covered, NEW first, NEW k \in Nat
  PROVE  \E g : IsRun(g, covered, first, k)
<1> DEFINE S == {n \in Nat : \E g : IsRun(g, covered, first, n)}
<1>1. 0 \in S
  <2>1. IsRun([i \in 0 .. 0 |-> first], covered, first, 0) BY DEF IsRun
  <2> QED BY <2>1
<1>2. ASSUME NEW n \in Nat, n \in S PROVE n + 1 \in S
  <2>1. PICK g : IsRun(g, covered, first, n) BY <1>2
  <2> DEFINE h == [i \in 0 .. n + 1 |-> IF i = n + 1 THEN Merge(g[n], covered[n + 1]) ELSE g[i]]
  <2>2. \A i \in 0 .. n : h[i] = g[i] OBVIOUS
  <2>3. ASSUME NEW i \in 0 .. n + 1
        PROVE  h[i] = IF i = 0 THEN first ELSE Merge(h[i - 1], covered[i])
    <3>1. CASE i = n + 1
      <4>1. h[i] = Merge(g[n], covered[n + 1]) BY <3>1
      <4>2. h[n] = g[n] BY <2>2
      <4>3. i - 1 = n /\ i # 0 BY <3>1
      <4> HIDE DEF h
      <4> QED BY <4>1, <4>2, <4>3, <3>1
    <3>2. CASE i \in 0 .. n
      <4>1. h[i] = g[i] BY <2>2, <3>2
      <4>2. i # 0 => i - 1 \in 0 .. n BY <3>2
      <4>3. i # 0 => h[i - 1] = g[i - 1] BY <2>2, <4>2
      <4>4. g[i] = IF i = 0 THEN first ELSE Merge(g[i - 1], covered[i]) BY <2>1, <3>2 DEF IsRun
      <4> HIDE DEF h
      <4> QED BY <4>1, <4>3, <4>4
    <3> QED BY <3>1, <3>2
  <2>4. IsRun(h, covered, first, n + 1) BY <2>3 DEF IsRun
  <2>5. n + 1 \in Nat OBVIOUS
  <2> HIDE DEF h
  <2> QED BY <2>4, <2>5
<1>3. Nat \subseteq S
  <2> HIDE DEF S
  <2> QED BY <1>1, <1>2, Induction
<1> QED BY <1>3

(* AfterRange solves the recursion. *)
LEMMA AfterRangeIsRun ==
  ASSUME NEW covered, Len(covered) \in Nat, NEW start, NEW end
  PROVE  IsRun(AfterRange(covered, start, end), covered, First(start, end), Len(covered))
<1>1. \E g : IsRun(g, covered, First(start, end), Len(covered))
  BY RunExists, Zenon
<1>2. \E g : g = [i \in 0 .. Len(covered) |-> IF i = 0 THEN First(start, end) ELSE Merge(g[i - 1], covered[i])]
  BY <1>1, Zenon DEF IsRun
<1> QED BY <1>2, Zenon DEF AfterRange, IsRun, First

(* The byte lies in the range; in a range of the list. *)
Has(r, b) == r.start <= b /\ b < r.end
Spans(s, b) == \E i \in DOMAIN s : Has(s[i], b)

(* Sorted, with a gap between neighbours. *)
Apart(s) == \A i, j \in DOMAIN s : i < j => s[i].end < s[j].start

(* Appending a range that lies beyond all others. *)
LEMMA AppendRange ==
  ASSUME N \in Nat, NEW s \in Seq(Ranges), Apart(s), NEW r \in Ranges,
         \A j \in DOMAIN s : s[j].end < r.start
  PROVE  /\ Append(s, r) \in Seq(Ranges) /\ Apart(Append(s, r))
         /\ \A b \in Bytes : Spans(Append(s, r), b) <=> Spans(s, b) \/ Has(r, b)
         /\ \A j \in DOMAIN Append(s, r) : Append(s, r)[j] = r \/ \E i \in DOMAIN s : Append(s, r)[j] = s[i]
<1> DEFINE t == Append(s, r)
<1>1. t \in Seq(Ranges) /\ Len(s) \in Nat /\ DOMAIN s = 1 .. Len(s) /\ DOMAIN t = 1 .. Len(s) + 1
  OBVIOUS
<1>2. t[Len(s) + 1] = r /\ \A i \in 1 .. Len(s) : t[i] = s[i] OBVIOUS
<1> HIDE DEF t
<1>3. Apart(t)
  <2> SUFFICES ASSUME NEW i \in 1 .. Len(s) + 1, NEW j \in 1 .. Len(s) + 1, i < j
               PROVE  t[i].end < t[j].start
    BY <1>1, Zenon DEF Apart
  <2>1. i \in 1 .. Len(s) /\ t[i] = s[i] BY <1>1, <1>2
  <2>2. CASE j = Len(s) + 1 BY <2>1, <2>2, <1>1, <1>2
  <2>3. CASE j \in 1 .. Len(s) BY <2>1, <2>3, <1>1, <1>2 DEF Apart
  <2>4. j = Len(s) + 1 \/ j \in 1 .. Len(s) BY <1>1
  <2> QED BY <2>2, <2>3, <2>4, Zenon
<1>4. ASSUME NEW b \in Bytes PROVE Spans(t, b) <=> Spans(s, b) \/ Has(r, b)
  <2>1. Spans(t, b) => Spans(s, b) \/ Has(r, b)
    <3> SUFFICES ASSUME NEW i \in 1 .. Len(s) + 1, Has(t[i], b) PROVE Spans(s, b) \/ Has(r, b)
      BY <1>1, Zenon DEF Spans
    <3>1. CASE i = Len(s) + 1 BY <3>1, <1>2, Zenon
    <3>2. CASE i \in 1 .. Len(s) BY <3>2, <1>1, <1>2, Zenon DEF Spans
    <3> QED BY <3>1, <3>2, <1>1
  <2>2. Spans(s, b) => Spans(t, b)
    <3> SUFFICES ASSUME NEW i \in 1 .. Len(s), Has(s[i], b) PROVE Spans(t, b)
      BY <1>1, Zenon DEF Spans
    <3>1. i \in 1 .. Len(s) + 1 BY <1>1
    <3> QED BY <3>1, <1>1, <1>2, Zenon DEF Spans
  <2>3. Has(r, b) => Spans(t, b)
    <3>1. Len(s) + 1 \in 1 .. Len(s) + 1 BY <1>1
    <3> QED BY <3>1, <1>1, <1>2, Zenon DEF Spans
  <2> QED BY <2>1, <2>2, <2>3, Zenon
<1>5. ASSUME NEW j \in DOMAIN t PROVE t[j] = r \/ \E i \in DOMAIN s : t[j] = s[i]
  <2>1. j = Len(s) + 1 \/ j \in 1 .. Len(s) BY <1>1
  <2> QED BY <2>1, <1>1, <1>2, Zenon
<1> QED BY <1>1, <1>3, <1>4, <1>5, Zenon DEF t

(* The variables of the loop: merged, inserted, start and end. *)
LoopVars == [merged : Seq(Ranges), inserted : BOOLEAN, start : 0 .. N, end : 0 .. N]

(***************************************************************************)
(* The invariant of the loop, after the first i ranges, for the range g:   *)
(* merged and the range in hand together cover what these and g covered,   *)
(* and all that is merged lies before what comes.                          *)
(***************************************************************************)
LoopInv(covered, g, i, a) ==
  /\ a \in LoopVars /\ a.start < a.end /\ Apart(a.merged)
  /\ \A j \in DOMAIN a.merged, k \in i + 1 .. Len(covered) : a.merged[j].end < covered[k].start
  /\ \A b \in Bytes : Spans(a.merged, b) \/ Has(a, b) <=> Has(g, b) \/ \E k \in 1 .. i : Has(covered[k], b)
  /\ a.inserted => /\ \A k \in i + 1 .. Len(covered) : a.end < covered[k].start
                   /\ \A b \in Bytes : Has(a, b) => Spans(a.merged, b)
  /\ ~a.inserted => \A j \in DOMAIN a.merged : a.merged[j].end < a.start

(* One more range is among the first i + 1. *)
LEMMA OneMore ==
  ASSUME NEW covered, NEW i \in Nat, NEW b
  PROVE  (\E k \in 1 .. i + 1 : Has(covered[k], b)) <=> Has(covered[i + 1], b) \/ \E k \in 1 .. i : Has(covered[k], b)
<1>1. \A k : k \in 1 .. i + 1 <=> k = i + 1 \/ k \in 1 .. i OBVIOUS
<1> QED BY <1>1, Zenon

(* Every round of the loop keeps the invariant. *)
LEMMA LoopStep ==
  ASSUME N \in Nat, NEW covered \in Seq(Ranges), Apart(covered), NEW g \in Ranges,
         NEW i \in 0 .. Len(covered) - 1, NEW a, LoopInv(covered, g, i, a)
  PROVE  LoopInv(covered, g, i + 1, Merge(a, covered[i + 1]))
<1> DEFINE r == covered[i + 1]
           m == a.merged
           c == Merge(a, r)
<1>1. /\ Len(covered) \in Nat /\ i \in Nat /\ i + 1 \in 1 .. Len(covered) /\ r \in Ranges
      /\ DOMAIN covered = 1 .. Len(covered)
  OBVIOUS
<1>2. \A k \in (i + 1) + 1 .. Len(covered) : r.end < covered[k].start /\ k \in i + 1 .. Len(covered)
  BY <1>1 DEF Apart
<1>3. r.start \in 0 .. N /\ r.end \in 0 .. N /\ r.start < r.end BY <1>1 DEF Ranges
<1>4. /\ a.merged \in Seq(Ranges) /\ a.inserted \in BOOLEAN /\ a.start \in 0 .. N /\ a.end \in 0 .. N
      /\ a.start < a.end /\ Apart(m)
      /\ a = [merged |-> a.merged, inserted |-> a.inserted, start |-> a.start, end |-> a.end]
  BY DEF LoopInv, LoopVars
<1>5. \A j \in DOMAIN m : m[j].end < r.start
  <2>1. i + 1 \in i + 1 .. Len(covered) BY <1>1
  <2> QED BY <2>1, Zenon DEF LoopInv
<1>6. \A j \in DOMAIN m, k \in (i + 1) + 1 .. Len(covered) : m[j].end < covered[k].start
  BY <1>2, Zenon DEF LoopInv
<1>7. \A b \in Bytes : (\E k \in 1 .. i + 1 : Has(covered[k], b)) <=> Has(r, b) \/ \E k \in 1 .. i : Has(covered[k], b)
  BY <1>1, OneMore, Zenon
<1>8. \A b \in Bytes : Spans(m, b) \/ Has(a, b) <=> Has(g, b) \/ \E k \in 1 .. i : Has(covered[k], b)
  BY Zenon DEF LoopInv
<1>9. /\ a.inserted => /\ \A k \in i + 1 .. Len(covered) : a.end < covered[k].start
                       /\ \A b \in Bytes : Has(a, b) => Spans(m, b)
      /\ ~a.inserted => \A j \in DOMAIN m : m[j].end < a.start
  BY Zenon DEF LoopInv
<1> HIDE DEF r, m
\* What the two branches that append share.
<1>a. /\ Append(m, r) \in Seq(Ranges) /\ Apart(Append(m, r))
      /\ \A b \in Bytes : Spans(Append(m, r), b) <=> Spans(m, b) \/ Has(r, b)
      /\ \A j \in DOMAIN Append(m, r) : Append(m, r)[j] = r \/ \E x \in DOMAIN m : Append(m, r)[j] = m[x]
  BY <1>1, <1>4, <1>5, AppendRange, Zenon DEF m
<1>b. \A j \in DOMAIN Append(m, r), k \in (i + 1) + 1 .. Len(covered) : Append(m, r)[j].end < covered[k].start
  BY <1>2, <1>6, <1>a, Zenon
<1>10. CASE r.end < a.start
  <2>1. ~a.inserted
    <3>1. a.inserted => a.end < r.start BY <1>1, <1>9 DEF r
    <3> QED BY <3>1, <1>3, <1>4, <1>10
  <2>2. /\ c = [merged |-> Append(m, r), inserted |-> FALSE, start |-> a.start, end |-> a.end]
    BY <1>10, <1>4, <2>1 DEF Merge, m
  <2>3. \A j \in DOMAIN Append(m, r) : Append(m, r)[j].end < a.start
    BY <1>10, <1>a, <1>9, <2>1, Zenon
  <2>4. c.merged = Append(m, r) /\ ~c.inserted /\ c.start = a.start /\ c.end = a.end BY <2>2
  <2>5. c \in LoopVars BY <2>2, <1>4, <1>a DEF LoopVars
  <2>6. \A b : Has(c, b) <=> Has(a, b) BY <2>4, Zenon DEF Has
  <2> HIDE DEF c
  <2>7. \A b \in Bytes : Spans(c.merged, b) \/ Has(c, b) <=> Has(g, b) \/ \E k \in 1 .. i + 1 : Has(covered[k], b)
    BY <2>4, <2>6, <1>7, <1>8, <1>a, Zenon
  <2> QED BY <2>3, <2>4, <2>5, <2>7, <1>4, <1>a, <1>b, Zenon DEF LoopInv, c, r
<1>11. CASE ~(r.end < a.start) /\ r.start > a.end
  <2> DEFINE h == [start |-> a.start, end |-> a.end]
             n == IF a.inserted THEN m ELSE Append(m, h)
  <2>1. h \in Ranges /\ \A b : Has(h, b) <=> Has(a, b) BY <1>4 DEF Ranges, Has
  <2>2. c = [merged |-> n \o <<r>>, inserted |-> TRUE, start |-> a.start, end |-> a.end]
    BY <1>11, <1>4 DEF Merge, m
  <2>3. /\ n \in Seq(Ranges) /\ Apart(n)
        /\ \A b \in Bytes : Spans(n, b) <=> Spans(m, b) \/ Has(a, b)
        /\ \A j \in DOMAIN n : n[j] = h \/ \E x \in DOMAIN m : n[j] = m[x]
    <3>1. CASE a.inserted
      <4>1. n = m BY <3>1
      <4> QED BY <4>1, <3>1, <1>4, <1>9, Zenon DEF m
    <3>2. CASE ~a.inserted
      <4>1. n = Append(m, h) BY <3>2
      <4>2. \A j \in DOMAIN m : m[j].end < h.start BY <1>9, <3>2
      <4>3. m \in Seq(Ranges) BY <1>4 DEF m
      <4> HIDE DEF h
      <4>4. /\ Append(m, h) \in Seq(Ranges) /\ Apart(Append(m, h))
            /\ \A b \in Bytes : Spans(Append(m, h), b) <=> Spans(m, b) \/ Has(h, b)
            /\ \A j \in DOMAIN Append(m, h) : Append(m, h)[j] = h \/ \E x \in DOMAIN m : Append(m, h)[j] = m[x]
        BY <4>2, <4>3, <2>1, <1>4, AppendRange, Zenon
      <4> QED BY <4>1, <4>4, <2>1, Zenon
    <3> QED BY <3>1, <3>2
  <2>4. h.end < r.start BY <1>11, <1>3, <1>4
  <2> HIDE DEF h, n
  <2>5. \A j \in DOMAIN n : n[j].end < r.start BY <2>3, <2>4, <1>5, Zenon
  <2>6. /\ Append(n, r) \in Seq(Ranges) /\ Apart(Append(n, r))
        /\ \A b \in Bytes : Spans(Append(n, r), b) <=> Spans(n, b) \/ Has(r, b)
        /\ \A j \in DOMAIN Append(n, r) : Append(n, r)[j] = r \/ \E x \in DOMAIN n : Append(n, r)[j] = n[x]
    BY <1>1, <2>3, <2>5, AppendRange, Zenon DEF r
  <2>7. \A k \in (i + 1) + 1 .. Len(covered) : h.end < covered[k].start
    <3> SUFFICES ASSUME NEW k \in (i + 1) + 1 .. Len(covered) PROVE h.end < covered[k].start OBVIOUS
    <3>1. r.end < covered[k].start BY <1>2
    <3>2. covered[k] \in Ranges BY <1>1
    <3>3. covered[k].start \in Int BY <3>2 DEF Ranges
    <3> QED BY <3>1, <3>3, <2>4, <1>3, <1>4 DEF h
  <2>8. \A j \in DOMAIN Append(n, r), k \in (i + 1) + 1 .. Len(covered) : Append(n, r)[j].end < covered[k].start
    <3>1. \A x \in DOMAIN n, k \in (i + 1) + 1 .. Len(covered) : n[x].end < covered[k].start
      BY <1>6, <2>3, <2>7, Zenon
    <3>2. \A k \in (i + 1) + 1 .. Len(covered) : r.end < covered[k].start BY <1>2, Zenon
    <3> QED BY <3>1, <3>2, <2>6, Zenon
  <2>9. n \o <<r>> = Append(n, r) BY <2>3
  <2>10. c.merged = Append(n, r) /\ c.inserted /\ c.start = a.start /\ c.end = a.end BY <2>2, <2>9
  <2>11. c \in LoopVars BY <2>2, <2>6, <2>9, <1>4 DEF LoopVars
  <2>12. \A b : Has(c, b) <=> Has(a, b) BY <2>10, Zenon DEF Has
  <2>13. \A k \in (i + 1) + 1 .. Len(covered) : c.end < covered[k].start BY <2>7, <2>10 DEF h
  <2> HIDE DEF c
  <2>14. \A b \in Bytes : Spans(c.merged, b) \/ Has(c, b) <=> Has(g, b) \/ \E k \in 1 .. i + 1 : Has(covered[k], b)
    BY <2>3, <2>6, <2>10, <2>12, <1>7, <1>8, Zenon
  <2>15. \A b \in Bytes : Has(c, b) => Spans(c.merged, b)
    BY <2>3, <2>6, <2>10, <2>12, Zenon
  <2>16. c.start < c.end BY <2>10, <1>4, Zenon
  <2> QED BY <2>6, <2>8, <2>10, <2>11, <2>13, <2>14, <2>15, <2>16, Zenon DEF LoopInv, c, r
<1>12. CASE ~(r.end < a.start) /\ ~(r.start > a.end)
  <2>1. ~a.inserted
    <3>1. a.inserted => a.end < r.start BY <1>1, <1>9 DEF r
    <3> QED BY <3>1, <1>3, <1>4, <1>12
  <2>2. /\ c.merged = m /\ ~c.inserted
        /\ c.start = (IF r.start < a.start THEN r.start ELSE a.start)
        /\ c.end = (IF r.end > a.end THEN r.end ELSE a.end)
    BY <1>12, <1>4, <2>1 DEF Merge, m
  <2>3. c \in LoopVars /\ c.start < c.end
    <3>1. c = [merged |-> m, inserted |-> FALSE, start |-> IF r.start < a.start THEN r.start ELSE a.start,
               end |-> IF r.end > a.end THEN r.end ELSE a.end]
      BY <1>12, <1>4, <2>1 DEF Merge, m
    <3>2. m \in Seq(Ranges) BY <1>4 DEF m
    <3> HIDE DEF c
    <3> QED BY <3>1, <3>2, <1>3, <1>4 DEF LoopVars
  <2>4. \A b \in Bytes : Has(c, b) <=> Has(a, b) \/ Has(r, b)
    BY <2>2, <1>3, <1>4, <1>12 DEF Has, Bytes
  <2>5. ASSUME NEW j \in DOMAIN m PROVE m[j].end < c.start
    BY <2>1, <2>2, <1>5, <1>9
  <2> HIDE DEF c
  <2>6. \A b \in Bytes : Spans(c.merged, b) \/ Has(c, b) <=> Has(g, b) \/ \E k \in 1 .. i + 1 : Has(covered[k], b)
    BY <2>2, <2>4, <1>7, <1>8, Zenon
  <2> QED BY <2>2, <2>3, <2>5, <2>6, <1>4, <1>6, Zenon DEF LoopInv, c, r
<1> QED BY <1>10, <1>11, <1>12

(* The invariant holds after every range. *)
LEMMA LoopRuns ==
  ASSUME N \in Nat, NEW covered \in Seq(Ranges), Apart(covered), NEW g \in Ranges
  PROVE  LoopInv(covered, g, Len(covered), AfterRange(covered, g.start, g.end)[Len(covered)])
<1> DEFINE f == AfterRange(covered, g.start, g.end)
           S == {i \in Nat : i <= Len(covered) => LoopInv(covered, g, i, f[i])}
<1>1. Len(covered) \in Nat /\ DOMAIN covered = 1 .. Len(covered) OBVIOUS
<1>2. /\ f[0] = First(g.start, g.end)
      /\ \A i \in 1 .. Len(covered) : f[i] = Merge(f[i - 1], covered[i])
  <2>1. IsRun(f, covered, First(g.start, g.end), Len(covered)) BY <1>1, AfterRangeIsRun, Zenon
  <2> HIDE DEF f
  <2> QED BY <1>1, <2>1 DEF IsRun
<1> HIDE DEF f
<1>3. LoopInv(covered, g, 0, f[0])
  <2>1. g.start \in 0 .. N /\ g.end \in 0 .. N /\ g.start < g.end BY DEF Ranges
  <2>2. /\ f[0] = [merged |-> <<>>, inserted |-> FALSE, start |-> g.start, end |-> g.end]
        /\ f[0].merged = <<>> /\ ~f[0].inserted /\ f[0].start = g.start /\ f[0].end = g.end
    BY <1>2 DEF First
  <2>3. f[0] \in LoopVars /\ f[0].start < f[0].end BY <2>1, <2>2 DEF LoopVars
  <2>4. DOMAIN f[0].merged = {} BY <2>2
  <2>5. \A b : Has(f[0], b) <=> Has(g, b) BY <2>2, Zenon DEF Has
  <2>6. \A k : k \notin 1 .. 0 OBVIOUS
  <2> QED BY <2>2, <2>3, <2>4, <2>5, <2>6, Zenon DEF LoopInv, Apart, Spans
<1>4. 0 \in S BY <1>3
<1>5. ASSUME NEW i \in Nat, i \in S PROVE i + 1 \in S
  <2> SUFFICES ASSUME i + 1 <= Len(covered) PROVE LoopInv(covered, g, i + 1, f[i + 1])
    OBVIOUS
  <2>1. /\ i \in 0 .. Len(covered) - 1 /\ i + 1 \in 1 .. Len(covered) /\ (i + 1) - 1 = i
        /\ i <= Len(covered)
    BY <1>1
  <2>2. LoopInv(covered, g, i, f[i]) BY <1>5, <2>1
  <2>3. f[i + 1] = Merge(f[i], covered[i + 1])
    <3>1. f[i + 1] = Merge(f[(i + 1) - 1], covered[i + 1]) BY <1>2, <2>1, Zenon
    <3> QED BY <3>1, <2>1, Zenon
  <2>4. LoopInv(covered, g, i + 1, Merge(f[i], covered[i + 1])) BY <2>1, <2>2, LoopStep, Zenon
  <2> QED BY <2>3, <2>4, Zenon
<1>6. Nat \subseteq S
  <2> HIDE DEF S
  <2> QED BY <1>4, <1>5, Induction, Zenon
<1>7. Len(covered) <= Len(covered) BY <1>1
<1> QED BY <1>1, <1>6, <1>7, Zenon DEF f

(* addCoveredRange adds exactly the bytes of the range, and keeps the list sorted and apart. *)
LEMMA AddCovers ==
  ASSUME N \in Nat, NEW covered \in Seq(Ranges), Apart(covered), NEW g \in Ranges
  PROVE  /\ addCoveredRange(covered, g.start, g.end) \in Seq(Ranges)
         /\ Apart(addCoveredRange(covered, g.start, g.end))
         /\ \A b \in Bytes : Spans(addCoveredRange(covered, g.start, g.end), b) <=> Spans(covered, b) \/ Has(g, b)
<1> DEFINE a == AfterRange(covered, g.start, g.end)[Len(covered)]
           new == addCoveredRange(covered, g.start, g.end)
           h == [start |-> a.start, end |-> a.end]
<1>1. LoopInv(covered, g, Len(covered), a) BY LoopRuns, Zenon
<1>2. ~(g.start >= g.end) BY DEF Ranges
<1>3. new = IF a.inserted THEN a.merged ELSE Append(a.merged, h)
  BY <1>2, Zenon DEF addCoveredRange
<1> HIDE DEF a, new
<1>4. \A b \in Bytes : Spans(a.merged, b) \/ Has(a, b) <=> Has(g, b) \/ Spans(covered, b)
  <2>1. DOMAIN covered = 1 .. Len(covered) OBVIOUS
  <2> QED BY <1>1, <2>1, Zenon DEF LoopInv, Spans
<1>5. /\ a.merged \in Seq(Ranges) /\ a.inserted \in BOOLEAN /\ Apart(a.merged)
      /\ a.start \in 0 .. N /\ a.end \in 0 .. N /\ a.start < a.end
  BY <1>1 DEF LoopInv, LoopVars
<1>6. CASE a.inserted
  <2>1. new = a.merged /\ \A b \in Bytes : Has(a, b) => Spans(a.merged, b)
    BY <1>1, <1>3, <1>6, Zenon DEF LoopInv
  <2> QED BY <2>1, <1>4, <1>5, Zenon DEF new
<1>7. CASE ~a.inserted
  <2>1. new = Append(a.merged, h) BY <1>3, <1>7, Zenon
  <2>2. h \in Ranges /\ h.start = a.start /\ \A b : Has(h, b) <=> Has(a, b) BY <1>5 DEF Ranges, Has
  <2> HIDE DEF h
  <2>3. \A j \in DOMAIN a.merged : a.merged[j].end < h.start BY <1>1, <1>7, <2>2, Zenon DEF LoopInv
  <2>4. /\ Append(a.merged, h) \in Seq(Ranges) /\ Apart(Append(a.merged, h))
        /\ \A b \in Bytes : Spans(Append(a.merged, h), b) <=> Spans(a.merged, b) \/ Has(h, b)
    BY <2>2, <2>3, <1>5, AppendRange, Zenon
  <2> QED BY <2>1, <2>2, <2>4, <1>4, Zenon DEF new
<1> QED BY <1>6, <1>7, Zenon

(* isFullyCovered holds of a sorted list just when it covers every byte: such a list is one range. *)
LEMMA FullyCovered ==
  ASSUME N \in Nat, NEW covered \in Seq(Ranges), Apart(covered)
  PROVE  isFullyCovered(covered) <=> \A b \in Bytes : Spans(covered, b)
<1>1. Len(covered) \in Nat /\ DOMAIN covered = 1 .. Len(covered) OBVIOUS
<1>2. \A i \in 1 .. Len(covered) : /\ covered[i].start \in 0 .. N /\ covered[i].end \in 0 .. N
                                   /\ covered[i].start < covered[i].end
  BY <1>1 DEF Ranges
<1>3. CASE covered = <<>>
  <2>1. DOMAIN covered = {} BY <1>3
  <2>2. N = 0 <=> \A b \in Bytes : FALSE BY DEF Bytes
  <2> QED BY <1>3, <2>1, <2>2, Zenon DEF isFullyCovered, Spans
<1>4. CASE covered # <<>>
  <2>1. Len(covered) >= 1 /\ 1 \in 1 .. Len(covered) BY <1>1, <1>4
  <2>2. isFullyCovered(covered) <=>
          /\ covered[1].start = 0 /\ covered[Len(covered)].end = N
          /\ \A i \in 2 .. Len(covered) : covered[i].start = covered[i - 1].end
    BY <1>4, Zenon DEF isFullyCovered
  <2>3. ASSUME isFullyCovered(covered), NEW b \in Bytes PROVE Spans(covered, b)
    <3>1. Len(covered) = 1
      <4> SUFFICES ASSUME Len(covered) > 1 PROVE FALSE BY <1>1, <2>1
      <4>1. 2 \in 2 .. Len(covered) /\ 2 \in 1 .. Len(covered) /\ 2 - 1 = 1 BY <1>1
      <4>2. covered[2].start = covered[1].end BY <2>2, <2>3, <4>1
      <4>3. covered[1].end < covered[2].start BY <1>1, <2>1, <4>1 DEF Apart
      <4> QED BY <4>2, <4>3, <1>2, <2>1, <4>1
    <3>2. covered[1].start = 0 /\ covered[1].end = N BY <2>2, <2>3, <3>1, Zenon
    <3>3. Has(covered[1], b) BY <3>2 DEF Has, Bytes
    <3> QED BY <3>3, <2>1, <1>1, Zenon DEF Spans
  <2>4. ASSUME \A b \in Bytes : Spans(covered, b) PROVE isFullyCovered(covered)
    <3>1. covered[1].start = 0
      <4>1. 0 \in Bytes BY <1>2, <2>1 DEF Bytes
      <4>2. PICK i \in 1 .. Len(covered) : Has(covered[i], 0) BY <2>4, <4>1, <1>1, Zenon DEF Spans
      <4>3. covered[i].start = 0 BY <4>2, <1>2 DEF Has
      <4>4. i = 1
        <5> SUFFICES ASSUME i > 1 PROVE FALSE BY <4>2
        <5>1. covered[1].end < covered[i].start BY <1>1, <2>1 DEF Apart
        <5> QED BY <5>1, <4>3, <1>2, <2>1
      <4> QED BY <4>3, <4>4
    <3>2. covered[1].end = N
      <4> SUFFICES ASSUME covered[1].end # N PROVE FALSE OBVIOUS
      <4> DEFINE b == covered[1].end
      <4>1. b \in Bytes BY <1>2, <2>1 DEF Bytes
      <4>2. PICK i \in 1 .. Len(covered) : Has(covered[i], b) BY <2>4, <4>1, <1>1, Zenon DEF Spans
      <4>3. i # 1 BY <4>2, <1>2 DEF Has
      <4>4. covered[1].end < covered[i].start BY <4>3, <1>1, <2>1 DEF Apart
      <4> QED BY <4>2, <4>4, <1>2, <2>1 DEF Has
    <3>3. Len(covered) = 1
      <4> SUFFICES ASSUME Len(covered) > 1 PROVE FALSE BY <1>1, <2>1
      <4>1. 2 \in 1 .. Len(covered) BY <1>1
      <4>2. covered[1].end < covered[2].start BY <1>1, <2>1, <4>1 DEF Apart
      <4> QED BY <4>1, <4>2, <3>2, <1>2
    <3>4. \A i \in 2 .. Len(covered) : FALSE BY <3>3
    <3> QED BY <2>2, <3>1, <3>2, <3>3, <3>4, Zenon
  <2> QED BY <2>3, <2>4, Zenon
<1> QED BY <1>3, <1>4

-----------------------------------------------------------------------------
(* The invariants *)

(* Where a request is: in a part, in the commit of a completion, elsewhere. *)
PartLabels == {"part", "write", "land", "record", "count"}
CommitLabels == {"verify", "encrypt", "lock", "move", "meta", "finish"}
Labels == {"idle", "complete", "coverage", "close", "abort", "cleanup", "drop", "remove"}
            \cup PartLabels \cup CommitLabels

(* Only a part has a range and data. *)
ControlInv ==
  /\ pc \in [Requests -> Labels] /\ kind \in [Requests -> {"none", "part", "complete", "abort", "cleanup"}]
  /\ DOMAIN arg = Requests
  /\ \A r \in Requests : pc[r] \in PartLabels => arg[r][1] \in Ranges /\ arg[r][2] \in Data

TypeInv == TypeOK /\ ControlInv

(* The list covers what was recorded, in order and with gaps. *)
CoverInv == Apart(session.covered) /\ \A b \in Bytes : b \in written <=> Spans(session.covered, b)

(* No byte of the content is missing. *)
Whole(c) == \A b \in Bytes : c[b] # "hole"

(***************************************************************************)
(* What is recorded was written.  Who has passed the check of the coverage *)
(* works on a whole file, and so do the copies made of it.                 *)
(***************************************************************************)
HoleInv ==
  /\ \A b \in written : temp[b] # "hole"
  /\ \A r \in Requests : pc[r] = "record" => \A b \in Bytes : Has(arg[r][1], b) => temp[b] # "hole"
  /\ \A r \in Requests : pc[r] \in CommitLabels \cup {"close"} => written = Bytes
  /\ where = "stored" => written = Bytes
  /\ enc # None => Whole(enc)
  /\ copy # None => Whole(copy)

(***************************************************************************)
(* Only who closes the file commits, so one does at most, and what it has  *)
(* stored stays.                                                           *)
(***************************************************************************)
CommitInv ==
  /\ \A r, q \in Requests : pc[r] \in CommitLabels /\ pc[q] \in CommitLabels => r = q
  /\ \A r \in Requests : pc[r] \in CommitLabels => ~session.open /\ ~done
  /\ done \/ where = "stored" => ~session.open
  /\ \A r \in Requests : pc[r] \in {"meta", "finish"} => where = "stored" \/ copy # None
  /\ done => where = "stored" \/ copy # None

(* The bytes that no late write touched, and that a content has them right. *)
OnTime == Bytes \ late
GoodOn(c, bs) == \A b \in bs : c[b] = "good"

(***************************************************************************)
(* Once the hash was compared the bytes stay, but for those of late        *)
(* writes, and so do those of the copies made of them.                     *)
(***************************************************************************)
HashInv ==
  HashGiven =>
    /\ \A r \in Requests : pc[r] \in CommitLabels \ {"verify"} => GoodOn(temp, OnTime)
    /\ where = "stored" => GoodOn(temp, OnTime)
    /\ enc # None => GoodOn(enc, OnTime)
    /\ copy # None => GoodOn(copy, OnTime)

(* The session's slot is given back with its entry in the map. *)
SlotInv == count <= 1 /\ (~session.inMap => count <= 0)

(* The inductive invariant. *)
MultipartInv == TypeInv /\ CoverInv /\ HoleInv /\ CommitInv /\ HashInv /\ SlotInv

(* A request comes in: a part with its range and its data, or another call. *)
Starts(r, k, a) ==
  /\ Start(r, k, a)
  /\ k # "part" => k \in Kinds \ {"part"}
  /\ k = "part" => a[1] \in Ranges /\ a[2] \in Data

(* Every step is one of a request; the steps of Next, named one by one. *)
LEMMA NextCases ==
  ASSUME [Next]_vars
  PROVE  \/ UNCHANGED vars
         \/ \E r \in Requests :
              \/ \E k, a : Starts(r, k, a)
              \/ PartCheck(r) \/ PartEnter(r) \/ PartWrite(r) \/ PartRecord(r) \/ PartCount(r)
              \/ CompleteCheck(r) \/ CompleteCoverage(r) \/ CompleteClose(r) \/ CompleteVerify(r)
              \/ CompleteEncrypt(r) \/ CompleteLock(r) \/ CompleteMove(r) \/ CompleteMeta(r)
              \/ CompleteFinish(r)
              \/ EndClose(r) \/ EndDrop(r) \/ EndRemove(r)
<1>1. ASSUME NEW r \in Requests, NEW g \in Ranges, NEW d \in Data, Start(r, "part", <<g, d>>)
      PROVE  \E k, a : Starts(r, k, a)
  <2>1. <<g, d>>[1] = g /\ <<g, d>>[2] = d OBVIOUS
  <2>2. Starts(r, "part", <<g, d>>) BY <1>1, <2>1, Zenon DEF Starts
  <2> QED BY <2>2, Zenon
<1>2. ASSUME NEW r \in Requests, NEW k \in Kinds \ {"part"}, Start(r, k, NoArg)
      PROVE  \E x, a : Starts(r, x, a)
  <2>1. k # "part" OBVIOUS
  <2>2. Starts(r, k, NoArg) BY <1>2, <2>1, Zenon DEF Starts
  <2> QED BY <2>2, Zenon
<1> QED BY <1>1, <1>2, Zenon DEF Next, PartStep, CompleteStep, EndStep

(* The deployment never changes, nor does what it determines. *)
SettingKept ==
  /\ setting' = setting /\ Requests' = Requests /\ N' = N /\ Data' = Data /\ Bytes' = Bytes
  /\ Content' = Content /\ Good' = Good /\ Ranges' = Ranges /\ HashGiven' = HashGiven

(* No request writes the deployment. *)
LEMMA NextSetting == ASSUME [Next]_vars PROVE SettingKept
<1> USE DEF Goto, Return
<1>1. CASE UNCHANGED setting
  BY <1>1, SMT DEF SettingKept, Requests, N, Data, Bytes, Content, Good, Ranges, HashGiven
<1>2. UNCHANGED vars => UNCHANGED setting BY DEF vars
<1>3. ASSUME NEW r \in Requests, NEW k, NEW a, Starts(r, k, a) PROVE UNCHANGED setting
  BY <1>3, Zenon DEF Starts, Start
<1>4. ASSUME NEW r \in Requests, PartStep(r) PROVE UNCHANGED setting
  BY <1>4, Zenon DEF PartStep, PartCheck, PartEnter, PartWrite, PartRecord, PartCount
<1>5. ASSUME NEW r \in Requests, CompleteStep(r) PROVE UNCHANGED setting
  BY <1>5, Zenon DEF CompleteStep, CompleteCheck, CompleteCoverage, CompleteClose, CompleteVerify,
     CompleteEncrypt, CompleteLock, CompleteMove, CompleteMeta, CompleteFinish, Fail
<1>6. ASSUME NEW r \in Requests, EndStep(r) PROVE UNCHANGED setting
  BY <1>6, Zenon DEF EndStep, EndClose, EndDrop, EndRemove
<1> QED BY <1>1, <1>2, <1>3, <1>4, <1>5, <1>6, NextCases, Zenon DEF PartStep, CompleteStep, EndStep

(* The deployment's values have their types. *)
SettingTypes ==
  /\ N \in Nat /\ Data \in {{"good"}, {"good", "bad"}} /\ None \notin Requests /\ None \notin Content
  /\ Kinds \subseteq {"part", "complete", "abort", "cleanup"}

(* What the assumption on the constants says about the deployment at hand. *)
LEMMA SettingFacts == ASSUME TypeOK PROVE SettingTypes
<1>1. setting \in Settings /\ setting \in Setting BY MultipartConstants DEF TypeOK
<1>2. /\ N \in Nat /\ Data \in {{"good"}, {"good", "bad"}} /\ None \notin Requests
      /\ Kinds \subseteq {"part", "complete", "abort", "cleanup"}
  BY <1>1, MultipartConstants DEF Setting, N, Data, Requests, Kinds
<1>3. None \notin Content BY <1>1, MultipartConstants, Zenon DEF Content, Bytes, N, Data
<1> QED BY <1>2, <1>3, Zenon DEF SettingTypes

(* The assignments to the session's fields keep it a session. *)
LEMMA SessionUpdates ==
  ASSUME session \in Session
  PROVE  /\ [session EXCEPT !.inMap = FALSE] \in Session
         /\ [session EXCEPT !.open = FALSE] \in Session
         /\ [session EXCEPT !.closed = TRUE] \in Session
         /\ [session EXCEPT !.open = FALSE, !.inMap = FALSE] \in Session
         /\ [session EXCEPT !.active = FALSE, !.inMap = FALSE] \in Session
         /\ [session EXCEPT !.closed = TRUE, !.open = FALSE, !.active = FALSE] \in Session
         /\ \A x \in Nat : [session EXCEPT !.size = x] \in Session
         /\ \A s \in Seq(Ranges) : [session EXCEPT !.covered = s] \in Session
  BY DEF Session

(* What may become of the temporary file, its encrypted form and the copy. *)
LEMMA FileTypes ==
  ASSUME TypeInv, [Next]_vars
  PROVE  /\ temp' \in Content /\ where' \in {"temp", "stored", "gone"}
         /\ enc' \in Content \cup {None} /\ copy' \in Content \cup {None}
<1>1. /\ temp \in Content /\ where \in {"temp", "stored", "gone"}
      /\ enc \in Content \cup {None} /\ copy \in Content \cup {None}
  BY DEF TypeInv, TypeOK
<1>2. CASE UNCHANGED files BY <1>1, <1>2, Zenon DEF files
<1>3. ASSUME NEW r \in Requests, PartWrite(r)
      PROVE  temp' \in Content /\ UNCHANGED <<where, enc, copy>>
  <2>1. arg[r][2] \in Data BY <1>3 DEF TypeInv, ControlInv, PartWrite, PartLabels
  <2>2. Written(r) \in Content BY <1>1, <2>1 DEF Content, Written
  <2> QED BY <1>1, <1>3, <2>2, Zenon DEF PartWrite
<1>5. ASSUME NEW r \in Requests, CompleteClose(r)
      PROVE  UNCHANGED <<temp, enc, copy>> /\ (UNCHANGED where \/ RemoveTemp)
  BY <1>5, Zenon DEF CompleteClose
<1>6. ASSUME NEW r \in Requests, CompleteVerify(r)
      PROVE  UNCHANGED <<temp, enc, copy>> /\ (UNCHANGED where \/ RemoveTemp)
  BY <1>6, Zenon DEF CompleteVerify, Fail
<1>7. ASSUME NEW r \in Requests, CompleteEncrypt(r)
      PROVE  UNCHANGED <<temp, copy>> /\ RemoveTemp /\ enc' \in Content \cup {None}
  BY <1>1, <1>7, Zenon DEF CompleteEncrypt
<1>8. ASSUME NEW r \in Requests, CompleteLock(r) \/ CompleteFinish(r)
      PROVE  /\ UNCHANGED <<temp, copy>>
             /\ UNCHANGED where \/ RemoveTemp
             /\ enc' = enc \/ enc' = None
  BY <1>1, <1>8, Zenon DEF CompleteLock, CompleteFinish, RemoveStorageTemp
<1>9. ASSUME NEW r \in Requests, CompleteMove(r)
      PROVE  /\ UNCHANGED temp /\ where' \in {"temp", "stored", "gone"}
             /\ enc' = enc \/ enc' = None
             /\ copy' \in Content \cup {None}
  <2>1. PICK w \in WriteFromTempFile : /\ copy' = w.copy /\ UNCHANGED temp
                                       /\ where' = w.where \/ UNCHANGED where \/ RemoveTemp
                                       /\ enc' = enc \/ enc' = None
    BY <1>9, Zenon DEF CompleteMove, RemoveStorageTemp
  <2>2. w.copy \in {copy, enc, temp, None} /\ w.where \in {where, "stored", "gone"}
    BY DEF WriteFromTempFile
  <2>3. where' \in {"temp", "stored", "gone"} BY <1>1, <2>1, <2>2, Zenon DEF RemoveTemp
  <2>4. copy' \in Content \cup {None} BY <1>1, <2>1, <2>2, Zenon
  <2> QED BY <2>1, <2>3, <2>4, Zenon
<1>10. ASSUME NEW r \in Requests, CompleteMeta(r)
       PROVE  UNCHANGED <<temp, enc>> /\ (UNCHANGED where \/ where' = "gone") /\ (copy' = copy \/ copy' = None)
  BY <1>10, Zenon DEF CompleteMeta, files
<1>11. ASSUME NEW r \in Requests, EndRemove(r) PROVE UNCHANGED <<temp, enc, copy>> /\ RemoveTemp
  BY <1>11, Zenon DEF EndRemove
<1>12. ASSUME NEW r \in Requests, NEW k, NEW a, Starts(r, k, a) PROVE UNCHANGED files
  BY <1>12, Zenon DEF Starts, Start
<1>13. ASSUME NEW r \in Requests,
              \/ PartCheck(r) \/ PartEnter(r) \/ PartRecord(r) \/ PartCount(r)
              \/ CompleteCheck(r) \/ CompleteCoverage(r) \/ EndClose(r) \/ EndDrop(r)
       PROVE  UNCHANGED files
  BY <1>13, Zenon DEF PartCheck, PartEnter, PartRecord, PartCount, CompleteCheck,
     CompleteCoverage, EndClose, EndDrop
<1>14. UNCHANGED vars => UNCHANGED files BY DEF vars, files
<1>15. RemoveTemp => where' \in {"temp", "stored", "gone"} BY <1>1, Zenon DEF RemoveTemp
<1> QED BY <1>1, <1>2, <1>3, <1>5, <1>6, <1>7, <1>8, <1>9, <1>10, <1>11, <1>12, <1>13, <1>14,
   <1>15, NextCases, Zenon

(* Every action keeps the types: the counters, the list and the file lock. *)
LEMMA TypeOKStep ==
  ASSUME TypeInv, CoverInv, [Next]_vars
  PROVE  TypeOK'
<1>s. SettingKept BY NextSetting, Zenon
<1>f. N \in Nat BY SettingFacts DEF TypeInv, SettingTypes
<1>t. /\ setting \in Settings /\ session \in Session /\ count \in Int
      /\ flock \in Requests \cup {None} /\ written \subseteq Bytes /\ late \subseteq Bytes
  BY DEF TypeInv, TypeOK
<1>u. /\ temp' \in Content /\ where' \in {"temp", "stored", "gone"}
      /\ enc' \in Content \cup {None} /\ copy' \in Content \cup {None}
  BY FileTypes, Zenon
<1>v. count - 1 \in Int BY <1>t
<1> DEFINE Rest == /\ session' \in Session /\ count' \in Int
                   /\ flock' \in Requests \cup {None} /\ written' \subseteq Bytes /\ late' \subseteq Bytes
<1>1. ASSUME UNCHANGED <<session, count, flock, written, late>> PROVE Rest BY <1>1, <1>t
<1>2. UNCHANGED vars => UNCHANGED <<session, count, flock, written, late>> BY DEF vars
<1>3. ASSUME NEW r \in Requests, NEW k, NEW a, Starts(r, k, a)
      PROVE  UNCHANGED <<session, count, flock, written, late>>
  BY <1>3, Zenon DEF Starts, Start
<1>4. ASSUME NEW r \in Requests, PartCheck(r) \/ PartEnter(r) \/ CompleteCheck(r) \/ EndRemove(r)
      PROVE  UNCHANGED <<session, count, flock, written, late>>
  BY <1>4, Zenon DEF PartCheck, PartEnter, CompleteCheck, EndRemove
<1>5. ASSUME NEW r \in Requests, PartRecord(r) PROVE Rest
  <2>1. arg[r][1] \in Ranges BY <1>5 DEF PartRecord, TypeInv, ControlInv, PartLabels
  <2>2. session.covered \in Seq(Ranges) BY <1>t DEF Session
  <2>3. addCoveredRange(session.covered, arg[r][1].start, arg[r][1].end) \in Seq(Ranges)
    BY <1>f, <2>1, <2>2, AddCovers, Zenon DEF CoverInv
  <2>4. session' \in Session BY <1>5, <1>t, <2>3, SessionUpdates, Zenon DEF PartRecord
  <2>5. written' \subseteq Bytes BY <1>5, <1>t, Zenon DEF PartRecord, Part
  <2> QED BY <1>5, <1>t, <2>4, <2>5, Zenon DEF PartRecord
<1>6. ASSUME NEW r \in Requests, PartCount(r) PROVE Rest
  <2>1. arg[r][1] \in Ranges BY <1>6 DEF PartCount, TypeInv, ControlInv, PartLabels
  <2>2. session.size \in Nat BY <1>t DEF Session
  <2>3. session.size + arg[r][1].end - arg[r][1].start \in Nat BY <1>f, <2>1, <2>2 DEF Ranges
  <2>4. session' \in Session BY <1>6, <1>t, <2>3, SessionUpdates, Zenon DEF PartCount
  <2> QED BY <1>6, <1>t, <2>4, Zenon DEF PartCount
<1>7. ASSUME NEW r \in Requests, CompleteCoverage(r) \/ EndClose(r) PROVE Rest
  BY <1>7, <1>t, SessionUpdates, Zenon DEF CompleteCoverage, EndClose
<1>8. ASSUME NEW r \in Requests, CompleteClose(r) \/ CompleteVerify(r) \/ CompleteEncrypt(r) \/ EndDrop(r)
      PROVE  Rest
  BY <1>8, <1>t, <1>v, SessionUpdates, Zenon DEF CompleteClose, CompleteVerify, CompleteEncrypt,
     EndDrop, Fail, Drop
<1>9. ASSUME NEW r \in Requests, CompleteLock(r) \/ CompleteMove(r) \/ CompleteMeta(r) \/ CompleteFinish(r)
      PROVE  Rest
  BY <1>9, <1>t, <1>v, SessionUpdates, Zenon DEF CompleteLock, CompleteMove, CompleteMeta,
     CompleteFinish, Drop
<1>11. ASSUME NEW r \in Requests, PartWrite(r) PROVE Rest
  <2>1. Part(r) \subseteq Bytes BY Zenon DEF Part
  <2> QED BY <1>11, <1>t, <2>1, Zenon DEF PartWrite
<1>10. Rest BY <1>t, <1>1, <1>2, <1>3, <1>4, <1>5, <1>6, <1>7, <1>8, <1>9, <1>11, NextCases, Zenon
<1> QED BY <1>s, <1>t, <1>u, <1>10, Zenon DEF TypeOK, Session, SettingKept

(* Every action keeps the labels, and a part its range and data. *)
LEMMA ControlStep ==
  ASSUME TypeInv, [Next]_vars
  PROVE  ControlInv'
<1>s. SettingKept BY NextSetting, Zenon
<1>f. SettingTypes BY SettingFacts, Zenon DEF TypeInv
<1> USE <1>s, <1>f DEF SettingKept, SettingTypes, TypeInv, PartLabels, CommitLabels, Labels
<1>1. CASE UNCHANGED vars
  BY <1>1 DEF vars, files, ControlInv
<1>2. ASSUME NEW r \in Requests, NEW k, NEW a, Starts(r, k, a) PROVE ControlInv'
  BY <1>2 DEF Starts, Start, files, ControlInv
<1>3. ASSUME NEW r \in Requests, PartCheck(r) PROVE ControlInv'
  BY <1>3 DEF PartCheck, Goto, Return, files, ControlInv
<1>4. ASSUME NEW r \in Requests, PartEnter(r) PROVE ControlInv'
  BY <1>4 DEF PartEnter, Goto, Return, files, ControlInv
<1>5. ASSUME NEW r \in Requests, PartWrite(r) PROVE ControlInv'
  BY <1>5 DEF PartWrite, Goto, Return, Written, files, ControlInv
<1>6. ASSUME NEW r \in Requests, PartRecord(r) PROVE ControlInv'
  BY <1>6 DEF PartRecord, Goto, files, ControlInv
<1>7. ASSUME NEW r \in Requests, PartCount(r) PROVE ControlInv'
  BY <1>7 DEF PartCount, Return, files, ControlInv
<1>8. ASSUME NEW r \in Requests, CompleteCheck(r) PROVE ControlInv'
  BY <1>8 DEF CompleteCheck, Goto, Return, files, ControlInv
<1>9. ASSUME NEW r \in Requests, CompleteCoverage(r) PROVE ControlInv'
  BY <1>9 DEF CompleteCoverage, Goto, Return, files, ControlInv
<1>10. ASSUME NEW r \in Requests, CompleteClose(r) PROVE ControlInv'
  BY <1>10 DEF CompleteClose, Goto, Return, RemoveTemp, files, ControlInv
<1>11. ASSUME NEW r \in Requests, CompleteVerify(r) PROVE ControlInv'
  BY <1>11 DEF CompleteVerify, Goto, Return, Fail, Drop, RemoveTemp, files, ControlInv
<1>12. ASSUME NEW r \in Requests, CompleteEncrypt(r) PROVE ControlInv'
  BY <1>12 DEF CompleteEncrypt, Goto, Return, Drop, RemoveTemp, files, ControlInv
<1>13. ASSUME NEW r \in Requests, CompleteLock(r) PROVE ControlInv'
  BY <1>13 DEF CompleteLock, Goto, Return, Drop, RemoveTemp, RemoveStorageTemp, files, ControlInv
<1>14. ASSUME NEW r \in Requests, CompleteMove(r) PROVE ControlInv'
  BY <1>14 DEF CompleteMove, Goto, Return, Drop, RemoveTemp, RemoveStorageTemp, WriteFromTempFile,
     files, ControlInv
<1>15. ASSUME NEW r \in Requests, CompleteMeta(r) PROVE ControlInv'
  BY <1>15 DEF CompleteMeta, Goto, Return, Drop, files, ControlInv
<1>16. ASSUME NEW r \in Requests, CompleteFinish(r) PROVE ControlInv'
  BY <1>16 DEF CompleteFinish, Return, RemoveTemp, RemoveStorageTemp, files, ControlInv
<1>17. ASSUME NEW r \in Requests, EndClose(r) PROVE ControlInv'
  BY <1>17 DEF EndClose, Goto, files, ControlInv
<1>18. ASSUME NEW r \in Requests, EndDrop(r) PROVE ControlInv'
  BY <1>18 DEF EndDrop, Goto, Return, Drop, files, ControlInv
<1>19. ASSUME NEW r \in Requests, EndRemove(r) PROVE ControlInv'
  BY <1>19 DEF EndRemove, Goto, Return, RemoveTemp, files, ControlInv
<1> QED BY <1>1, <1>2, <1>3, <1>4, <1>5, <1>6, <1>7, <1>8, <1>9, <1>10, <1>11, <1>12, <1>13,
         <1>14, <1>15, <1>16, <1>17, <1>18, <1>19, NextCases, Zenon

(* Only PartRecord touches the list, and it adds the range it records. *)
LEMMA CoverStep ==
  ASSUME TypeInv, CoverInv, [Next]_vars
  PROVE  CoverInv'
<1>s. Bytes' = Bytes BY NextSetting, Zenon DEF SettingKept
<1>f. N \in Nat BY SettingFacts DEF TypeInv, SettingTypes
<1>t. session \in Session BY DEF TypeInv, TypeOK
<1>1. CASE session'.covered = session.covered /\ written' = written
  BY <1>s, <1>1, Zenon DEF CoverInv
<1> DEFINE Same == session'.covered = session.covered /\ written' = written
<1>2. UNCHANGED vars => Same BY DEF vars
<1>3. ASSUME NEW r \in Requests, NEW k, NEW a, Starts(r, k, a) PROVE Same
  BY <1>3, Zenon DEF Starts, Start
<1>4. ASSUME NEW r \in Requests, PartRecord(r) PROVE CoverInv'
  <2> DEFINE g == arg[r][1]
             new == addCoveredRange(session.covered, g.start, g.end)
  <2>1. g \in Ranges BY <1>4 DEF PartRecord, TypeInv, ControlInv, PartLabels
  <2>2. session.covered \in Seq(Ranges) BY <1>t DEF Session
  <2>3. Apart(new) /\ \A b \in Bytes : Spans(new, b) <=> Spans(session.covered, b) \/ Has(g, b)
    BY <1>f, <2>1, <2>2, AddCovers, Zenon DEF CoverInv
  <2>4. session'.covered = new BY <1>4, <1>t DEF PartRecord, Session
  <2>5. written' = written \cup {b \in Bytes : Has(g, b)} BY <1>4, Zenon DEF PartRecord, Part, Has
  <2> HIDE DEF new, g
  <2>6. \A b \in Bytes : b \in written' <=> Spans(session'.covered, b)
    BY <2>3, <2>4, <2>5, Zenon DEF CoverInv
  <2> QED BY <1>s, <2>3, <2>4, <2>6, Zenon DEF CoverInv
<1>5. ASSUME NEW r \in Requests, PartCheck(r) \/ PartEnter(r) \/ PartWrite(r) \/ CompleteCheck(r) \/ EndRemove(r)
      PROVE  Same
  BY <1>5, Zenon DEF PartCheck, PartEnter, PartWrite, CompleteCheck, EndRemove
<1>6. ASSUME NEW r \in Requests, PartCount(r) \/ CompleteCoverage(r) \/ CompleteClose(r) \/ EndClose(r) \/ EndDrop(r)
      PROVE  Same
  BY <1>6, <1>t DEF PartCount, CompleteCoverage, CompleteClose, EndClose, EndDrop, Drop, Session
<1>7. ASSUME NEW r \in Requests, CompleteVerify(r) \/ CompleteEncrypt(r) \/ CompleteLock(r)
      PROVE  Same
  BY <1>7, <1>t DEF CompleteVerify, CompleteEncrypt, CompleteLock, Drop, Fail, Session
<1>8. ASSUME NEW r \in Requests, CompleteMove(r) \/ CompleteMeta(r) \/ CompleteFinish(r)
      PROVE  Same
  <2>1. (session' = session \/ Drop \/ session' = [session EXCEPT !.active = FALSE, !.inMap = FALSE])
        /\ written' = written
    BY <1>8, Zenon DEF CompleteMove, CompleteMeta, CompleteFinish
  <2> QED BY <2>1, <1>t DEF Drop, Session
<1> QED BY <1>1, <1>2, <1>3, <1>4, <1>5, <1>6, <1>7, <1>8, NextCases, Zenon

(* Every action keeps what is recorded written, and a file that passed the check whole. *)
LEMMA HoleStep ==
  ASSUME TypeInv, CoverInv, HoleInv, CommitInv, [Next]_vars
  PROVE  HoleInv'
<1>s. SettingKept BY NextSetting, Zenon
<1>f. SettingTypes BY SettingFacts, Zenon DEF TypeInv
<1> USE <1>s, <1>f DEF SettingKept, SettingTypes, Whole, TypeInv, ControlInv, TypeOK, Session, PartLabels, CommitLabels
<1>1. CASE UNCHANGED vars
  BY <1>1 DEF vars, files, HoleInv
<1>2. ASSUME NEW r \in Requests, NEW k, NEW a, Starts(r, k, a) PROVE HoleInv'
  BY <1>2 DEF Starts, Start, files, HoleInv
<1>3. ASSUME NEW r \in Requests, PartCheck(r) PROVE HoleInv'
  BY <1>3 DEF PartCheck, Goto, Return, files, HoleInv
<1>4. ASSUME NEW r \in Requests, PartEnter(r) PROVE HoleInv'
  BY <1>4 DEF PartEnter, Goto, Return, files, HoleInv
<1>5. ASSUME NEW r \in Requests, PartWrite(r) PROVE HoleInv'
  <2>1. arg[r][2] \in Data /\ arg[r][2] # "hole" BY <1>5 DEF PartWrite
  <2>2. /\ \A b \in Bytes : temp[b] # "hole" => temp'[b] # "hole"
        /\ temp' = Written(r) => \A b \in Bytes : Has(arg[r][1], b) => temp'[b] # "hole"
    BY <1>5, <2>1 DEF PartWrite, Written, Part, Has
  <2>3. /\ UNCHANGED <<where, enc, copy, written>>
        /\ \/ temp' = Written(r) /\ pc' = [pc EXCEPT ![r] = "record"] /\ arg' = arg
           \/ pc' = [pc EXCEPT ![r] = "idle"] /\ arg' = [arg EXCEPT ![r] = NoArg]
    BY <1>5, Zenon DEF PartWrite, Goto, Return
  <2> QED BY <2>2, <2>3 DEF HoleInv
<1>6. ASSUME NEW r \in Requests, PartRecord(r) PROVE HoleInv'
  <2>1. /\ UNCHANGED <<temp, where, enc, copy, arg>> /\ pc[r] = "record" /\ pc' = [pc EXCEPT ![r] = "count"]
        /\ written' = written \cup {b \in Bytes : Has(arg[r][1], b)}
    BY <1>6, Zenon DEF PartRecord, Part, Goto, files, Has
  <2>2. \A b \in Bytes : Has(arg[r][1], b) => temp[b] # "hole" BY <2>1, Zenon DEF HoleInv
  <2> QED BY <2>1, <2>2 DEF HoleInv
<1>7. ASSUME NEW r \in Requests, PartCount(r) PROVE HoleInv'
  BY <1>7 DEF PartCount, Return, files, HoleInv
<1>8. ASSUME NEW r \in Requests, CompleteCheck(r) PROVE HoleInv'
  BY <1>8 DEF CompleteCheck, Goto, Return, files, HoleInv
<1>9. ASSUME NEW r \in Requests, CompleteCoverage(r) PROVE HoleInv'
  <2>1. isFullyCovered(session.covered) => written = Bytes
    <3>1. session.covered \in Seq(Ranges) OBVIOUS
    <3>2. isFullyCovered(session.covered) <=> \A b \in Bytes : Spans(session.covered, b)
      BY <3>1, FullyCovered, Zenon DEF CoverInv
    <3> QED BY <3>2, Zenon DEF CoverInv
  <2>2. /\ UNCHANGED <<temp, where, enc, copy, written>>
        /\ \/ pc' = [pc EXCEPT ![r] = "close"] /\ arg' = arg /\ written = Bytes
           \/ pc' = [pc EXCEPT ![r] = "idle"] /\ arg' = [arg EXCEPT ![r] = NoArg]
    BY <1>9, <2>1, Zenon DEF CompleteCoverage, Goto, Return, files
  <2> QED BY <2>2 DEF HoleInv
<1>10. ASSUME NEW r \in Requests, CompleteClose(r) PROVE HoleInv'
  BY <1>10 DEF CompleteClose, Goto, Return, RemoveTemp, files, HoleInv
<1>11. ASSUME NEW r \in Requests, CompleteVerify(r) PROVE HoleInv'
  BY <1>11 DEF CompleteVerify, Goto, Return, Fail, Drop, RemoveTemp, files, HoleInv
<1>12. ASSUME NEW r \in Requests, CompleteEncrypt(r) PROVE HoleInv'
  BY <1>12 DEF CompleteEncrypt, Goto, Return, Drop, RemoveTemp, files, HoleInv
<1>13. ASSUME NEW r \in Requests, CompleteLock(r) PROVE HoleInv'
  BY <1>13 DEF CompleteLock, Goto, Return, Drop, RemoveTemp, RemoveStorageTemp, files, HoleInv
<1>14. ASSUME NEW r \in Requests, CompleteMove(r) PROVE HoleInv'
  BY <1>14 DEF CompleteMove, Goto, Return, Drop, RemoveTemp, RemoveStorageTemp, WriteFromTempFile,
     files, HoleInv
<1>15. ASSUME NEW r \in Requests, CompleteMeta(r) PROVE HoleInv'
  BY <1>15 DEF CompleteMeta, Goto, Return, Drop, files, HoleInv
<1>16. ASSUME NEW r \in Requests, CompleteFinish(r) PROVE HoleInv'
  BY <1>16 DEF CompleteFinish, Return, RemoveTemp, RemoveStorageTemp, files, HoleInv
<1>17. ASSUME NEW r \in Requests, EndClose(r) PROVE HoleInv'
  BY <1>17 DEF EndClose, Goto, files, HoleInv
<1>18. ASSUME NEW r \in Requests, EndDrop(r) PROVE HoleInv'
  BY <1>18 DEF EndDrop, Goto, Return, Drop, files, HoleInv
<1>19. ASSUME NEW r \in Requests, EndRemove(r) PROVE HoleInv'
  BY <1>19 DEF EndRemove, Goto, Return, RemoveTemp, files, HoleInv
<1> QED BY <1>1, <1>2, <1>3, <1>4, <1>5, <1>6, <1>7, <1>8, <1>9, <1>10, <1>11, <1>12, <1>13,
         <1>14, <1>15, <1>16, <1>17, <1>18, <1>19, NextCases, Zenon

(* Every action keeps one completion past the close at most. *)
LEMMA CommitStep ==
  ASSUME TypeInv, CommitInv, [Next]_vars
  PROVE  CommitInv'
<1>s. SettingKept BY NextSetting, Zenon
<1>f. SettingTypes BY SettingFacts, Zenon DEF TypeInv
<1> USE <1>s, <1>f DEF SettingKept, SettingTypes, CommitLabels, TypeInv, ControlInv, TypeOK, Session
<1>1. CASE UNCHANGED vars
  BY <1>1 DEF vars, files, CommitInv
<1>2. ASSUME NEW r \in Requests, NEW k, NEW a, Starts(r, k, a) PROVE CommitInv'
  BY <1>2 DEF Starts, Start, files, CommitInv
<1>3. ASSUME NEW r \in Requests, PartCheck(r) PROVE CommitInv'
  BY <1>3 DEF PartCheck, Goto, Return, files, CommitInv
<1>4. ASSUME NEW r \in Requests, PartEnter(r) PROVE CommitInv'
  BY <1>4 DEF PartEnter, Goto, Return, files, CommitInv
<1>5. ASSUME NEW r \in Requests, PartWrite(r) PROVE CommitInv'
  BY <1>5 DEF PartWrite, Goto, Return, Written, files, CommitInv
<1>6. ASSUME NEW r \in Requests, PartRecord(r) PROVE CommitInv'
  BY <1>6 DEF PartRecord, Goto, files, CommitInv
<1>7. ASSUME NEW r \in Requests, PartCount(r) PROVE CommitInv'
  BY <1>7 DEF PartCount, Return, files, CommitInv
<1>8. ASSUME NEW r \in Requests, CompleteCheck(r) PROVE CommitInv'
  BY <1>8 DEF CompleteCheck, Goto, Return, files, CommitInv
<1>9. ASSUME NEW r \in Requests, CompleteCoverage(r) PROVE CommitInv'
  BY <1>9 DEF CompleteCoverage, Goto, Return, files, CommitInv
<1>10. ASSUME NEW r \in Requests, CompleteClose(r) PROVE CommitInv'
  <2>1. /\ pc[r] = "close" /\ session'.open = FALSE /\ UNCHANGED <<copy, done>>
        /\ \/ /\ session.open /\ where' = where
              /\ \E l \in {"verify", "encrypt", "lock"} : pc' = [pc EXCEPT ![r] = l]
           \/ where' = (IF where = "temp" THEN "gone" ELSE where) /\ pc' = [pc EXCEPT ![r] = "idle"]
    BY <1>10 DEF CompleteClose, Goto, Return, RemoveTemp
  <2>2. session.open => ~done /\ where # "stored" /\ \A q \in Requests : pc[q] \notin CommitLabels
    BY DEF CommitInv
  <2> QED BY <2>1, <2>2 DEF CommitInv
<1>11. ASSUME NEW r \in Requests, CompleteVerify(r) PROVE CommitInv'
  BY <1>11 DEF CompleteVerify, Goto, Return, Fail, Drop, RemoveTemp, files, CommitInv
<1>12. ASSUME NEW r \in Requests, CompleteEncrypt(r) PROVE CommitInv'
  BY <1>12 DEF CompleteEncrypt, Goto, Return, Drop, RemoveTemp, files, CommitInv
<1>13. ASSUME NEW r \in Requests, CompleteLock(r) PROVE CommitInv'
  BY <1>13 DEF CompleteLock, Goto, Return, Drop, RemoveTemp, RemoveStorageTemp, files, CommitInv
<1>14. ASSUME NEW r \in Requests, CompleteMove(r) PROVE CommitInv'
  BY <1>14 DEF CompleteMove, Goto, Return, Drop, RemoveTemp, RemoveStorageTemp, WriteFromTempFile,
     files, CommitInv
<1>15. ASSUME NEW r \in Requests, CompleteMeta(r) PROVE CommitInv'
  BY <1>15 DEF CompleteMeta, Goto, Return, Drop, files, CommitInv
<1>16. ASSUME NEW r \in Requests, CompleteFinish(r) PROVE CommitInv'
  BY <1>16 DEF CompleteFinish, Return, RemoveTemp, RemoveStorageTemp, files, CommitInv
<1>17. ASSUME NEW r \in Requests, EndClose(r) PROVE CommitInv'
  BY <1>17 DEF EndClose, Goto, files, CommitInv
<1>18. ASSUME NEW r \in Requests, EndDrop(r) PROVE CommitInv'
  BY <1>18 DEF EndDrop, Goto, Return, Drop, files, CommitInv
<1>19. ASSUME NEW r \in Requests, EndRemove(r) PROVE CommitInv'
  BY <1>19 DEF EndRemove, Goto, Return, RemoveTemp, files, CommitInv
<1> QED BY <1>1, <1>2, <1>3, <1>4, <1>5, <1>6, <1>7, <1>8, <1>9, <1>10, <1>11, <1>12, <1>13,
         <1>14, <1>15, <1>16, <1>17, <1>18, <1>19, NextCases, Zenon

(* Every action keeps the bytes whose hash was compared. *)
LEMMA HashStep ==
  ASSUME TypeInv, CommitInv, HashInv, [Next]_vars
  PROVE  HashInv'
<1>s. SettingKept BY NextSetting, Zenon
<1>f. SettingTypes BY SettingFacts, Zenon DEF TypeInv
<1> USE <1>s, <1>f DEF SettingKept, SettingTypes, CommitLabels, TypeInv, ControlInv, TypeOK, Session
<1>o. late' = late => OnTime' = OnTime BY <1>s, Zenon DEF SettingKept, OnTime
<1> USE <1>o
<1>1. CASE UNCHANGED vars
  BY <1>1 DEF vars, files, HashInv
<1>2. ASSUME NEW r \in Requests, NEW k, NEW a, Starts(r, k, a) PROVE HashInv'
  BY <1>2 DEF Starts, Start, files, HashInv
<1>3. ASSUME NEW r \in Requests, PartCheck(r) PROVE HashInv'
  BY <1>3 DEF PartCheck, Goto, Return, files, HashInv
<1>4. ASSUME NEW r \in Requests, PartEnter(r) PROVE HashInv'
  BY <1>4 DEF PartEnter, Goto, Return, files, HashInv
<1>5. ASSUME NEW r \in Requests, PartWrite(r) PROVE HashInv'
  <2>1. /\ UNCHANGED <<where, enc, copy>> /\ \E l \in {"record", "idle"} : pc' = [pc EXCEPT ![r] = l]
        /\ temp' \in {temp, Written(r)}
        /\ late' = IF session.open \/ temp' = temp THEN late ELSE late \cup Part(r)
    BY <1>5, Zenon DEF PartWrite, Goto, Return
  <2>2. \A c : GoodOn(c, OnTime) => GoodOn(c, OnTime') BY <2>1, <1>s, Zenon DEF GoodOn, OnTime, SettingKept
  <2>3. \A b \in Bytes \ Part(r) : Written(r)[b] = temp[b] BY DEF Written
  <2>4. GoodOn(temp, OnTime) /\ ~session.open => GoodOn(temp', OnTime')
    BY <2>1, <2>3, <1>s, Zenon DEF GoodOn, OnTime, SettingKept
  <2>5. (where = "stored" \/ \E q \in Requests : pc[q] \in CommitLabels) => ~session.open
    BY DEF CommitInv
  <2> HIDE DEF TypeOK
  <2> QED BY <2>1, <2>2, <2>4, <2>5 DEF HashInv
<1>6. ASSUME NEW r \in Requests, PartRecord(r) PROVE HashInv'
  BY <1>6 DEF PartRecord, Goto, files, HashInv
<1>7. ASSUME NEW r \in Requests, PartCount(r) PROVE HashInv'
  BY <1>7 DEF PartCount, Return, files, HashInv
<1>8. ASSUME NEW r \in Requests, CompleteCheck(r) PROVE HashInv'
  BY <1>8 DEF CompleteCheck, Goto, Return, files, HashInv
<1>9. ASSUME NEW r \in Requests, CompleteCoverage(r) PROVE HashInv'
  BY <1>9 DEF CompleteCoverage, Goto, Return, files, HashInv
<1>10. ASSUME NEW r \in Requests, CompleteClose(r) PROVE HashInv'
  <2>1. /\ UNCHANGED <<temp, enc, copy, late>>
        /\ \/ where' = where /\ \E l \in {"verify", "encrypt", "lock"} :
                pc' = [pc EXCEPT ![r] = l] /\ (HashGiven => l = "verify")
           \/ where' = (IF where = "temp" THEN "gone" ELSE where) /\ pc' = [pc EXCEPT ![r] = "idle"]
    BY <1>10 DEF CompleteClose, Goto, Return, RemoveTemp
  <2> HIDE DEF TypeOK, Session
  <2> QED BY <2>1 DEF HashInv
<1>11. ASSUME NEW r \in Requests, CompleteVerify(r) PROVE HashInv'
  <2>1. temp = Good => GoodOn(temp, OnTime) BY DEF Good, GoodOn, OnTime
  <2> QED BY <1>11, <2>1 DEF CompleteVerify, Goto, Return, Fail, Drop, RemoveTemp, files, HashInv
<1>12. ASSUME NEW r \in Requests, CompleteEncrypt(r) PROVE HashInv'
  BY <1>12 DEF CompleteEncrypt, Goto, Return, Drop, RemoveTemp, files, HashInv
<1>13. ASSUME NEW r \in Requests, CompleteLock(r) PROVE HashInv'
  BY <1>13 DEF CompleteLock, Goto, Return, Drop, RemoveTemp, RemoveStorageTemp, files, HashInv
<1>14. ASSUME NEW r \in Requests, CompleteMove(r) PROVE HashInv'
  BY <1>14 DEF CompleteMove, Goto, Return, Drop, RemoveTemp, RemoveStorageTemp, WriteFromTempFile,
     files, HashInv
<1>15. ASSUME NEW r \in Requests, CompleteMeta(r) PROVE HashInv'
  BY <1>15 DEF CompleteMeta, Goto, Return, Drop, files, HashInv
<1>16. ASSUME NEW r \in Requests, CompleteFinish(r) PROVE HashInv'
  BY <1>16 DEF CompleteFinish, Return, RemoveTemp, RemoveStorageTemp, files, HashInv
<1>17. ASSUME NEW r \in Requests, EndClose(r) PROVE HashInv'
  BY <1>17 DEF EndClose, Goto, files, HashInv
<1>18. ASSUME NEW r \in Requests, EndDrop(r) PROVE HashInv'
  BY <1>18 DEF EndDrop, Goto, Return, Drop, files, HashInv
<1>19. ASSUME NEW r \in Requests, EndRemove(r) PROVE HashInv'
  BY <1>19 DEF EndRemove, Goto, Return, RemoveTemp, files, HashInv
<1> QED BY <1>1, <1>2, <1>3, <1>4, <1>5, <1>6, <1>7, <1>8, <1>9, <1>10, <1>11, <1>12, <1>13,
         <1>14, <1>15, <1>16, <1>17, <1>18, <1>19, NextCases, Zenon

(* Every action that takes the session out of the map gives the slot back. *)
LEMMA SlotStep ==
  ASSUME TypeInv, SlotInv, [Next]_vars
  PROVE  SlotInv'
<1>s. SettingKept BY NextSetting, Zenon
<1>f. SettingTypes BY SettingFacts, Zenon DEF TypeInv
<1> USE <1>s, <1>f DEF SettingKept, SettingTypes, TypeInv, ControlInv, TypeOK, Session
<1>1. CASE UNCHANGED vars
  BY <1>1 DEF vars, files, SlotInv
<1>2. ASSUME NEW r \in Requests, NEW k, NEW a, Starts(r, k, a) PROVE SlotInv'
  BY <1>2 DEF Starts, Start, files, SlotInv
<1>3. ASSUME NEW r \in Requests, PartCheck(r) PROVE SlotInv'
  BY <1>3 DEF PartCheck, Goto, Return, files, SlotInv
<1>4. ASSUME NEW r \in Requests, PartEnter(r) PROVE SlotInv'
  BY <1>4 DEF PartEnter, Goto, Return, files, SlotInv
<1>5. ASSUME NEW r \in Requests, PartWrite(r) PROVE SlotInv'
  BY <1>5 DEF PartWrite, Goto, Return, Written, files, SlotInv
<1>6. ASSUME NEW r \in Requests, PartRecord(r) PROVE SlotInv'
  BY <1>6 DEF PartRecord, Goto, files, SlotInv
<1>7. ASSUME NEW r \in Requests, PartCount(r) PROVE SlotInv'
  BY <1>7 DEF PartCount, Return, files, SlotInv
<1>8. ASSUME NEW r \in Requests, CompleteCheck(r) PROVE SlotInv'
  BY <1>8 DEF CompleteCheck, Goto, Return, files, SlotInv
<1>9. ASSUME NEW r \in Requests, CompleteCoverage(r) PROVE SlotInv'
  BY <1>9 DEF CompleteCoverage, Goto, Return, files, SlotInv
<1>10. ASSUME NEW r \in Requests, CompleteClose(r) PROVE SlotInv'
  BY <1>10 DEF CompleteClose, Goto, Return, RemoveTemp, files, SlotInv
<1>11. ASSUME NEW r \in Requests, CompleteVerify(r) PROVE SlotInv'
  BY <1>11 DEF CompleteVerify, Goto, Return, Fail, Drop, RemoveTemp, files, SlotInv
<1>12. ASSUME NEW r \in Requests, CompleteEncrypt(r) PROVE SlotInv'
  BY <1>12 DEF CompleteEncrypt, Goto, Return, Drop, RemoveTemp, files, SlotInv
<1>13. ASSUME NEW r \in Requests, CompleteLock(r) PROVE SlotInv'
  BY <1>13 DEF CompleteLock, Goto, Return, Drop, RemoveTemp, RemoveStorageTemp, files, SlotInv
<1>14. ASSUME NEW r \in Requests, CompleteMove(r) PROVE SlotInv'
  BY <1>14 DEF CompleteMove, Goto, Return, Drop, RemoveTemp, RemoveStorageTemp, WriteFromTempFile,
     files, SlotInv
<1>15. ASSUME NEW r \in Requests, CompleteMeta(r) PROVE SlotInv'
  BY <1>15 DEF CompleteMeta, Goto, Return, Drop, files, SlotInv
<1>16. ASSUME NEW r \in Requests, CompleteFinish(r) PROVE SlotInv'
  BY <1>16 DEF CompleteFinish, Return, RemoveTemp, RemoveStorageTemp, files, SlotInv
<1>17. ASSUME NEW r \in Requests, EndClose(r) PROVE SlotInv'
  BY <1>17 DEF EndClose, Goto, files, SlotInv
<1>18. ASSUME NEW r \in Requests, EndDrop(r) PROVE SlotInv'
  BY <1>18 DEF EndDrop, Goto, Return, Drop, files, SlotInv
<1>19. ASSUME NEW r \in Requests, EndRemove(r) PROVE SlotInv'
  BY <1>19 DEF EndRemove, Goto, Return, RemoveTemp, files, SlotInv
<1> QED BY <1>1, <1>2, <1>3, <1>4, <1>5, <1>6, <1>7, <1>8, <1>9, <1>10, <1>11, <1>12, <1>13,
         <1>14, <1>15, <1>16, <1>17, <1>18, <1>19, NextCases, Zenon

-----------------------------------------------------------------------------
(* The inductive invariant holds in every behaviour of a multipart upload. *)
THEOREM MultipartInvariant == Spec => []MultipartInv
<1>1. Init => MultipartInv
  <2> SUFFICES ASSUME Init PROVE MultipartInv
    OBVIOUS
  <2>1. setting \in Settings /\ setting \in Setting BY MultipartConstants DEF Init
  <2>2. N \in Nat /\ Data \in {{"good"}, {"good", "bad"}} BY <2>1 DEF Setting, N, Data
  <2>3. TypeOK
    <3>1. temp \in Content BY DEF Init, Content
    <3>2. session \in Session BY DEF Init, Session
    <3> QED BY <2>1, <3>1, <3>2 DEF Init, TypeOK
  <2>4. ControlInv BY DEF Init, ControlInv, Labels, PartLabels, CommitLabels
  <2>5. session.covered = <<>> /\ DOMAIN session.covered = {} /\ written = {} BY DEF Init
  <2>6. CoverInv BY <2>5, Zenon DEF CoverInv, Apart, Spans
  <2>7. HoleInv BY DEF Init, HoleInv, CommitLabels
  <2>8. CommitInv /\ HashInv /\ SlotInv BY DEF Init, CommitInv, HashInv, SlotInv, CommitLabels
  <2> QED BY <2>3, <2>4, <2>6, <2>7, <2>8, Zenon DEF MultipartInv, TypeInv
<1>2. MultipartInv /\ [Next]_vars => MultipartInv'
  BY TypeOKStep, ControlStep, CoverStep, HoleStep, CommitStep, HashStep, SlotStep, Zenon
  DEF MultipartInv, TypeInv
<1> QED BY <1>1, <1>2, PTL DEF Spec

(* Type correctness of the state of a multipart upload. *)
THEOREM TypeCorrect == Spec => []TypeOK
<1>1. MultipartInv => TypeOK BY DEF MultipartInv, TypeInv
<1> QED BY MultipartInvariant, <1>1, PTL

(***************************************************************************)
(* addCoveredRange keeps coveredRanges sorted, with gaps, and exact for    *)
(* every sequence of overlapping, adjacent and repeated ranges of a file   *)
(* of any size, and isFullyCovered answers exactly when no byte is missing.*)
(***************************************************************************)
THEOREM CoverageIsExact == Spec => []CoverageExact
<1>1. MultipartInv => CoverageExact
  <2> SUFFICES ASSUME MultipartInv PROVE CoverageExact
    OBVIOUS
  <2>1. N \in Nat BY SettingFacts DEF MultipartInv, TypeInv, SettingTypes
  <2>2. session.covered \in Seq(Ranges) /\ written \subseteq Bytes
    BY DEF MultipartInv, TypeInv, TypeOK, Session
  <2>3. Apart(session.covered) /\ \A b \in Bytes : b \in written <=> Spans(session.covered, b)
    BY Zenon DEF MultipartInv, CoverInv
  <2>4. Covered = written
    BY <2>2, <2>3, Zenon DEF Covered, Spans, Has
  <2>5. \A i \in 1 .. Len(session.covered) - 1 : session.covered[i].end < session.covered[i + 1].start
    BY <2>2, <2>3 DEF Apart
  <2>6. isFullyCovered(session.covered) <=> \A b \in Bytes : Spans(session.covered, b)
    BY <2>1, <2>2, <2>3, FullyCovered, Zenon
  <2>7. isFullyCovered(session.covered) <=> written = Bytes
    BY <2>2, <2>3, <2>6, Zenon
  <2> QED BY <2>4, <2>5, <2>7, Zenon DEF CoverageExact
<1> QED BY MultipartInvariant, <1>1, PTL

(***************************************************************************)
(* A file that CompleteMultipartUpload committed has no hole, and it has   *)
(* the declared hash but for the bytes of parts that landed in it after    *)
(* the close, for files of any size and any parts.                         *)
(***************************************************************************)
THEOREM CommittedFileIntact == Spec => []CommittedIntact
<1>1. MultipartInv => CommittedIntact
  <2> SUFFICES ASSUME MultipartInv, done PROVE CommittedIntact
    BY DEF CommittedIntact
  <2>1. None \notin Content /\ temp \in Content
    BY SettingFacts DEF MultipartInv, TypeInv, TypeOK, SettingTypes
  <2>2. where = "stored" \/ copy # None BY Zenon DEF MultipartInv, CommitInv
  <2>3. where = "stored" => Whole(temp) BY Zenon DEF MultipartInv, HoleInv, Whole
  <2>4. copy # None => Whole(copy) BY Zenon DEF MultipartInv, HoleInv
  <2>5. HashGiven => /\ where = "stored" => GoodOn(temp, OnTime)
                     /\ copy # None => GoodOn(copy, OnTime)
    BY Zenon DEF MultipartInv, HashInv
  <2>6. Stored # None /\ Whole(Stored) /\ (HashGiven => GoodOn(Stored, OnTime))
    <3>1. CASE where = "stored" BY <2>1, <2>3, <2>5, <3>1, Zenon DEF Stored
    <3>2. CASE where # "stored" BY <2>2, <2>4, <2>5, <3>2, Zenon DEF Stored
    <3> QED BY <3>1, <3>2
  <2> QED BY <2>6, Zenon DEF CommittedIntact, Whole, GoodOn, OnTime
<1> QED BY MultipartInvariant, <1>1, PTL

(* A session that has left the map holds no slot, whatever end it came to. *)
THEOREM SlotGivenBack == Spec => []NoSlotLeak
<1>1. MultipartInv => NoSlotLeak BY Zenon DEF MultipartInv, SlotInv, NoSlotLeak
<1> QED BY MultipartInvariant, <1>1, PTL
==============================================================================
