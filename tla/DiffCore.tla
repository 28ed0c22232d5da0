---- MODULE DiffCore ----
(***************************************************************************)
(* The line diff of src/Sources/SSBDiffCore.c.  A file is the sequence of  *)
(* the hashes of its lines, which are compared by nothing else; the        *)
(* histogram algorithm splits both files at a shared line of least         *)
(* frequency.  Lines are numbered from 0, as in the code: line i of a is   *)
(* a[i + 1].                                                               *)
(***************************************************************************)
EXTENDS Integers, Sequences, FiniteSets

HISTOGRAM == "histogram"
MYERS == "myers"    \* and every other value of SSBDiffAlgorithm

Match(i, j) == [type |-> "match", line_a |-> i, line_b |-> j]
Delete(i) == [type |-> "delete", line_a |-> i, line_b |-> -1]
AddLine(j) == [type |-> "add", line_a |-> -1, line_b |-> j]

\* Mutant: deletions that forget where their part of the file begins.
DeletionsFromStart(i, n) == [k \in 1 .. n |-> Delete(k - 1)]

\* n deletions from line i on, m additions from line j on.
Deletions(i, n) == [k \in 1 .. n |-> Delete(i + k - 1)]
Additions(j, m) == [k \in 1 .. m |-> AddLine(j + k - 1)]

ssb_diff_myers(a, b) ==
  IF a = b THEN [k \in 1 .. Len(a) |-> Match(k - 1, k - 1)]
  ELSE Deletions(0, Len(a)) \o Additions(0, Len(b))

\* A region r is r.n lines of a from line r.i on and r.m lines of b from
\* line r.j on.
Region(i, n, j, m) == [i |-> i, n |-> n, j |-> j, m |-> m]
Regions(a, b) ==
  {r \in [i : 0 .. Len(a), n : 0 .. Len(a), j : 0 .. Len(b), m : 0 .. Len(b)] :
     r.i + r.n <= Len(a) /\ r.j + r.m <= Len(b)}
LinesA(r) == r.i .. r.i + r.n - 1
LinesB(r) == r.j .. r.j + r.m - 1

SharedLines(a, b, r) == {x \in LinesA(r) : \E y \in LinesB(r) : b[y + 1] = a[x + 1]}

\* How often the hash h occurs in a region.
Frequency(a, b, r, h) ==
  Cardinality({x \in LinesA(r) : a[x + 1] = h}) + Cardinality({y \in LinesB(r) : b[y + 1] = h})

\* The first shared line of a of least frequency, and its first occurrence
\* in b.
BestA(a, b, r) ==
  CHOOSE x \in SharedLines(a, b, r) : \A z \in SharedLines(a, b, r) :
    LET f == Frequency(a, b, r, a[x + 1])
        g == Frequency(a, b, r, a[z + 1])
    IN  f < g \/ (f = g /\ x <= z)
FirstB(b, r, h) ==
  CHOOSE y \in LinesB(r) : b[y + 1] = h /\ \A z \in LinesB(r) : b[z + 1] = h => y <= z

\* The edits of a region, when diff gives those of the regions in it.
ssb_diff_recursive(a, b, diff, r) ==
  IF SharedLines(a, b, r) = {} THEN Deletions(r.i, r.n) \o Additions(r.j, r.m)
  ELSE LET x == BestA(a, b, r)
           y == FirstB(b, r, a[x + 1])
       IN  diff[Region(r.i, x - r.i, r.j, y - r.j)]
           \o <<Match(x, y)>>
           \o diff[Region(x + 1, r.i + r.n - x - 1, y + 1, r.j + r.m - y - 1)]

ssb_diff_histogram(a, b) ==
  LET diff[r \in Regions(a, b)] == ssb_diff_recursive(a, b, diff, r)
  IN  diff[Region(0, Len(a), 0, Len(b))]

ssb_diff(hashes_a, hashes_b, algo) ==
  IF algo = HISTOGRAM THEN ssb_diff_histogram(hashes_a, hashes_b)
  ELSE ssb_diff_myers(hashes_a, hashes_b)
====
