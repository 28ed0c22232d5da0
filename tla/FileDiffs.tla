---- MODULE FileDiffs ----
(***************************************************************************)
(* Calls of ssb_diff with the lines of two files.                          *)
(***************************************************************************)
EXTENDS Calls, DiffCore

CONSTANTS
  Lines,            \* what a line may be
  Files,            \* sequences of lines
  Algorithms,
  HashLine(_)       \* ssb_diff_hash_line

ASSUME FilesAssumption == Files \subseteq Seq(Lines)

Hashes(file) == [i \in DOMAIN file |-> HashLine(file[i])]

CallDiff == \E a, b \in Files, algo \in Algorithms : Call("ssb_diff", <<a, b, algo>>)
ReturnDiff ==
  /\ Called("ssb_diff")
  /\ Returns(ssb_diff(Hashes(call.args[1]), Hashes(call.args[2]), call.args[3]))
----
\* On one side the edits have n lines from line i on: each once, in order.
ListsLines(edits, side, i, n) ==
  /\ \A x \in i .. i + n - 1 : \E k \in DOMAIN edits : edits[k][side] = x
  /\ \A k \in DOMAIN edits : edits[k][side] \in {-1} \union (i .. i + n - 1)
  /\ \A k, l \in DOMAIN edits :
       k < l /\ -1 \notin {edits[k][side], edits[l][side]} => edits[k][side] < edits[l][side]

\* Two lines are matched only with the same hash; what is deleted has no line
\* in b and what is added none in a.
IsTruthful(edits, a, b) ==
  \A k \in DOMAIN edits :
    LET x == edits[k].line_a
        y == edits[k].line_b
    IN  \/ edits[k].type = "match" /\ x # -1 /\ y # -1 /\ a[x + 1] = b[y + 1]
        \/ edits[k].type = "delete" /\ x # -1 /\ y = -1
        \/ edits[k].type = "add" /\ x = -1 /\ y # -1

IsMatch(edits) == \A k \in DOMAIN edits : edits[k].type = "match"

\* A diff lists every line of either file once and in order, so that
\* deleting and adding what it says turns the first file into the second,
\* and matches two lines only when they are the same or their hashes
\* collide; two files with the same hashes match in every line.
LinesAccounted ==
  Returned("ssb_diff") =>
    LET a == Hashes(call.args[1])
        b == Hashes(call.args[2])
        edits == call.result
    IN  /\ ListsLines(edits, "line_a", 0, Len(a))
        /\ ListsLines(edits, "line_b", 0, Len(b))
        /\ IsTruthful(edits, a, b)
        /\ a = b => IsMatch(edits)
====
