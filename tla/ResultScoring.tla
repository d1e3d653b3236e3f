---------------------------- MODULE ResultScoring ----------------------------
(***************************************************************************)
(* The three result scorers: evals/scorers.py (week 1),                    *)
(* evals/week2_scorers.py and evals/week3/scorers.py.                      *)
(*                                                                         *)
(* A cell is a type and a value; the values of the numeric types "bool",   *)
(* "int" and "dec" and of the numeral texts "text" are in hundredths.      *)
(* "word" is any other text, "flag" the texts "true" and "false", "huge" a *)
(* numeral that raises when it is subtracted.  A result has column names   *)
(* and rows; a case names its key and numeric columns.                     *)
(***************************************************************************)
EXTENDS Integers, Sequences, FiniteSets

Cell(t, v) == [t |-> t, v |-> v]

CellTypes == {"bool", "int", "dec", "text", "word", "flag", "null", "huge"}

\* QueryResult: its names are distinct and its rows have their width.
IsResult(r) ==
    /\ r.columns \in Seq(STRING)
    /\ \A i, j \in DOMAIN r.columns : r.columns[i] = r.columns[j] => i = j
    /\ r.rows \in Seq(Seq([t : CellTypes, v : Int]))
    /\ \A i \in DOMAIN r.rows : Len(r.rows[i]) = Len(r.columns)

(***************************************************************************)
(* Cells                                                                   *)
(***************************************************************************)
Magnitude(n) == IF n < 0 THEN -n ELSE n

IsDecimal(c) == c.t \in {"int", "dec", "text"}

\* Within 0.01, or within a millionth of the expected value.
NumericEqual(e, a) ==
    /\ IsDecimal(e) /\ IsDecimal(a)
    /\ LET difference == Magnitude(e.v - a.v)
       IN  difference <= 1 \/ difference <= Magnitude(e.v) \div 1000000

\* Python's ==: True is 1 is Decimal("1"), and a text equals only a text.
Plain(c) == IF c.t \in {"bool", "int", "dec"} THEN Cell("number", c.v) ELSE c

\* The truth value a cell stands for, if it stands for one.
Truths(c) == IF c.t = "bool" \/ c.t = "flag" \/ (c.t = "int" /\ c.v \in {0, 100})
             THEN {c.v # 0} ELSE {}

(***************************************************************************)
(* Rows                                                                    *)
(***************************************************************************)
Indexes(names, columns) == {i \in DOMAIN columns : columns[i] \in names}

RowMatches(e, a, numeric) ==
    \A i \in DOMAIN e : IF i \in numeric THEN NumericEqual(e[i], a[i])
                                         ELSE Plain(e[i]) = Plain(a[i])

RowKey(row, keys) == [i \in keys |-> Plain(row[i])]
HasNull(key) == \E i \in DOMAIN key : key[i].t = "null"
KeysOf(rows, keys) == {RowKey(rows[i], keys) : i \in DOMAIN rows}
KeysStable(rows, keys) ==
    /\ \A k \in KeysOf(rows, keys) : ~HasNull(k)
    /\ Cardinality(KeysOf(rows, keys)) = Len(rows)

\* Row by row, in order.
RowsMatchInOrder(e, a, numeric) ==
    /\ Len(e) = Len(a)
    /\ \A i \in DOMAIN e : RowMatches(e[i], a[i], numeric)

\* The row a dictionary built from the rows keeps for a key: the last one.
RowAt(rows, keys, key) ==
    LET at == {i \in DOMAIN rows : RowKey(rows[i], keys) = key}
    IN  rows[CHOOSE i \in at : \A j \in at : j <= i]

RowsMatchByKey(e, a, keys, numeric) ==
    /\ KeysOf(e, keys) = KeysOf(a, keys)
    /\ \A k \in KeysOf(e, keys) : RowMatches(RowAt(e, keys, k), RowAt(a, keys, k), numeric)

(***************************************************************************)
(* Week 1                                                                  *)
(***************************************************************************)
\* A broken table score that never looks for repeated keys.
KeyedTableUncounted(e, a, keys, numeric) ==
    IF keys # {} THEN RowsMatchByKey(e, a, keys, numeric) ELSE RowsMatchInOrder(e, a, numeric)

\* With keys the order of the rows does not count, and no key may be null or
\* repeated.
ScoreKeyedTable(e, a, keys, numeric) ==
    \/ e = <<>> /\ a = <<>>
    \/ /\ keys # {}
       /\ KeysStable(e, keys) /\ KeysStable(a, keys)
       /\ RowsMatchByKey(e, a, keys, numeric)
    \/ keys = {} /\ RowsMatchInOrder(e, a, numeric)

\* The share of the expected keys found: "one", "part" or "zero".
ScoreTopK(e, a, keys) ==
    LET found == KeysOf(e, keys) \cap KeysOf(a, keys)
    IN  IF e = <<>> \/ ~KeysStable(e, keys) \/ (\E k \in KeysOf(a, keys) : HasNull(k)) \/ found = {}
        THEN "zero" ELSE IF found = KeysOf(e, keys) THEN "one" ELSE "part"

OneCell(r) == Len(r.columns) = 1 /\ Len(r.rows) = 1

\* score_scalar, or the comparison of truth values.
ScoreCell(comparison, e, a) ==
    /\ OneCell(e) /\ Len(a.rows) = 1
    /\ IF comparison = "scalar" THEN NumericEqual(e.rows[1][1], a.rows[1][1])
       ELSE Truths(e.rows[1][1]) \cap Truths(a.rows[1][1]) # {}

Whole(b) == IF b THEN "one" ELSE "zero"

ScoreResult(case, e, a) ==
    LET keys == Indexes(case.keys, e.columns)
        numeric == Indexes(case.numeric, e.columns)
    IN  IF a.columns # e.columns THEN "zero"
        ELSE IF case.comparison = "top_k" THEN ScoreTopK(e.rows, a.rows, keys)
        ELSE Whole(IF case.comparison = "table" THEN ScoreKeyedTable(e.rows, a.rows, keys, numeric)
                   ELSE ScoreCell(case.comparison, e, a))

(***************************************************************************)
(* Week 2                                                                  *)
(***************************************************************************)
\* The complete ranking, in its order and with its values.
ScoreOrderedTopK(e, a, keys, numeric) ==
    /\ Len(e) = Len(a)
    /\ \A i \in DOMAIN e : /\ RowKey(e[i], keys) = RowKey(a[i], keys)
                           /\ RowMatches(e[i], a[i], numeric)

\* By position; the names are the output contract's matter.
ScoreByPosition(case, e, a) ==
    LET keys == Indexes(case.keys, e.columns)
        numeric == Indexes(case.numeric, e.columns)
    IN  /\ Len(a.columns) = Len(e.columns)
        /\ CASE case.comparison = "table" -> ScoreKeyedTable(e.rows, a.rows, keys, numeric)
             [] case.comparison = "top_k" -> ScoreOrderedTopK(e.rows, a.rows, keys, numeric)
             [] OTHER -> ScoreCell(case.comparison, e, a)

ScoreResultAndContract(case, e, a) ==
    [result |-> Whole(ScoreByPosition(case, e, a)), conformant |-> a.columns = e.columns]

(***************************************************************************)
(* Weeks 1 and 2: an ArithmeticError that leaves the scorer                *)
(*                                                                         *)
(* Subtracting a huge numeral raises.  Cells and rows are compared in      *)
(* order, so it does only where everything before it matches.              *)
(***************************************************************************)
CellRaises(e, a) == IsDecimal(e) /\ a.t = "huge"

RowRaises(e, a, numeric) ==
    \E i \in DOMAIN e \cap numeric : /\ CellRaises(e[i], a[i])
                                    /\ RowMatches(SubSeq(e, 1, i - 1), a, numeric)

RowsRaise(e, a, keys, numeric) ==
    /\ Len(e) = Len(a)
    /\ \E n \in DOMAIN e :
         /\ RowRaises(e[n], a[n], numeric)
         /\ \A i \in 1..n : RowKey(e[i], keys) = RowKey(a[i], keys)
         /\ \A i \in 1..(n - 1) : RowMatches(e[i], a[i], numeric)

\* Rows with keys are compared in the order of the expected ones.
KeyedTableRaises(e, a, keys, numeric) ==
    /\ KeysStable(e, keys) /\ KeysStable(a, keys)
    /\ KeysOf(e, keys) = KeysOf(a, keys)
    /\ RowsRaise(e, [i \in DOMAIN e |-> RowAt(a, keys, RowKey(e[i], keys))], keys, numeric)

\* Week 1 looks at the names first and never at the values of a ranking.
ScoringRaises(week, case, e, a) ==
    LET keys == Indexes(case.keys, e.columns)
        numeric == Indexes(case.numeric, e.columns)
    IN  /\ IF week = 1 THEN a.columns = e.columns ELSE Len(a.columns) = Len(e.columns)
        /\ CASE case.comparison = "scalar" ->
                   OneCell(e) /\ Len(a.rows) = 1 /\ CellRaises(e.rows[1][1], a.rows[1][1])
             [] case.comparison = "table" /\ keys # {} ->
                   KeyedTableRaises(e.rows, a.rows, keys, numeric)
             [] case.comparison = "table" \/ (case.comparison = "top_k" /\ week = 2) ->
                   RowsRaise(e.rows, a.rows, keys, numeric)
             [] OTHER -> FALSE

(***************************************************************************)
(* Week 3                                                                  *)
(***************************************************************************)
\* Keys may be null, and are counted as they are.
ScoreCandidateRows(case, e, a) ==
    LET keys == Indexes(case.keys, e.columns)
        numeric == Indexes(case.numeric, e.columns)
        Distinct(rows) == Cardinality(KeysOf(rows, keys)) = Len(rows)
    IN  /\ Len(a.columns) = Len(e.columns)
        /\ IF case.comparison \in {"scalar", "boolean"} THEN ScoreCell(case.comparison, e, a)
           ELSE /\ Len(e.rows) = Len(a.rows)
                /\ IF case.comparison = "table" /\ keys # {}
                   THEN /\ Distinct(e.rows) /\ Distinct(a.rows)
                        /\ RowsMatchByKey(e.rows, a.rows, keys, numeric)
                   ELSE RowsMatchInOrder(e.rows, a.rows, numeric)
=============================================================================
