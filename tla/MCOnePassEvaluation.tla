-------------------------- MODULE MCOnePassEvaluation --------------------------
(* Live and fixture runs over short suites, and answers of every shape for   *)
(* each kind of comparison.                                                  *)
EXTENDS OnePassEvaluation

Word(v) == Cell("word", v)
Dec(v) == Cell("dec", v)
Result(columns, rows) == [columns |-> columns, rows |-> rows]

MCCase(suite, comparison, keys, numeric, truth, results) ==
    [suite |-> suite, comparison |-> comparison, keys |-> keys, numeric |-> numeric,
     truth |-> truth, results |-> results, rule |-> None]

MCSafety == [suite |-> "safety", comparison |-> None, keys |-> {}, numeric |-> {},
             rule |-> "forbidden_relation"]

\* Scalars: exact, within the tolerance, beyond it, a numeral, a word, none.
ScalarTruth == Result(<<"v">>, <<<<Dec(3000000)>>>>)
ScalarResults ==
    {Result(<<n>>, <<<<c>>>>) : n \in {"v", "alias"},
        c \in {Dec(3000000), Dec(3000003), Dec(3000004), Cell("text", 3000000), Word(1),
               Cell("null", 0), Cell("bool", 100), Cell("huge", 0)}}
      \cup {Result(<<"v">>, <<>>), Result(<<"v", "w">>, <<<<Dec(3000000), Dec(0)>>>>)}
Scalar(suite, results) == MCCase(suite, "scalar", {}, {"v"}, ScalarTruth, results)

FlagTruth == Result(<<"b">>, <<<<Cell("bool", 100)>>>>)
FlagResults ==
    {Result(<<n>>, <<<<c>>>>) : n \in {"b", "alias"},
        c \in {Cell("bool", 100), Cell("bool", 0), Cell("flag", 1), Cell("int", 100),
               Cell("int", 200), Cell("dec", 100), Cell("null", 0)}}
Flag == MCCase("boundary", "boolean", {}, {}, FlagTruth, FlagResults)

\* Tables of two columns and up to two rows, or three with a repeated key.
TableRows == {<<k, v>> : k \in {Word(1), Word(2), Cell("null", 0)}, v \in {Dec(0), Dec(1), Dec(2)}}
TableTruth == Result(<<"k", "v">>, <<<<Word(1), Dec(0)>>, <<Word(2), Dec(2)>>>>)
\* A huge numeral in the first or in the last row, which may be missed, come
\* after a mismatch, or be found under its key.
HugeRows ==
    LET huge == Cell("huge", 0)
    IN  {<<<<Word(1), huge>>, <<Word(2), Dec(2)>>>>, <<<<Word(1), Dec(0)>>, <<Word(2), huge>>>>,
         <<<<Word(1), Dec(2)>>, <<Word(2), huge>>>>, <<<<Word(2), huge>>, <<Word(1), Dec(0)>>>>,
         <<<<Word(1), huge>>>>}
TableResults ==
    {Result(<<"k", "v">>, rows) : rows \in {<<>>} \cup (TableRows \X TableRows)}
      \cup {Result(<<"k", "v">>, <<r>> \o TableTruth.rows) : r \in TableRows}
      \cup {Result(<<"k", "v">>, rows) : rows \in HugeRows}
      \cup {Result(<<"k", "alias">>, TableTruth.rows), Result(<<"k">>, <<<<Word(1)>>, <<Word(2)>>>>)}
Table(comparison, keys) == MCCase("core-v2", comparison, keys, {"v"}, TableTruth, TableResults)

Plainly == {ScalarTruth, Result(<<"v">>, <<<<Word(1)>>>>)}
Answered(suite) == Scalar(suite, Plainly)

Record1 == [input |-> 1, output |-> 2, bound |-> 2, date |-> 1]
Dearer == [Record1 EXCEPT !.input = 2]
Later == [Record1 EXCEPT !.date = 2]

Run(mode1, mode2, cases2, price2, data2) ==
    [mode |-> <<mode1, mode2>>, cases |-> <<<<Answered("golden")>>, cases2>>,
     price |-> <<Record1, price2>>, data |-> <<1, data2>>]

MCProgrammes ==
    {Run("live", "live", <<Answered("core-v2"), Answered("paraphrase")>>, Record1, 1),
     Run("fixture", "live", <<Answered("core-v2"), MCSafety>>, Record1, 1),
     Run("live", "fixture", <<Answered("core-v2"), MCSafety>>, Record1, 1),
     Run("fixture", "fixture", <<MCSafety>>, Record1, 1)}
      \cup {Run("live", "live", <<Answered("core-v2")>>, price, data) :
               price \in {Record1, Dearer, Later}, data \in {1, 2}}
      \cup {Run("fixture", "fixture", <<c>>, Record1, 1) :
               c \in {Scalar("core-v2", ScalarResults), Flag, Table("table", {"k"}),
                      Table("table", {}), Table("top_k", {"k"})}}
=============================================================================
