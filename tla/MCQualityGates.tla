--------------------------- MODULE MCQualityGates ---------------------------
(* Every kind of rule on a numeric and on a text column, with and without  *)
(* a condition, over all tables of at most two rows.                       *)
EXTENDS QualityGates

MCPublished == {"count", "name"}
MCNumeric == {"count"}
MCValues == {0, 1, 2}

True == [kind |-> "true", low |-> 0, high |-> 0, set |-> {}]
MCBound(b) == [True EXCEPT !.kind = "bound", !.low = b]
MCPair(low, high) == [True EXCEPT !.kind = "pair", !.low = low, !.high = high]
MCList(values) == [True EXCEPT !.kind = "list", !.set = values]
MCPattern(values) == [True EXCEPT !.kind = "pattern", !.set = values]

Name(rule) == [bare |-> TRUE, rules |-> {rule}, value |-> True, severity |-> "blocking"]
Option(rule, value, severity) ==
    [bare |-> FALSE, rules |-> {rule}, value |-> value, severity |-> severity]

MCItems ==
    {Name(rule) : rule \in {"not_null", "is_null", "unique", "min"}}
    \cup {Option(rule, True, "blocking") : rule \in {"not_null", "min", "odd"}}
    \cup {Option("not_null", True, severity) : severity \in {"info", "fatal"}}
    \cup {Option("min", MCBound(b), "blocking") : b \in {1, CurrentYear}}
    \cup {Option("min", MCBound(1), "warning"), Option("max", MCBound(1), "blocking")}
    \cup {Option("between", pair, "blocking") :
             pair \in {MCPair(0, 1), MCPair(1, 0), MCPair(2, CurrentYear)}}
    \cup {Option(rule, MCList(set), "blocking") :
             rule \in {"allowed", "forbidden"}, set \in {{}, {0, 1}}}
    \cup {Option("pattern", MCPattern({0}), "blocking"),
          [Option("min", MCBound(1), "blocking") EXCEPT !.rules = {"min", "max"}]}

Plain(column, item) == [column |-> column, rows |-> Always, item |-> item]
When(column, rows, item) == [column |-> column, rows |-> rows, item |-> item]
NameIs(v) == [c \in {"name"} |-> v]
Config(columns, when) == [unique |-> {}, columns |-> columns, when |-> when]

AtLeast(b) == Option("min", MCBound(b), "blocking")
Warns(b) == Option("min", MCBound(b), "warning")

MCConfigs ==
    {Config(<<Plain(column, item)>>, <<>>) : column \in MCPublished, item \in MCItems}
    \cup {Config(<<>>, <<When("count", NameIs(0), item)>>) : item \in MCItems}
    \cup {Config(<<>>, <<When("count", Always, Name("not_null"))>>),
          Config(<<Plain("other", Name("not_null"))>>, <<>>),
          Config(<<>>, <<When("count", [c \in {"other"} |-> 0], Name("not_null"))>>),
          Config(<<Plain("count", Warns(2)), Plain("count", AtLeast(1))>>, <<>>),
          Config(<<Plain("name", Name("not_null"))>>, <<When("count", NameIs(0), AtLeast(1))>>)}
    \cup {[unique |-> columns, columns |-> <<>>, when |-> <<>>] :
             columns \in {{"name"}, {"count", "name"}, {"other"}}}

MCRules == UNION {{entries[i] : i \in DOMAIN entries} :
                    entries \in {Entries(config) : config \in MCConfigs}}

MCRow == [MCPublished -> MCValues \cup {Null}]
MCTables == {<<>>} \cup {<<row>> : row \in MCRow}
            \cup {<<x, y>> : x \in MCRow, y \in {row \in MCRow : row["name"] \in {0, Null}}}

MCInputs ==
    [columns : {{"count", "name", "raw"}}, rows : {<<1>>}]
    \cup [columns : {{"count"}}, rows : {<<1>>}] \cup [columns : {MCPublished}, rows : {<<>>}]

MCSaved == {<<1>>, <<1, 0>>}

(* A workbook or an archive that is not there is not sound either.         *)
MCFiles ==
    {file \in [suffix : {"csv", "zip", "xlsx"}, size : {0, 1}, digest : BOOLEAN,
               sound : BOOLEAN, members : {0, 1}, sheet : {"none", "found", "missing"}] :
        file.size = 0 => ~file.sound /\ file.members = 0}
MCOutputs == [files : {<<>>, <<1>>, <<1, 0>>}, required : BOOLEAN,
              extraction : {"none", "done", "failed"}]
=============================================================================
