---------------------------- MODULE QualityRules ----------------------------
(***************************************************************************)
(* The rules of conf/quality.yaml: which items the loader accepts, which   *)
(* of them the workspace validation allows for the columns of a contract,  *)
(* and what the check of a rule answers for the rows of a table.  A value  *)
(* of a cell is a number, also for a text column (whose values no numeric  *)
(* rule can read); a row maps every column to a value or to Null.          *)
(***************************************************************************)
EXTENDS Naturals, Sequences, FiniteSets

CONSTANTS Published,     \* the columns the contract publishes
          Numeric,       \* those with a numeric cast type
          Values,        \* the values a cell may hold
          Null,          \* a missing value
          CurrentYear,   \* "current_year" as a bound of a rule
          Year,          \* the year the build's as_of date gives it
          Rules          \* what the file says: a column, an item, a condition

ASSUME ColumnsAssumption == Numeric \subseteq Published
ASSUME ValuesAssumption == Values \subseteq Nat /\ Year \in Nat
ASSUME MarksAssumption == Null \notin Nat \cup Published /\ CurrentYear \notin Nat
ASSUME RulesAssumption ==
    \A entry \in Rules : /\ {entry.item.value.low, entry.item.value.high}
                               \subseteq Nat \cup {CurrentYear}
                         /\ entry.item.value.set \subseteq Nat

Flags == {"not_null", "is_null", "unique"}
NumericRules == {"min", "max", "between"}
ListRules == {"allowed", "forbidden"}
Severities == {"blocking", "warning", "info"}

-----------------------------------------------------------------------------
(* The loader.  An item of the file is a bare name or a mapping of options *)
(* with a severity, whose value is true, a bound, a pair, a list or the    *)
(* set of the texts a regular expression matches.                          *)

Takes(rule, value) ==
    \/ rule \in Flags /\ value.kind = "true"
    \/ rule \in {"min", "max"} /\ value.kind = "bound"
    \/ /\ rule = "between" /\ value.kind = "pair"
       /\ {value.low, value.high} \subseteq Nat => value.low <= value.high
    \/ rule = "pattern" /\ value.kind = "pattern"
    \/ rule \in ListRules /\ value.kind = "list" /\ value.set # {}

(* Exactly one rule per item; a bare name is a flag that blocks.           *)
Accepts(item) ==
    \E rule \in item.rules :
        /\ item.rules = {rule}
        /\ IF item.bare THEN rule \in Flags
           ELSE item.severity \in Severities /\ Takes(rule, item.value)

ParseRule(item) ==
    [rule |-> CHOOSE rule \in item.rules : TRUE,
     value |-> item.value,
     severity |-> IF item.bare THEN "blocking" ELSE item.severity]

(* The rules of one table: the columns its rows are unique by, what holds  *)
(* of columns in all its rows, and what holds in those of a when block.    *)
Entries(config) == config.columns \o config.when

Loads(config) ==
    /\ \A i \in DOMAIN Entries(config) : Accepts(Entries(config)[i].item)
    /\ \A i \in DOMAIN config.when : DOMAIN config.when[i].rows # {}

Named(config) ==
    config.unique \cup UNION {{Entries(config)[i].column} \cup DOMAIN Entries(config)[i].rows :
                                i \in DOMAIN Entries(config)}

Valid(config) ==
    /\ Named(config) \subseteq Published
    /\ \A i \in DOMAIN Entries(config) :
          ParseRule(Entries(config)[i].item).rule \in NumericRules
              => Entries(config)[i].column \in Numeric

-----------------------------------------------------------------------------
(* The checks.                                                             *)

Bound(b) == IF b = CurrentYear THEN Year ELSE b

(* Positions of the rows a rule concerns: all, or those of its condition.  *)
MatchingRows(rows, entry) ==
    {i \in DOMAIN rows : \A c \in DOMAIN entry.rows : rows[i][c] = entry.rows[c]}

(* Positions, among the rows at some places, of those that break a rule on *)
(* a column.  Missing values break only not_null, and repeat each other.   *)

(* Fault: a missing value counts as zero. *)
BreakingZero(rows, places, column, rule, value) ==
    {i \in places :
        LET v == rows[i][column]
            n == IF v = Null THEN 0 ELSE v
        IN  CASE rule = "not_null" -> v = Null
              [] rule = "is_null" -> v # Null
              [] rule = "unique" -> \E j \in places \ {i} : rows[j][column] = v
              [] rule = "min" -> n < Bound(value.low)
              [] rule = "max" -> n > Bound(value.low)
              [] rule = "between" -> n < Bound(value.low) \/ n > Bound(value.high)
              [] rule = "allowed" -> v \notin value.set
              [] rule = "pattern" -> v # Null /\ v \notin value.set
              [] rule = "forbidden" -> v \in value.set}

Breaking(rows, places, column, rule, value) ==
    {i \in places :
        LET v == rows[i][column]
        IN  CASE rule = "not_null" -> v = Null
              [] rule = "is_null" -> v # Null
              [] rule = "unique" -> \E j \in places \ {i} : rows[j][column] = v
              [] rule = "min" -> v # Null /\ v < Bound(value.low)
              [] rule = "max" -> v # Null /\ v > Bound(value.low)
              [] rule = "between" -> v # Null /\ (v < Bound(value.low) \/ v > Bound(value.high))
              [] rule = "allowed" -> v # Null /\ v \notin value.set
              [] rule = "pattern" -> v # Null /\ v \notin value.set
              [] rule = "forbidden" -> v \in value.set}

(* A value that is no number cannot become a decimal: the check raises.    *)
Raises(rows, places, column, rule) ==
    /\ rule \in NumericRules /\ column \notin Numeric
    /\ \E i \in places : rows[i][column] # Null

RuleStatus(rows, places, column, rule, value) ==
    IF Raises(rows, places, column, rule) THEN "error"
    ELSE IF places = {} /\ rule # "unique" THEN "skipped"
    ELSE IF Breaking(rows, places, column, rule, value) = {} THEN "passed"
    ELSE "failed"

Unrepeated(rows, columns) ==
    \A i, j \in DOMAIN rows : i # j => \E c \in columns : rows[i][c] # rows[j][c]

CheckKey(entry) ==
    [name |-> ParseRule(entry.item).rule, column |-> entry.column, rows |-> entry.rows]

(* One entry as a check of a table: its id, severity, value and answer.    *)
ColumnCheck(rows, entry) ==
    LET parsed == ParseRule(entry.item)
    IN  [key |-> CheckKey(entry),
         severity |-> parsed.severity,
         value |-> parsed.value,
         status |-> RuleStatus(rows, MatchingRows(rows, entry), entry.column, parsed.rule,
                               parsed.value)]

-----------------------------------------------------------------------------
(* What the rules promise, read off their descriptions: the values a cell  *)
(* may hold under a rule, and the tables that keep a rule.                 *)
Permitted(rule, value) ==
    CASE rule = "not_null" -> Values
      [] rule = "is_null" -> {Null}
      [] rule = "min" -> {Null} \cup {v \in Values : v >= Bound(value.low)}
      [] rule = "max" -> {Null} \cup {v \in Values : v <= Bound(value.low)}
      [] rule = "between" -> {Null} \cup (Values \cap (Bound(value.low) .. Bound(value.high)))
      [] rule = "allowed" -> {Null} \cup (Values \cap value.set)
      [] rule = "pattern" -> {Null} \cup (Values \cap value.set)
      [] rule = "forbidden" -> {Null} \cup (Values \ value.set)

Keeps(rows, entry) ==
    LET rule == ParseRule(entry.item).rule
        Concerned == MatchingRows(rows, entry)
        Cells == {rows[i][entry.column] : i \in Concerned}
    IN  IF rule = "unique" THEN Cardinality(Cells) = Cardinality(Concerned)
        ELSE Cells \subseteq Permitted(rule, entry.item.value)
=============================================================================
