------------------------------ MODULE RecordFlow ------------------------------
(***************************************************************************)
(* One record on its way through a topic pipeline: the parser (parsers/),  *)
(* the quality rules in their order (quality/rules.py), the DLQ split, the *)
(* mapping (transform/mapping.py) and the choice of table                  *)
(* (pipeline/builder.py, start_topic).  Conditions are SQL conditions:     *)
(* true, false or null.                                                    *)
(*                                                                         *)
(* A record is abstracted to what the parsers and rules tell apart: is the *)
(* payload there, has it the shape the parser expects, and where does the  *)
(* one column the rules look at lie.  Spark runs without ANSI mode, as on  *)
(* the runtime databricks.yml names: a failed cast is null, size(null) -1. *)
(***************************************************************************)
EXTENDS Integers, Sequences

CONSTANTS
    Parsers,    \* parsers in use; "avro_failfast" is avro with mode FAILFAST
    MaxRules    \* bound: length of a topic's rule list

ASSUME FlowAssumption ==
    /\ Parsers \subseteq {"json", "csv", "xml", "avro", "avro_failfast", "delimited",
                          "fixed_width", "account", "text", "binary"}
    /\ MaxRules \in Nat

\* What Kafka delivers: no value at all (a tombstone), a blank one, one that has
\* not the parser's shape (no document, too short, another number of fields),
\* one whose column does not cast, or one whose column is low, mid or high.
Decodable == {"low", "mid", "high"}
Payloads == {"absent", "blank", "garbled", "miscast"} \cup Decodable
Null == "null"

Healthy == 0
ParseError == -1

RuleTypes == {"not_null", "regex", "range", "allowed_values", "expression"}
Actions == {"dlq", "fail", "drop", "warn"}
Rules == [type : RuleTypes, action : Actions]

\* SQL truth values
Logic == {"T", "F", "N"}
Not3(a) == CASE a = "T" -> "F" [] a = "F" -> "T" [] OTHER -> "N"
And3(a, b) == CASE "F" \in {a, b} -> "F" [] {a, b} = {"T"} -> "T" [] OTHER -> "N"
Or3(a, b) == CASE "T" \in {a, b} -> "T" [] {a, b} = {"F"} -> "F" [] OTHER -> "N"
Bool3(b) == IF b THEN "T" ELSE "F"
\* A comparison with a column: null if the column is.
Compare3(column, holds) == IF column = Null THEN "N" ELSE Bool3(column \in holds)

VARIABLES
    parser, rules, dlqEnabled, \* the topic's and the application's spec
    payload,   \* the record
    expr,      \* value of the expression rules' expression on this record
    column,    \* the business column
    error,     \* _dfx_error: Healthy, ParseError or the index of a rule
    next,      \* index of the next rule
    warned,    \* _dfx_quality_warnings: indexes of rules
    target,    \* the column as the main table gets it
    place      \* "flow", "valid", then "main", "dlq", filtered out: "none",
               \* or "failed": the stream has failed on the record

spec == <<parser, rules, dlqEnabled, payload, expr>>
vars == <<spec, column, error, next, warned, target, place>>

-----------------------------------------------------------------------------
(* Parsing: what a parser makes of a payload, the column and the error *)

\* Keeps an error that is there already.
FlagErrorWhen(err, condition) ==
    IF err = Healthy /\ condition = "T" THEN ParseError ELSE err

\* What casting yields for the column.
Fields(p) == IF p \in Decodable THEN p ELSE Null

\* from_json, from_csv and from_xml in PERMISSIVE mode give no struct without a
\* value and a struct of nulls for a malformed one.  Of a blank one from_json
\* makes no struct, the other two either.
NoStruct == "no struct"
FromJson(p) == {IF p \in {"absent", "blank"} THEN NoStruct ELSE Fields(p)}
FromText(p) == IF p = "blank" THEN {NoStruct, Null} ELSE FromJson(p)

\* from_avro: an empty payload is malformed, too; in mode FAILFAST a malformed
\* one raises, which the empty set stands for.
FromAvro(p, mode) ==
    CASE p = "absent" -> {NoStruct}
      [] mode = "FAILFAST" /\ p \notin Decodable \cup {"absent"} -> {}
      [] OTHER -> {Fields(p)}

\* How these parsers end: a value without a struct is flagged.
SelectParsed(struct, p) ==
    [column |-> IF struct = NoStruct THEN Null ELSE struct,
     error |-> FlagErrorWhen(Healthy, Bool3(struct = NoStruct /\ p # "absent"))]

JsonParser(p) == {SelectParsed(struct, p) : struct \in FromJson(p)}
CsvParser(p) == {SelectParsed(struct, p) : struct \in FromText(p)}
XmlParser(p) == {SelectParsed(struct, p) : struct \in FromText(p)}
AvroParser(p, mode) == {SelectParsed(struct, p) : struct \in FromAvro(p, mode)}

\* size(split(value)) # number of fields: a missing value has -1 of them, a
\* blank one 1, which is the number of a schema with one column; the empty field
\* is null then or, as text, a value.  A flagged record has null columns.
DelimitedParser(p) ==
    LET flagged == [column |-> Null, error |-> FlagErrorWhen(Healthy, "T")]
        split(v) == [column |-> v, error |-> Healthy]
    IN  CASE p \in {"absent", "garbled"} -> {flagged}
          [] p = "blank" -> {flagged, split(Null), split("high")}
          [] OTHER -> {split(Fields(p))}

\* length(text) < min_length, null without a value
FixedWidthParser(p) ==
    LET flagged == FlagErrorWhen(Healthy, IF p = "absent" THEN "N"
                                          ELSE Bool3(p \in {"blank", "garbled"}))
    IN  {[column |-> IF flagged = Healthy THEN Fields(p) ELSE Null,
          error |-> flagged]}

\* Fixed width, with the status code as the column: text, so it always casts;
\* high stands for the codes that are not listed.
AccountParser(p) ==
    {[decoded EXCEPT !.error =
         FlagErrorWhen(@, And3(Bool3(@ = Healthy),
                               Not3(Compare3(decoded.column, {"low", "mid"}))))] :
        decoded \in FixedWidthParser(IF p = "miscast" THEN "high" ELSE p)}

\* Any payload is a value: high stands for the ones with no shape.
TextParser(p) ==
    {[column |-> CASE p = "absent" -> Null
                   [] p \in Decodable -> p
                   [] OTHER -> "high",
      error |-> Healthy]}
BinaryParser(p) == TextParser(p)

Parsed ==
    CASE parser = "json"          -> JsonParser(payload)
      [] parser = "csv"           -> CsvParser(payload)
      [] parser = "xml"           -> XmlParser(payload)
      [] parser = "avro"          -> AvroParser(payload, "PERMISSIVE")
      [] parser = "avro_failfast" -> AvroParser(payload, "FAILFAST")
      [] parser = "delimited"     -> DelimitedParser(payload)
      [] parser = "fixed_width"   -> FixedWidthParser(payload)
      [] parser = "account"       -> AccountParser(payload)
      [] parser = "text"          -> TextParser(payload)
      [] parser = "binary"        -> BinaryParser(payload)

-----------------------------------------------------------------------------
(* Quality rules *)

\* Variant: the null guards are missing, and a null comparison counts as a
\* violation.
ViolatedNoGuard(rule) ==
    CASE rule.type = "not_null"       -> Bool3(column = Null)
      [] rule.type = "regex"          -> Bool3(column \notin {"low", "mid"})
      [] rule.type = "range"          -> Bool3(column \in {"low", "high"})
      [] rule.type = "allowed_values" -> Bool3(column # "mid")
      [] rule.type = "expression"     -> Not3(expr)

\* _violation_condition: "T" when the rule is violated.  The pattern matches
\* low and mid, the range and the allowed values are mid only.
Violated(rule) ==
    LET present == Bool3(column # Null)
    IN  CASE rule.type = "not_null"       -> Bool3(column = Null)
          [] rule.type = "regex"          ->
                 And3(present, Not3(Compare3(column, {"low", "mid"})))
          [] rule.type = "range"          ->
                 And3(present, Or3(Compare3(column, {"low"}),
                                   Compare3(column, {"high"})))
          [] rule.type = "allowed_values" ->
                 And3(present, Not3(Compare3(column, {"mid"})))
          [] rule.type = "expression"     -> Not3(expr)

-----------------------------------------------------------------------------
(* Actions *)

Init ==
    /\ parser \in Parsers
    /\ rules \in UNION {[1..n -> Rules] : n \in 0..MaxRules}
    /\ dlqEnabled \in BOOLEAN
    /\ payload \in Payloads
    /\ expr \in IF \E i \in DOMAIN rules : rules[i].type = "expression"
                THEN Logic ELSE {"T"}
    /\ column = Null
    /\ error = Healthy
    /\ next = 0
    /\ warned = {}
    /\ target = Null
    /\ place = "flow"

Parse ==
    /\ next = 0
    /\ \E parsed \in Parsed :
          /\ column' = parsed.column
          /\ error' = parsed.error
    /\ next' = 1
    /\ UNCHANGED <<spec, warned, target, place>>

\* The decoder raises: no output, the batch and with it the stream fails.
ParseRaises ==
    /\ next = 0
    /\ place = "flow"
    /\ Parsed = {}
    /\ place' = "failed"
    /\ UNCHANGED <<spec, column, error, next, warned, target>>

AtRule(actions) ==
    /\ place = "flow"
    /\ next \in 1..Len(rules)
    /\ rules[next].action \in actions
    /\ next' = next + 1

\* Variant: the last violated rule is reported.
FlagLast ==
    /\ AtRule({"dlq", "fail"})
    /\ error' = IF Violated(rules[next]) = "T" THEN next ELSE error
    /\ UNCHANGED <<spec, column, warned, target, place>>

\* dlq and fail: flag the record unless it is flagged already.
FlagRule ==
    /\ AtRule({"dlq", "fail"})
    /\ error' = IF error = Healthy /\ Violated(rules[next]) = "T" THEN next ELSE error
    /\ UNCHANGED <<spec, column, warned, target, place>>

\* Variant: a null condition drops the record.
DropUnlessHolds ==
    /\ AtRule({"drop"})
    /\ place' = IF Not3(Violated(rules[next])) = "T" THEN place ELSE "none"
    /\ UNCHANGED <<spec, column, error, warned, target>>

\* drop: filter(~violated | violated.isNull())
DropRule ==
    /\ AtRule({"drop"})
    /\ LET v == Violated(rules[next])
       IN  place' = IF Or3(Not3(v), Bool3(v = "N")) = "T" THEN place ELSE "none"
    /\ UNCHANGED <<spec, column, error, warned, target>>

\* warn: the message, if violated, joins the array of warnings.
WarnRule ==
    /\ AtRule({"warn"})
    /\ warned' = IF Violated(rules[next]) = "T" THEN warned \cup {next} ELSE warned
    /\ UNCHANGED <<spec, column, error, target, place>>

\* The DLQ query takes the flagged records, the main query the others; without
\* a DLQ the main query takes all.
Route ==
    /\ place = "flow"
    /\ next = Len(rules) + 1
    /\ place' = IF dlqEnabled /\ error # Healthy THEN "dlq" ELSE "valid"
    /\ UNCHANGED <<spec, column, error, next, warned, target>>

\* A column mapping takes the column (source) or an expression over it, casts it
\* or not, and falls back on a default or not.
Mappings == [value : {"source", "expr"}, cast : BOOLEAN, default : BOOLEAN]

\* What the target can become: an expression may yield anything, a cast null.
MappedColumn(mapping) ==
    LET value == IF mapping.value = "expr" THEN Decodable \cup {Null} ELSE {column}
        typed == IF mapping.cast THEN value \cup {Null} ELSE value
    IN  IF mapping.default THEN {IF v = Null THEN "mid" ELSE v : v \in typed} ELSE typed

\* Without a mapping the columns pass; with one the envelope, warnings
\* included, passes and the mapped columns replace the parsed ones.  Either
\* way _dfx_error is dropped before the sink.
ApplyMapping ==
    /\ place = "valid"
    /\ \/ target' = column
       \/ \E mapping \in Mappings : target' \in MappedColumn(mapping)
    /\ place' = "main"
    /\ UNCHANGED <<spec, column, error, next, warned>>

\* The record is in a table, has been dropped or has failed the stream.
Terminated == place \notin {"flow", "valid"} /\ UNCHANGED vars

Next ==
    \/ Parse \/ ParseRaises
    \/ FlagRule \/ DropRule \/ WarnRule
    \/ Route \/ ApplyMapping
    \/ Terminated

Spec == Init /\ [][Next]_vars

-----------------------------------------------------------------------------
(* Properties *)

Broken(actions) ==
    {i \in 1..Len(rules) : rules[i].action \in actions /\ Violated(rules[i]) = "T"}

\* What a parser recognises as wrong: another number of fields, a record that is
\* too short, a status code that is not listed, a blank JSON document; for a
\* blank CSV, XML or delimited record it depends on Spark and the schema.  That
\* is not every malformed record, as parsers/base.py:6 and json_parser.py:22
\* have it: of a garbled document the parsers that fill a struct make a record
\* of nulls like any other, and a field that does not cast is a null as well.
Recognised ==
    \/ parser = "delimited" /\ payload \in {"absent", "garbled"}
    \/ parser \in {"fixed_width", "account"} /\ payload \in {"blank", "garbled"}
    \/ parser = "account" /\ payload \in {"high", "miscast"}
    \/ parser = "json" /\ payload = "blank"
BlankDocument == parser \in {"csv", "xml", "delimited"} /\ payload = "blank"

\* from_avro in mode FAILFAST raises on what it cannot decode.
FailsStream ==
    parser = "avro_failfast" /\ payload \in {"blank", "garbled", "miscast"}

\* Where a record ends depends on the set of rules it violates, not on their
\* order: any violated drop rule removes it, flagged or not; otherwise an error
\* sends it to the DLQ if there is one.  Only a malformed Avro document in mode
\* FAILFAST fails the stream.
PlaceAsDeclared ==
    place \notin {"flow", "valid"} =>
        place = IF FailsStream THEN "failed"
                ELSE CASE Broken({"drop"}) # {} -> "none"
                       [] Broken({"drop"}) = {} /\ dlqEnabled
                            /\ (error = ParseError \/ Broken({"dlq", "fail"}) # {})
                            -> "dlq"
                       [] OTHER -> "main"

\* A delivered record tells what the parser and the rules found.  Its error is the
\* parser's, or else that of the first violated rule in the topic's list; the
\* parser's is there for the records it recognises as wrong and for no other,
\* so a garbled JSON, CSV, XML or Avro document arrives as healthy unless a rule
\* objects to its nulls.  It has the warning of every warn rule it violates,
\* whichever other rules it violates and whatever mapping projects it.
FindingsReported ==
    place \in {"dlq", "main"} =>
        /\ Recognised => error = ParseError
        /\ error = ParseError => Recognised \/ BlankDocument
        /\ error = Healthy => Broken({"dlq", "fail"}) = {}
        /\ error > 0 => /\ error \in Broken({"dlq", "fail"})
                        /\ \A i \in Broken({"dlq", "fail"}) : error <= i
        /\ warned = Broken({"warn"})

\* A null column violates not_null rules and nothing else: no other rule on the
\* column flags, drops or warns about a record without a value.
NullsPass ==
    column = Null /\ next > 0 =>
        /\ error > 0 => rules[error].type \in {"not_null", "expression"}
        /\ \A i \in warned : rules[i].type \in {"not_null", "expression"}
        /\ place = "none" => rules[next - 1].type \in {"not_null", "expression"}

-----------------------------------------------------------------------------
(* The inductive invariant behind them *)

TypeOK ==
    /\ parser \in Parsers /\ rules \in Seq(Rules) /\ dlqEnabled \in BOOLEAN
    /\ payload \in Payloads /\ expr \in Logic
    /\ {column, target} \subseteq Decodable \cup {Null}
    /\ error \in {Healthy, ParseError} \cup (1..Len(rules))
    /\ next \in 0..(Len(rules) + 1)
    /\ warned \subseteq 1..Len(rules)
    /\ place \in {"flow", "valid", "main", "dlq", "none", "failed"}

\* What the parser has done, once it has run.
ParserInv ==
    /\ next = 0 => error = Healthy /\ place \in {"flow", "failed"}
    /\ next > 0 => ~FailsStream /\ (Recognised => error = ParseError)
    /\ error = ParseError => Recognised \/ BlankDocument
    /\ place = "failed" => next = 0 /\ FailsStream

\* What the rules before the next one have done: the first that flags wins,
\* every one that warns has warned, and the first that drops ends the flow.
RulesInv ==
    /\ error = Healthy => \A i \in Broken({"dlq", "fail"}) : i >= next
    /\ error > 0 => /\ error \in Broken({"dlq", "fail"})
                    /\ \A i \in Broken({"dlq", "fail"}) : error <= i
    /\ warned = {i \in Broken({"warn"}) : i < next}
    /\ IF place = "none" THEN next - 1 \in Broken({"drop"})
                         ELSE \A i \in Broken({"drop"}) : i >= next

\* A record is routed when all rules have seen it.
RouteInv ==
    /\ place \in {"valid", "dlq", "main"} => next = Len(rules) + 1
    /\ place = "dlq" => dlqEnabled /\ error # Healthy
    /\ place \in {"valid", "main"} => ~dlqEnabled \/ error = Healthy

IInv == TypeOK /\ ParserInv /\ RulesInv /\ RouteInv
=============================================================================
