--------------------------- MODULE RecordFlowProofs ---------------------------
(***************************************************************************)
(* Theorems about RecordFlow for rule lists of any length and any set of   *)
(* parsers: where a record ends and what it tells of the rules it violates *)
(* is decided by the list as a whole, one rule at a time.                  *)
(***************************************************************************)
EXTENDS RecordFlow, TLAPS

ParserNames == {"json", "csv", "xml", "avro", "avro_failfast", "delimited",
                "fixed_width", "account", "text", "binary"}

\* What a parser may make of a payload: it flags what it recognises as wrong and
\* otherwise at most a blank document, and makes nothing only of what fails
\* the stream.
LEMMA ParsedFacts ==
    ASSUME parser \in ParserNames, payload \in Payloads, NEW parsed \in Parsed
    PROVE  /\ parsed.column \in Decodable \cup {Null}
           /\ parsed.error \in {Healthy, ParseError}
           /\ Recognised => parsed.error = ParseError
           /\ parsed.error = ParseError => Recognised \/ BlankDocument
           /\ ~FailsStream
<1> USE DEF Recognised, BlankDocument, FailsStream, Payloads, Decodable, Healthy,
            ParseError, Null, NoStruct
<1>1. CASE parser = "json"
  <2>1. PICK struct \in FromJson(payload) : parsed = SelectParsed(struct, payload)
    BY <1>1 DEF Parsed, JsonParser
  <2>2. struct = IF payload \in {"absent", "blank"} THEN NoStruct ELSE Fields(payload)
    BY <2>1 DEF FromJson
  <2>3. struct \in Decodable \cup {Null, NoStruct}
        /\ (struct = NoStruct <=> payload \in {"absent", "blank"})
    BY <2>2 DEF Fields
  <2>4. /\ parsed.column \in Decodable \cup {Null}
        /\ parsed.error = IF payload = "blank" THEN ParseError ELSE Healthy
    BY <2>1, <2>3 DEF SelectParsed, FlagErrorWhen, Bool3
  <2> QED
    BY <1>1, <2>4
<1>2. CASE parser \in {"csv", "xml"}
  <2>1. PICK struct \in FromText(payload) : parsed = SelectParsed(struct, payload)
    BY <1>2 DEF Parsed, CsvParser, XmlParser
  <2>2. struct \in Decodable \cup {Null, NoStruct}
        /\ (struct = NoStruct => payload \in {"absent", "blank"})
    BY <2>1 DEF FromText, FromJson, Fields
  <2>3. /\ parsed.column \in Decodable \cup {Null}
        /\ parsed.error = IF struct = NoStruct /\ payload # "absent" THEN ParseError
                                                                  ELSE Healthy
    BY <2>1, <2>2 DEF SelectParsed, FlagErrorWhen, Bool3
  <2>4. payload # "blank" => parsed.error = Healthy
    BY <2>2, <2>3
  <2>5. ~Recognised /\ ~FailsStream /\ (BlankDocument <=> payload = "blank")
    BY <1>2
  <2>6. Healthy # ParseError
    OBVIOUS
  <2>7. parsed.error \in {Healthy, ParseError}
    BY <2>3
  <2> QED
    BY <2>3, <2>4, <2>5, <2>6
<1>3. CASE parser \in {"avro", "avro_failfast"}
  <2>1. PICK mode \in {"PERMISSIVE", "FAILFAST"} :
            /\ parsed \in AvroParser(payload, mode)
            /\ parser = "avro_failfast" => mode = "FAILFAST"
    BY <1>3 DEF Parsed
  <2>2. PICK struct \in FromAvro(payload, mode) : parsed = SelectParsed(struct, payload)
    BY <2>1 DEF AvroParser
  <2>3. struct \in Decodable \cup {Null, NoStruct}
        /\ (struct = NoStruct => payload = "absent")
        /\ ~FailsStream
    BY <2>1, <2>2 DEF FromAvro, Fields
  <2>4. parsed.column \in Decodable \cup {Null} /\ parsed.error = Healthy
    BY <2>2, <2>3 DEF SelectParsed, FlagErrorWhen, Bool3
  <2>5. ~Recognised
    BY <1>3
  <2>6. parsed.error # ParseError
    BY <2>4
  <2> QED
    BY <2>3, <2>4, <2>5, <2>6
<1>4. CASE parser = "delimited"
  BY <1>4 DEF Parsed, DelimitedParser, FlagErrorWhen, Bool3, Fields
<1>5. CASE parser = "fixed_width"
  BY <1>5 DEF Parsed, FixedWidthParser, FlagErrorWhen, Bool3, Fields
<1>6. CASE parser = "account"
  <2> DEFINE read == IF payload = "miscast" THEN "high" ELSE payload
  <2>1. PICK decoded \in FixedWidthParser(read) :
            parsed = [decoded EXCEPT !.error =
                         FlagErrorWhen(@, And3(Bool3(@ = Healthy),
                            Not3(Compare3(decoded.column, {"low", "mid"}))))]
    BY <1>6 DEF Parsed, AccountParser
  <2>2. /\ decoded = [column |-> decoded.column, error |-> decoded.error]
        /\ decoded.error = IF payload \in {"blank", "garbled"} THEN ParseError ELSE Healthy
        /\ decoded.column = IF payload \in {"absent", "blank", "garbled"} THEN Null ELSE read
    BY <2>1 DEF FixedWidthParser, FlagErrorWhen, Bool3, Fields
  <2>3. /\ parsed.column = decoded.column
        /\ parsed.error = FlagErrorWhen(decoded.error, And3(Bool3(decoded.error = Healthy),
                              Not3(Compare3(decoded.column, {"low", "mid"}))))
    BY <2>1, <2>2
  <2>4. parsed.error = IF payload \in {"blank", "garbled", "high", "miscast"}
                       THEN ParseError ELSE Healthy
    BY <2>2, <2>3 DEF FlagErrorWhen, And3, Not3, Bool3, Compare3
  <2> QED
    BY <1>6, <2>2, <2>3, <2>4
<1>7. CASE parser \in {"text", "binary"}
  BY <1>7 DEF Parsed, TextParser, BinaryParser
<1> QED
  BY <1>1, <1>2, <1>3, <1>4, <1>5, <1>6, <1>7 DEF ParserNames

\* Only the decoder in mode FAILFAST may make nothing of a payload.
LEMMA NothingParsed ==
    ASSUME parser \in ParserNames, payload \in Payloads, Parsed = {}
    PROVE  FailsStream
<1> USE DEF Parsed
<1>1. FromJson(payload) # {} /\ FromText(payload) # {} /\ FromAvro(payload, "PERMISSIVE") # {}
  BY DEF FromJson, FromText, FromAvro
<1>2. parser \notin {"json", "csv", "xml", "avro"}
  BY <1>1 DEF JsonParser, CsvParser, XmlParser, AvroParser
<1>3. parser \notin {"fixed_width", "text", "binary"}
  BY DEF FixedWidthParser, TextParser, BinaryParser
<1>6. parser # "delimited"
  BY DEF DelimitedParser
<1>4. parser # "account"
  BY DEF AccountParser, FixedWidthParser
<1>5. ASSUME parser = "avro_failfast" PROVE FailsStream
  <2>1. FromAvro(payload, "FAILFAST") = {}
    BY <1>5 DEF AvroParser
  <2> QED
    BY <1>5, <2>1 DEF FromAvro, FailsStream, Payloads, Decodable
<1> QED
  BY <1>2, <1>3, <1>4, <1>5, <1>6 DEF ParserNames

\* The null guards: a null column violates not_null and expression rules only.
LEMMA NullViolates ==
    ASSUME NEW rule \in Rules, column = Null, Violated(rule) = "T"
    PROVE  rule.type \in {"not_null", "expression"}
  BY DEF Violated, Rules, RuleTypes, And3, Bool3

-----------------------------------------------------------------------------
(* The invariant *)

LEMMA InitInv == Init => IInv
<1> SUFFICES ASSUME Init PROVE IInv
  OBVIOUS
<1> USE DEF Init, Healthy, ParseError, Null
<1>1. PICK n \in 0..MaxRules : rules \in [1..n -> Rules]
  OBVIOUS
<1>2. rules \in Seq(Rules) /\ Len(rules) \in Nat
  BY <1>1, FlowAssumption
<1>3. expr \in Logic
  BY DEF Logic
<1>4. TypeOK
  BY <1>2, <1>3 DEF TypeOK
<1>5. \A actions : Broken(actions) \subseteq 1..Len(rules)
  BY DEF Broken
<1> QED
  BY <1>2, <1>4, <1>5 DEF IInv, ParserInv, RulesInv, RouteInv

\* The rules a record breaks do not change once it is parsed.
LEMMA BrokenStays ==
    ASSUME UNCHANGED <<spec, column>>
    PROVE  \A actions : Broken(actions)' = Broken(actions)
  BY DEF spec, Broken, Violated

LEMMA BrokenTypes ==
    ASSUME TypeOK
    PROVE  /\ Len(rules) \in Nat
           /\ \A actions : Broken(actions) \subseteq 1..Len(rules)
           /\ \A i \in 1..Len(rules) : rules[i] \in Rules
  BY DEF TypeOK, Broken

LEMMA ParseInv == ASSUME IInv, Parse PROVE IInv'
<1> USE DEF Healthy, ParseError
<1>1. PICK parsed \in Parsed : column' = parsed.column /\ error' = parsed.error
  BY DEF Parse
<1>2. /\ TypeOK /\ next = 0 /\ next' = 1
      /\ UNCHANGED <<spec, warned, target, place>>
  BY DEF IInv, Parse
<1>3. /\ column' \in Decodable \cup {Null} /\ error' \in {Healthy, ParseError}
      /\ Recognised => error' = ParseError
      /\ error' = ParseError => Recognised \/ BlankDocument
      /\ ~FailsStream
  <2>1. parser \in ParserNames /\ payload \in Payloads
    BY <1>2, FlowAssumption DEF TypeOK, ParserNames
  <2> QED
    BY <1>1, <2>1, ParsedFacts
<1>4. TypeOK'
  BY <1>2, <1>3, BrokenTypes DEF TypeOK, spec
<1>5. place = "flow" /\ warned = {}
  BY <1>2, <1>3, BrokenTypes DEF IInv, ParserInv, RulesInv
<1>6. ParserInv'
  BY <1>2, <1>3, <1>5 DEF ParserInv, Recognised, BlankDocument, FailsStream, spec
<1>7. RulesInv'
  <2>1. \A actions : Broken(actions)' \subseteq 1..Len(rules')
    BY DEF Broken
  <2>2. Broken({"warn"})' \subseteq 1..Len(rules') /\ Broken({"drop"})' \subseteq 1..Len(rules')
        /\ Broken({"dlq", "fail"})' \subseteq 1..Len(rules')
    BY <2>1
  <2> QED
    BY <1>2, <1>3, <1>5, <2>2 DEF RulesInv
<1> QED
  BY <1>2, <1>4, <1>5, <1>6, <1>7 DEF IInv, RouteInv

\* One rule seen, which may have flagged, warned or dropped.
LEMMA RuleInv ==
    ASSUME IInv, FlagRule \/ DropRule \/ WarnRule
    PROVE  IInv'
<1> USE DEF Healthy, ParseError
<1> DEFINE holds == Violated(rules[next]) = "T"
           action == rules[next].action
<1>1. /\ place = "flow" /\ next \in 1..Len(rules) /\ next' = next + 1
      /\ action \in Actions
      /\ UNCHANGED <<spec, column, target>>
  BY BrokenTypes DEF IInv, FlagRule, DropRule, WarnRule, AtRule, Rules, Actions
<1>2. /\ error' = IF action \in {"dlq", "fail"} /\ error = Healthy /\ holds
                  THEN next ELSE error
      /\ warned' = IF action = "warn" /\ holds THEN warned \cup {next} ELSE warned
      /\ place' = IF action = "drop" /\ holds THEN "none" ELSE place
  <2>1. CASE FlagRule
    BY <2>1 DEF FlagRule, AtRule
  <2>2. CASE DropRule
    <3>1. Violated(rules[next]) \in Logic
      BY <1>1, BrokenTypes DEF IInv, TypeOK, Violated, Rules, RuleTypes, Logic,
         Bool3, And3, Or3, Not3, Compare3
    <3>2. \A v \in Logic : Or3(Not3(v), Bool3(v = "N")) = "T" <=> v # "T"
      <4>1. Or3(Not3("T"), Bool3("T" = "N")) = "F"
        BY DEF Or3, Not3, Bool3
      <4>2. Or3(Not3("F"), Bool3("F" = "N")) = "T"
        BY DEF Or3, Not3, Bool3
      <4>3. Or3(Not3("N"), Bool3("N" = "N")) = "T"
        <5>1. Not3("N") = "N" /\ Bool3("N" = "N") = "T"
          BY DEF Not3, Bool3
        <5> QED
          BY <5>1 DEF Or3
      <4> QED
        BY <4>1, <4>2, <4>3 DEF Logic
    <3> QED
      BY <2>2, <3>1, <3>2 DEF DropRule, AtRule
  <2>3. CASE WarnRule
    BY <2>3 DEF WarnRule, AtRule
  <2> QED
    BY <2>1, <2>2, <2>3
<1>3. \A actions : Broken(actions)' = Broken(actions)
  BY <1>1, BrokenStays
<1>4. \A actions : next \in Broken(actions) <=> action \in actions /\ holds
  BY <1>1 DEF Broken
<1>5. /\ TypeOK /\ Len(rules) \in Nat
      /\ \A actions : Broken(actions) \subseteq 1..Len(rules)
  BY BrokenTypes DEF IInv
<1> HIDE DEF holds, action
<1>6. TypeOK'
  BY <1>1, <1>2, <1>5 DEF TypeOK, spec
<1>7. ParserInv'
  BY <1>1, <1>2, <1>5 DEF IInv, ParserInv, Recognised, BlankDocument, FailsStream, spec
<1>8. (error = Healthy => \A i \in Broken({"dlq", "fail"}) : i >= next)'
  BY <1>1, <1>2, <1>3, <1>4, <1>5 DEF IInv, RulesInv
<1>9. (error > 0 => /\ error \in Broken({"dlq", "fail"})
                    /\ \A i \in Broken({"dlq", "fail"}) : error <= i)'
  BY <1>1, <1>2, <1>3, <1>4, <1>5 DEF IInv, RulesInv, TypeOK
<1>10. (warned = {i \in Broken({"warn"}) : i < next})'
  <2>1. \A i \in Broken({"warn"}) : i < next + 1 <=> i < next \/ i = next
    BY <1>1, <1>5
  <2> QED
    BY <1>1, <1>2, <1>3, <1>4, <2>1 DEF IInv, RulesInv
<1>11. (IF place = "none" THEN next - 1 \in Broken({"drop"})
                          ELSE \A i \in Broken({"drop"}) : i >= next)'
  BY <1>1, <1>2, <1>3, <1>4, <1>5 DEF IInv, RulesInv
<1>12. RulesInv'
  BY <1>8, <1>9, <1>10, <1>11 DEF RulesInv
<1> QED
  BY <1>1, <1>2, <1>6, <1>7, <1>12 DEF IInv, RouteInv

LEMMA StepInv == IInv /\ [Next]_vars => IInv'
<1> SUFFICES ASSUME IInv, [Next]_vars PROVE IInv'
  OBVIOUS
<1>1. CASE Parse
  BY <1>1, ParseInv
<1>2. CASE ParseRaises
  <2>1. FailsStream
    BY <1>2, NothingParsed, FlowAssumption DEF IInv, TypeOK, ParseRaises, ParserNames
  <2>2. UNCHANGED <<spec, column, error, next, warned, target>> /\ place = "flow"
        /\ place' = "failed" /\ next = 0
    BY <1>2 DEF ParseRaises
  <2>3. \A actions : Broken(actions)' = Broken(actions)
    BY <2>2, BrokenStays
  <2>4. TypeOK'
    BY <2>2 DEF IInv, TypeOK, spec
  <2>5. ParserInv'
    BY <2>1, <2>2 DEF IInv, ParserInv, Recognised, BlankDocument, FailsStream, spec
  <2>6. RulesInv'
    BY <2>2, <2>3 DEF IInv, RulesInv
  <2> QED
    BY <2>2, <2>4, <2>5, <2>6 DEF IInv, RouteInv
<1>3. CASE FlagRule \/ DropRule \/ WarnRule
  BY <1>3, RuleInv
<1>4. CASE Route
  <2>1. UNCHANGED <<spec, column, error, next, warned, target>> /\ place = "flow"
        /\ next = Len(rules) + 1
        /\ place' = IF dlqEnabled /\ error # Healthy THEN "dlq" ELSE "valid"
    BY <1>4 DEF Route
  <2>2. \A actions : Broken(actions)' = Broken(actions)
    BY <2>1, BrokenStays
  <2>3. next > 0
    BY <2>1, BrokenTypes DEF IInv
  <2>4. TypeOK'
    BY <2>1 DEF IInv, TypeOK, spec
  <2>5. ParserInv'
    BY <2>1, <2>3 DEF IInv, ParserInv, Recognised, BlankDocument, FailsStream, spec
  <2>6. RulesInv'
    BY <2>1, <2>2 DEF IInv, RulesInv
  <2>7. RouteInv'
    BY <2>1 DEF RouteInv, spec
  <2> QED
    BY <2>4, <2>5, <2>6, <2>7 DEF IInv
<1>5. CASE ApplyMapping
  <2>1. UNCHANGED <<spec, column, error, next, warned>> /\ place = "valid"
        /\ place' = "main"
    BY <1>5 DEF ApplyMapping
  <2>2. target' \in Decodable \cup {Null}
    BY <1>5 DEF ApplyMapping, MappedColumn, Mappings, IInv, TypeOK, Decodable
  <2>3. \A actions : Broken(actions)' = Broken(actions)
    BY <2>1, BrokenStays
  <2>4. next > 0
    BY <2>1, BrokenTypes DEF IInv, RouteInv
  <2> QED
    BY <2>1, <2>2, <2>3, <2>4 DEF IInv, TypeOK, ParserInv, RulesInv, RouteInv, Recognised,
       BlankDocument, FailsStream, spec
<1>6. CASE UNCHANGED vars
  <2>1. \A actions : Broken(actions)' = Broken(actions)
    BY <1>6, BrokenStays DEF vars
  <2>2. TypeOK' /\ RouteInv'
    BY <1>6 DEF IInv, TypeOK, RouteInv, vars, spec
  <2>3. ParserInv'
    BY <1>6 DEF IInv, ParserInv, Recognised, BlankDocument, FailsStream, vars, spec
  <2>4. RulesInv'
    BY <1>6, <2>1 DEF IInv, RulesInv, vars
  <2> QED
    BY <2>2, <2>3, <2>4 DEF IInv
<1> QED
  BY <1>1, <1>2, <1>3, <1>4, <1>5, <1>6 DEF Next, Terminated

-----------------------------------------------------------------------------
(* The theorems *)

\* At every rule of the list the record tells what the rules before it and the
\* parser found.
THEOREM RulesInTurn == Spec => []IInv
  BY InitInv, StepInv, PTL DEF Spec

\* Where a record ends is decided by the set of rules it violates, for rule
\* lists of any length (pipeline/builder.py, start_topic).
THEOREM EndsAsDeclared == Spec => []PlaceAsDeclared
<1>1. IInv => PlaceAsDeclared
  <2> SUFFICES ASSUME IInv, place \notin {"flow", "valid"} PROVE PlaceAsDeclared
    BY DEF PlaceAsDeclared
  <2>1. CASE place = "failed"
    BY <2>1 DEF IInv, ParserInv, PlaceAsDeclared
  <2>2. CASE place = "none"
    <3>1. next - 1 \in Broken({"drop"}) /\ Broken({"drop"}) \subseteq 1..Len(rules)
          /\ Len(rules) \in Nat /\ next \in 0..(Len(rules) + 1)
      BY <2>2, BrokenTypes DEF IInv, TypeOK, RulesInv
    <3>2. next > 0
      BY <3>1
    <3> QED
      BY <2>2, <3>1, <3>2 DEF IInv, ParserInv, PlaceAsDeclared
  <2>3. CASE place \in {"dlq", "main"}
    <3>1. Broken({"drop"}) = {} /\ next > 0
      BY <2>3, BrokenTypes DEF IInv, RulesInv, RouteInv
    <3>2. error = Healthy => Broken({"dlq", "fail"}) = {}
      BY <2>3, BrokenTypes DEF IInv, RulesInv, RouteInv
    <3>3. error \notin {Healthy, ParseError} => Broken({"dlq", "fail"}) # {}
      BY DEF IInv, TypeOK, RulesInv
    <3> QED
      BY <2>3, <3>1, <3>2, <3>3 DEF IInv, ParserInv, RouteInv, PlaceAsDeclared, Healthy, ParseError
  <2> QED
    BY <2>1, <2>2, <2>3 DEF IInv, TypeOK
<1> QED
  BY <1>1, RulesInTurn, PTL

\* A delivered record carries the first error and all warnings.  Its parser has
\* flagged it if it recognises it as wrong, which a garbled document of the
\* parsers that fill a struct is not (quality/rules.py, parsers/).
THEOREM FindingsDelivered == Spec => []FindingsReported
<1>1. IInv => FindingsReported
  <2> SUFFICES ASSUME IInv, place \in {"dlq", "main"} PROVE FindingsReported
    BY DEF FindingsReported
  <2>1. next = Len(rules) + 1 /\ next > 0
    BY BrokenTypes DEF IInv, RouteInv
  <2>2. \A actions : \A i \in Broken(actions) : i < next
    BY <2>1, BrokenTypes DEF IInv
  <2>3. warned = Broken({"warn"})
    BY <2>2 DEF IInv, RulesInv
  <2>4. error = Healthy => Broken({"dlq", "fail"}) = {}
    BY <2>1, BrokenTypes DEF IInv, RulesInv
  <2> QED
    BY <2>1, <2>3, <2>4 DEF IInv, ParserInv, RulesInv, FindingsReported
<1> QED
  BY <1>1, RulesInTurn, PTL

\* No rule but not_null and an expression acts on a record without a value
\* (_violation_condition).
THEOREM NullsAreLeftAlone == Spec => []NullsPass
<1>1. IInv => NullsPass
  <2> SUFFICES ASSUME IInv, column = Null, next > 0 PROVE NullsPass
    BY DEF NullsPass
  <2>1. ASSUME NEW actions, NEW i \in Broken(actions)
        PROVE  rules[i].type \in {"not_null", "expression"}
    <3>1. rules[i] \in Rules /\ Violated(rules[i]) = "T"
      BY BrokenTypes DEF IInv, Broken
    <3> QED
      BY <3>1, NullViolates
  <2>2. error > 0 => error \in Broken({"dlq", "fail"})
    BY DEF IInv, RulesInv
  <2>3. warned \subseteq Broken({"warn"})
    BY DEF IInv, RulesInv
  <2>4. place = "none" => next - 1 \in Broken({"drop"})
    BY DEF IInv, RulesInv
  <2> QED
    BY <2>1, <2>2, <2>3, <2>4 DEF NullsPass
<1> QED
  BY <1>1, RulesInTurn, PTL
=============================================================================
