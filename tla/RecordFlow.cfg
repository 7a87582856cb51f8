\* Every parser, every list of at most two rules, every record.
CONSTANTS
    Parsers = {"json", "csv", "xml", "avro", "avro_failfast", "delimited",
               "fixed_width", "account", "text", "binary"}
    MaxRules = 2
SPECIFICATION Spec
INVARIANTS
    PlaceAsDeclared
    FindingsReported
    NullsPass
