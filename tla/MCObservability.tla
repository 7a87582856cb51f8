---------------------------- MODULE MCObservability ----------------------------
(***************************************************************************)
(* Observability for TLC: three publishers with one that may raise between *)
(* two built-in ones, and the reports a lag can be read from.              *)
(***************************************************************************)
EXTENDS Observability

CONSTANTS q1

MCPublishers == <<"delta", "plugin", "log">>

Reports(b, o) == [bytes |-> b, offsets |-> o]

\* No bytes but offsets behind; behind in the second source; not an integer;
\* a state operator that reports null.
MCPayloads == {
    [sources |-> <<Reports(0, 1)>>, operators |-> <<2>>],
    [sources |-> <<Reports(0, Null), Reports(3, 0)>>, operators |-> <<>>],
    [sources |-> <<Reports(DecimalText, Null)>>, operators |-> <<>>],
    [sources |-> <<Reports(1, Null)>>, operators |-> <<Null>>]}
=============================================================================
