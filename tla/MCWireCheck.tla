---------------------------- MODULE MCWireCheck ----------------------------
(* Instances of WireCheck for TLC. *)
EXTENDS WireCheck

Payloads == {<<>>, <<85>>, <<170, 192, 0, 0, 85>>, <<1, 2, 3, 4, 5, 6, 170, 85>>}
Data(ext, ids) ==
  {[ext |-> ext, id |-> i, rtr |-> FALSE, dlc |-> Len(d), data |-> d] : i \in ids, d \in Payloads}
Remote(ext, ids) ==
  {[ext |-> ext, id |-> i, rtr |-> TRUE, dlc |-> n, data |-> <<>>] : i \in ids, n \in {0, 8}}

\* The smallest and largest ids, and ids with bytes that look like framing.
DataFrames == Data(FALSE, {0, 170, 2047}) \cup Data(TRUE, {0, 43605, 2048, 536870911})
RemoteFrames == Remote(FALSE, {1}) \cup Remote(TRUE, {1})
AllFrames == DataFrames \cup RemoteFrames
=============================================================================
