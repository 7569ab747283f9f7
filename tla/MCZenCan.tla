----------------------------- MODULE MCZenCan ------------------------------
(* Instances of ZenCan for TLC. *)
EXTENDS ZenCan

\* A data frame with an extended id that would fit into 11 bits, a remote
\* frame, and an id out of range.
Some == {ZenCanNew(TRUE, 5, <<1, 2>>), [ZenCanNewRtr(FALSE, 2047) EXCEPT !.dlc = 8]}
OutOfRange == {ZenCanNew(FALSE, 2048, <<>>)}
Mixed == Some \cup OutOfRange

Heard ==
  <<[ext |-> TRUE, id |-> 2047, rtr |-> FALSE, dlc |-> 1, data |-> <<9>>],
    [ext |-> FALSE, id |-> 0, rtr |-> FALSE, dlc |-> 0, data |-> <<>>]>>
=============================================================================
