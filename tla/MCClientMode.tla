---------------------------- MODULE MCClientMode ----------------------------
(* Instances of ClientMode for TLC. *)
EXTENDS ClientMode

NoFilter == [high |-> 0, low |-> 0]

\* Every mode, and words whose four bytes differ or are all ones.
Varied ==
  {[speed |-> s, mode |-> s % 4, extended |-> s > 6,
    filter |-> IF s = 1 THEN NoFilter ELSE [high |-> 4660, low |-> 43690 + s],
    mask |-> IF s % 3 = 0 THEN [high |-> 65535, low |-> 65535] ELSE NoFilter,
    retransmit |-> s % 2 = 0] : s \in {1, 6, 8, 11}}

\* The shortest frame, whose id holds a footer, and the longest, full of
\* footers.  Neither holds a second start byte.
Plain ==
  {[ext |-> FALSE, id |-> 85, rtr |-> FALSE, dlc |-> 0, data |-> <<>>],
   [ext |-> TRUE, id |-> 21845, rtr |-> FALSE, dlc |-> 8,
    data |-> <<85, 1, 85, 2, 85, 3, 85, 4>>]}
=============================================================================
