--------------------------- MODULE MCRxTransport ---------------------------
(* Instances of RxTransport for TLC. *)
EXTENDS RxTransport

Std(id, data) == [ext |-> FALSE, id |-> id, rtr |-> FALSE, dlc |-> Len(data), data |-> data]
Ext(id, data) == [ext |-> TRUE, id |-> id, rtr |-> FALSE, dlc |-> Len(data), data |-> data]

\* Messages whose bytes look like framing: footers and headers in the data, a
\* footer in the id.  The second fills a frame of the maximal 15 bytes.
Tricky == {Std(85, <<>>), Ext(170, <<170, 192, 0, 0, 85, 170, 200, 0>>)}

\* Noise that costs nothing: no start byte, a start byte whose header has a dlc
\* of fifteen, or a whole frame whose id, 0x800, is out of range.
Quiet == {<<85, 170, 207>>, <<170, 192, 0, 8, 85>>}

\* Messages without a start byte, and noise that begins like a frame: false
\* headers whose frames end inside the messages that follow.  The longest, an
\* extended one with a dlc of eight, ends inside the third; a dlc of fifteen
\* would end inside the fourth.
Plain == {Std(85, <<>>)}
Loud == {<<170, 194>>, <<170, 232>>, <<170, 207>>}
=============================================================================
