--------------------------- MODULE ZenCanMessage ---------------------------
(***************************************************************************)
(* The conversions between zencan's messages and CanMessage.  A zencan     *)
(* message has public fields: its id and the dlc of a remote frame may be  *)
(* out of range.                                                           *)
(***************************************************************************)
EXTENDS WaveshareWire

IsZenCanMessage(z) ==
  /\ z \in [ext : BOOLEAN, id : Nat, rtr : BOOLEAN, dlc : Byte, data : Seq(Byte)]
  /\ Len(z.data) <= 8
  /\ IF z.rtr THEN z.data = <<>> ELSE z.dlc = Len(z.data)

\* StandardId::new and ExtendedId::new refuse an id out of range, new_remote a
\* dlc.
FromZencan(z) ==
  IF z.id \notin IdRange(z.ext) THEN <<>>
  ELSE IF z.rtr THEN NewRemote(z.ext, z.id, z.dlc) ELSE NewData(z.ext, z.id, z.data)

\* zencan's new and new_rtr: a remote frame has no dlc of its own.
ZenCanNew(ext, id, data) ==
  [ext |-> ext, id |-> id, rtr |-> FALSE, dlc |-> Len(data), data |-> data]
ZenCanNewRtr(ext, id) == [ext |-> ext, id |-> id, rtr |-> TRUE, dlc |-> 0, data |-> <<>>]

\* Faulty: an id that fits into 11 bits is taken for a standard one.
ToZencanByRange(m) ==
  IF m.rtr THEN ZenCanNewRtr(m.id > 2047, m.id) ELSE ZenCanNew(m.id > 2047, m.id, m.data)

ToZencan(m) == IF m.rtr THEN ZenCanNewRtr(m.ext, m.id) ELSE ZenCanNew(m.ext, m.id, m.data)
=============================================================================
