----------------------------- MODULE FrameFifo -----------------------------
(***************************************************************************)
(* What a lossless path for CAN messages promises: messages go in at one   *)
(* end and come out at the other unchanged, in order, each once.  The path *)
(* may hold any number of them and promises no more than that.             *)
(***************************************************************************)
EXTENDS Naturals, Sequences

CONSTANT Payload

VARIABLES sent, delivered

vars == <<sent, delivered>>

Init == sent = <<>> /\ delivered = <<>>

Put == \E m \in Payload : sent' = Append(sent, m) /\ UNCHANGED delivered

Get ==
  /\ Len(delivered) < Len(sent)
  /\ delivered' = Append(delivered, sent[Len(delivered) + 1])
  /\ UNCHANGED sent

Next == Put \/ Get

Spec == Init /\ [][Next]_vars
=============================================================================
