----------------------------- MODULE MCFraming -----------------------------
(***************************************************************************)
(* Framing for TLC: a ping without payload, a short submission, and one    *)
(* whose length needs two bytes of base 4.  The opcodes are any two bytes. *)
(***************************************************************************)
EXTENDS Framing

OpBinary == 2
OpPing == 3

MCFrame ==
  {[op |-> OpPing, payload |-> <<>>],
   [op |-> OpBinary, payload |-> <<3>>],
   [op |-> OpBinary, payload |-> <<0, 1, 2, 3, 0>>]}

\* The heartbeat sends pings, the callers of Send submissions.
MCSends ==
  [w \in Writer |-> {f \in MCFrame : f.op = IF w \in Locked THEN OpBinary ELSE OpPing}]
=============================================================================
