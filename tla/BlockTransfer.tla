---------------------------- MODULE BlockTransfer ----------------------------
(***************************************************************************)
(* What send_xmodem128_crc promises its caller, said without packets,      *)
(* sequence numbers, retries or timers: the receiver stores the blocks of  *)
(* the image one after the other, in order and each once; a call that      *)
(* returns has delivered all of them; a call that raises promises nothing  *)
(* about how far it got, and a packet it left on the line may still be     *)
(* stored afterwards.                                                      *)
(***************************************************************************)
EXTENDS Naturals, Sequences

CONSTANT NumBlocks      \* blocks of the padded image

VARIABLES
  stored,               \* the blocks the receiver has stored, in order
  result                \* what the caller knows: "running", "ok" or "failed"

btVars == <<stored, result>>

BTInit ==
  /\ stored = << >>
  /\ result = "running"

\* The receiver stores the next block.
Deliver ==
  /\ result # "ok"
  /\ Len(stored) < NumBlocks
  /\ stored' = Append(stored, Len(stored) + 1)
  /\ UNCHANGED result

\* The call returns.
Finish ==
  /\ result = "running"
  /\ Len(stored) = NumBlocks
  /\ result' = "ok"
  /\ UNCHANGED stored

\* The call raises.
Fail ==
  /\ result = "running"
  /\ result' = "failed"
  /\ UNCHANGED stored

BTNext == Deliver \/ Finish \/ Fail

BTSpec == BTInit /\ [][BTNext]_btVars
==============================================================================
