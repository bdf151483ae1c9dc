----------------------------- MODULE MC_XmodemCRC -----------------------------
(* The sender and receiver of XmodemCRC on a small image.                   *)
EXTENDS XmodemCRC
==============================================================================
