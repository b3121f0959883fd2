--------------------------- MODULE MCUnlockedReads ---------------------------
(* UnlockedReads beside one writer at a time of the roots, the device and  *)
(* the delegation.                                                         *)
EXTENDS UnlockedReads

WriterCalls == {"init", "rotate_root", "rotate_device", "renew"}
=============================================================================
