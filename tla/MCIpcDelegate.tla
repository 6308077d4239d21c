--------------------------- MODULE MCIpcDelegate ---------------------------
(* DelegateImpl against an arbitrary peer.  The instance with fewer ids than *)
(* calls makes the id counter wrap.                                          *)
EXTENDS IpcDelegate
=============================================================================
