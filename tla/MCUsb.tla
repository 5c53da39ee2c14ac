------------------------------- MODULE MCUsb -------------------------------
(***************************************************************************)
(* Two ports with any devices.  The event ring is just long enough for a   *)
(* mass storage and a keyboard, so that their events and the keys wrap it, *)
(* and two mass storages overrun it, as they do the 32 TRBs of the code.   *)
(***************************************************************************)
EXTENDS KeyboardInput
=============================================================================
