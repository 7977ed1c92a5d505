--------------------------- MODULE MCAsyncResult ----------------------------
(***************************************************************************)
(* Model checking AsyncResult: three calls race for one promise that two   *)
(* readers wait for.  TLC is run without deadlock checking because the     *)
(* calls return and the readers wake up: the system really stops.          *)
(***************************************************************************)
EXTENDS AsyncResult
=============================================================================
