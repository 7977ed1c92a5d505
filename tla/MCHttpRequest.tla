--------------------------- MODULE MCHttpRequest ----------------------------
(***************************************************************************)
(* Model checking HttpRequest.  Deadlock is not checked: once the GETs are *)
(* answered and their chains ended, nothing is left to do.                 *)
(***************************************************************************)
EXTENDS HttpRequest
=============================================================================
