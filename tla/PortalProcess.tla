--------------------------- MODULE PortalProcess ----------------------------
(***************************************************************************)
(* One worker process of the portal (gunicorn.conf.py): threads that       *)
(* answer requests side by side and share the module's globals, and the    *)
(* clock they read.  The other process has its own globals, and what the   *)
(* two need of each other is in the browser's cookies.                     *)
(***************************************************************************)
EXTENDS Naturals

CONSTANTS
  Threads,
  MaxTime        \* bound of the clock

ASSUME ProcessAssumption == MaxTime \in Nat

VARIABLE now

=============================================================================
