----------------------- MODULE MCConnectionLifecycle -----------------------
(* Small instances of ConnectionLifecycle for TLC.                         *)
EXTENDS ConnectionLifecycle

CONSTANTS t1, t2

=============================================================================
