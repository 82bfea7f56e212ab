------------------------ MODULE MCNotificationQueue ------------------------
(* Small instances of NotificationQueue: jobs and workers are              *)
(* interchangeable model values.                                           *)
EXTENDS NotificationQueue, TLC

CONSTANTS j1, j2, w1, w2

Symmetry == Permutations(Jobs) \cup Permutations(Workers)

=============================================================================
