--------------------------- MODULE MCTaskSchedule ---------------------------
(* Constants of TaskSchedule for TLC.                                      *)
EXTENDS TaskSchedule, TLC

\* Task 1 is triggered over the stream, task 2 is db_cleanup, in two buckets.
TickThenCleanups == <<1, 2, 2>>
OnlyCleanup == {2}
CrashAndRaise == {"crash", "raise"}
=============================================================================
