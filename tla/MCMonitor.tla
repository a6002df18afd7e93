------------------------------ MODULE MCMonitor ------------------------------
(* Monitor with the schedule of a stream a with period 2 and a stream b    *)
(* with period 3, and without a schedule.                                  *)
EXTENDS Monitor

MCDueTimes == <<2, 3, 4, 6>>
MCDueStreams == <<{"a"}, {"b"}, {"a"}, {"a", "b"}>>
=============================================================================
