-------------------------- MODULE MCOnlineController --------------------------
(* Small instances of OnlineController.  The schedule is that of a stream  *)
(* a with period 2 and a stream b with period 3.                           *)
EXTENDS OnlineController

MCDueTimes == <<2, 3, 4, 6>>
MCDueStreams == <<{"a"}, {"b"}, {"a"}, {"a", "b"}>>
=============================================================================
