------------------------- MODULE MCOfflineController -------------------------
(* Small instances of OfflineController.  The schedule is that of a stream *)
(* a with period 2 and a stream b with period 5.5: its pauses are cut to   *)
(* whole ticks, and the one between b at 5.5 and a at 6 becomes zero.      *)
EXTENDS OfflineController

MCDueTimes == <<2, 4, 5, 5, 7, 9, 10, 11, 13, 15, 15, 16, 18, 20>>
MCDueStreams == <<{"a"}, {"a"}, {"b"}, {"a"}, {"a"}, {"a"}, {"b"}, {"a"}, {"a"}, {"a"},
                  {"b"}, {"a"}, {"a"}, {"a", "b"}>>

SeqsUpTo(S, n) == UNION {[1..k -> S] : k \in 0..n}

(* All inputs of at most four events, with ties and gaps, before and after *)
(* the pause of zero, and two that are long enough to fill the channel and *)
(* both queues beside it.                                                  *)
AllInputs == SeqsUpTo({0, 2, 3, 5, 7}, 4)
                 \cup {<<0, 0, 2, 2, 3, 3, 4, 4>>, <<0, 0, 2, 2, 3, 5, 5, 7>>}
=============================================================================
