------------------------------ MODULE MCSession ------------------------------
(***************************************************************************)
(* Two inputs, seconds of a hundred nanoseconds.  The files have their     *)
(* columns in several orders, with and without times, and every way in     *)
(* which a row cannot be read; the command lines every source, verbosity   *)
(* and time representation.                                                *)
(***************************************************************************)
EXTENDS Session

None == [k |-> "None"]
B(v) == [k |-> "Bool", v |-> v]
Bad == [k |-> "Text"]
T(whole, fraction) ==
    [k |-> "Time", whole |-> whole, point |-> TRUE, fraction |-> fraction, more |-> FALSE]
Whole(n) == [k |-> "Time", whole |-> n, point |-> FALSE, fraction |-> <<>>, more |-> FALSE]
TwoPoints == [T(1, <<5>>) EXCEPT !.more = TRUE]

CSV(header, rows) == [header |-> header, rows |-> rows]
TimesFile(times) ==
    CSV(<<"b", "Time", "a">>,
        [i \in DOMAIN times |-> <<B(i # 2), times[i], IF i = 1 THEN None ELSE B(TRUE)>>])

GoodFiles ==
    {TimesFile(<<T(1, <<5>>), T(1, <<7, 5>>), T(2, <<>>)>>),
     TimesFile(<<T(1, <<0, 5>>), T(1, <<5, 0, 9>>)>>),
     TimesFile(<<Whole(130), Whole(130), Whole(131)>>),
     CSV(<<"a", "x", "b">>, <<<<B(TRUE), Bad, B(TRUE)>>, <<None, Bad, B(FALSE)>>>>),
     CSV(<<"ts", "b", "time", "a">>,
         <<<<T(1, <<1>>), B(TRUE), T(3, <<>>), B(FALSE)>>,
           <<T(1, <<3>>), None, T(2, <<>>), B(TRUE)>>>>)}
BadFiles ==
    {TimesFile(<<T(2, <<>>), T(1, <<>>)>>),
     TimesFile(<<T(1, <<>>), T(3, <<>>), T(2, <<>>)>>),
     TimesFile(<<T(1, <<5>>), Whole(2)>>),
     TimesFile(<<TwoPoints>>),
     TimesFile(<<T(1, <<>>), TwoPoints>>),
     TimesFile(<<Bad, T(1, <<>>)>>),
     CSV(<<"a", "b">>, <<<<B(TRUE), Bad>>>>),
     CSV(<<"a", "b">>, <<<<B(TRUE), None>>, <<Bad, None>>>>),
     CSV(<<"a", "b">>, <<<<B(TRUE), None>>, <<None>>>>),
     CSV(<<"a", "b">>, <<>>),
     CSV(<<"a", "c">>, <<<<B(TRUE), B(TRUE)>>>>)}
MCFiles == GoodFiles \cup BadFiles

Line(csvIn, column, delay, verbosity, online, time) ==
    [csvIn |-> csvIn, column |-> column, delay |-> delay, verbosity |-> verbosity,
     online |-> online, time |-> time]
MCCommandLines ==
    {Line(TRUE, column, <<>>, "triggers", FALSE, "Absolute") :
         column \in {<<>>, <<2>>, <<3>>, <<4>>, <<0>>, <<Text>>}}
    \cup {Line(TRUE, <<>>, delay, "triggers", FALSE, time) :
              delay \in {<<>>, <<7>>, <<Text>>}, time \in {"Hide", "Relative", "Absolute"}}
    \cup {Line(TRUE, <<>>, delay, verbosity, FALSE, "Relative") :
              delay \in {<<>>, <<7>>}, verbosity \in DOMAIN VerbosityOf}
    \cup {Line(csvIn, <<>>, <<>>, verbosity, online, "Absolute") :
              csvIn \in BOOLEAN, verbosity \in {"progress", "outputs"}, online \in BOOLEAN}

MCInputs == <<"a", "b">>
MCTimeNames == {"time", "Time", "ts"}
=============================================================================
