------------------------------ MODULE MCSchedule ------------------------------
(* Schedule for three streams.  Ten ticks are a second: 10/3 is a stream   *)
(* of 3 Hz, 5/2 one of 4 Hz.                                               *)
EXTENDS Schedule

AllOfThem == {Rational(1, 1), Rational(2, 1), Rational(3, 1), Rational(4, 1),
              Rational(5, 1), Rational(6, 1), Rational(7, 1),
              Rational(10, 3), Rational(5, 2)}
Layers == <<2, 0, 1>>
=============================================================================
