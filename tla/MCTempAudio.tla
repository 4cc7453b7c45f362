---------------------------- MODULE MCTempAudio ----------------------------
EXTENDS TempAudio

CONSTANTS e1, e2, k1, x

\* The timer, and two engines that the operating system gives the same PID and
\* start ticks, in different boots.
TwoEngines == {e1, e2}
Timer == {k1}
TimerHost == [k \in {k1} |-> x]
SameStamp == [e \in {e1, e2} |-> 7]
=============================================================================
