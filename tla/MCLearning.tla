------------------------------ MODULE MCLearning ------------------------------
(* Constants of Learning for TLC.                                          *)
EXTENDS Learning

CONSTANTS m1, m2, t1, t2

\* Two machines that race for a worker's lease; and one, with what is looked at
\* or trained by request while its worker is at work.
OneWorkerEach ==
    {{"rollup", m1, m2}, {"training", m1, m2},
     {"rollup", "overview", m1}, {"training", "overview", "temporal", m1},
     {"training", "overview", "uptime", m1}, {"training", "forecast", m1}}

OnlyThreat == {{"training", "threat", m1}}
=============================================================================
