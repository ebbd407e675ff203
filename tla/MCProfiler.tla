------------------------------ MODULE MCProfiler ------------------------------
EXTENDS Profiler

\* Clock readings whose differences fall on and one past every unit boundary
\* (1000 ns, 10^6 ns, 10^9 ns) and well inside each unit.
MCTimes == {0, 1, 1000, 1001, 2001, 1000000, 1001001, 1002001,
            1000000000, 1000001001, 2000000000, 2001001001}

=============================================================================
