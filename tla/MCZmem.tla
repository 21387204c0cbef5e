------------------------------- MODULE MCZmem -------------------------------
EXTENDS Zmem

\* Two words of one line that the program writes, and one of another line.
MCAddrs   == {<<1, 1>>, <<2, 1>>, <<1, 2>>}
MCWritten == {<<1, 1>>, <<2, 1>>}

MCTurbos == {"3.5", "7", "14"}
=============================================================================
