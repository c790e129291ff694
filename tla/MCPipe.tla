------------------------------- MODULE MCPipe -------------------------------
\* Values of the constants of Pipe for TLC.
EXTENDS Pipe

MCSems == {SemR, SemW}
MCInitValue == [s \in Sems |-> 0]
=============================================================================
