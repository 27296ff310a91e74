---------------------------- MODULE MCUserioSync ----------------------------
\* The second message is as long as a file may be.
EXTENDS UserioSync

MCSize == [n \in 1 .. MaxMessages |-> IF n = 2 THEN 2 ELSE 1]
=============================================================================
