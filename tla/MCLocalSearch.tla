--------------------------- MODULE MCLocalSearch ---------------------------
\* Two roots, one with two directories; grants that lie above, beside and
\* below a root.
EXTENDS LocalSearch

MCLines == {<<1, 1>>, <<1, 2>>, <<2, 1>>}
MCIndexes == {{}, {<<1, 1>>, <<1, 2>>}}
MCColons == {<<1, 2>>}
MCRoots == {{<<1>>, <<2>>}}
MCGrants == {{}, {<<>>}, {<<1, 1>>}}
=============================================================================
