------------------------------- MODULE MCGlass -------------------------------
EXTENDS Glass

\* ACT and ACTION, and a letter that more than one page of letters follows.
WordListDef == {<<1>>, <<1, 2>>, <<2, 1>>, <<2, 2>>, <<2, 3, 1>>, <<2, 3, 2>>}
ShareDef == <<"x", "y", "x", "z">>
=============================================================================
