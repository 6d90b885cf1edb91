--------------------------- MODULE MCAgingControl ---------------------------
EXTENDS AgingControl

StandThenWork == <<"standing", "work">>
StandTwice    == <<"standing", "standing">>
=============================================================================
