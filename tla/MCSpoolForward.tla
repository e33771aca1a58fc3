--------------------------- MODULE MCSpoolForward ---------------------------
EXTENDS SpoolForward

MCNone == {}
MCEnds == {"end"}
MCRoom == {TRUE}
=============================================================================
