--------------------------- MODULE MCModelSession ---------------------------
EXTENDS ModelSession

CONSTANTS t1, t2

\* MaxElements binds before, with and after MaxRequests.
MCRequestSizes == {<<1, 1>>, <<2, 1>>, <<1, 2>>}
=============================================================================
