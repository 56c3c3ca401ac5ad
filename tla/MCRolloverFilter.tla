--------------------------- MODULE MCRolloverFilter ---------------------------
EXTENDS RolloverFilter

\* Five degrees to the unit.  The vehicle takes steps of 30 degrees, at which it
\* may turn over its roof either way or rest on it.
RollsAround == {6 * n : n \in -6 .. 6}
RatesAround == {-6, 0, 6}
ErrorsTried == {-1, 1}
Anything    == {-36, -12, 0, 20}
==============================================================================
