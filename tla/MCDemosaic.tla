----------------------------- MODULE MCDemosaic -----------------------------
EXTENDS Demosaic

Dark == 4
Bright == 1023

\* A dark or bright scene with at most one sample of the other brightness: it
\* shows with which weight every sample counts in every colour.
ScenesTried(w, h) ==
  LET places == Columns(w) \X Columns(h)
  IN  {[p \in places |-> IF (p \in odd) = lit THEN Bright ELSE Dark] :
         odd \in {{}} \cup {{place} : place \in places}, lit \in BOOLEAN}

\* Rows that are too short, exact, and with two bytes of padding.
PaddingsTried == {-1, 0, 2}

\* Frames with a byte too many, whole ones, without their last byte or row.
ShortagesTried == {-1, 0, 1, 6}
=============================================================================
