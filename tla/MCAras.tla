------------------------------- MODULE MCAras -------------------------------
\* The instance of Aras that TLC checks: one score in every band, two of them on a
\* boundary or next to one, with the contributions 0, 4 and 6 of the EDR table.
EXTENDS Aras

MCScores == {28, 50, 60, 75, 82}
MCEdrScores == {0, 62, 76}
=============================================================================
