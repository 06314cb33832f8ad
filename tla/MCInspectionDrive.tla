------------------------- MODULE MCInspectionDrive -------------------------
\* Bounded instances of InspectionDrive.
EXTENDS InspectionDrive
=============================================================================
