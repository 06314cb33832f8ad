-------------------------- MODULE MCTofCalibrator --------------------------
\* Bounded instances of TofCalibrator.
EXTENDS TofCalibrator

Reading == {"dead", "same", "fresh"}
MCAll == [Zone -> Reading]
=============================================================================
