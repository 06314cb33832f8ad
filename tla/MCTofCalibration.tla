------------------------- MODULE MCTofCalibration -------------------------
\* Bounded instances of TofCalibration.
EXTENDS TofCalibration

Reading == {"dead", "same", "fresh"}
\* All zones of the sensor deliver or none does.
MCUniform == {[z \in 1..Zones |-> r] : r \in Reading}
MCBoth == {"NORMAL", "AMR_JIG"}

\* What jigs and switches mix up is followed for one calibration and the first
\* ticks, undisturbed self tests to their end.
MixedOnce == undisturbed \/ (round <= 1 /\ resetCnt <= 1)
=============================================================================
