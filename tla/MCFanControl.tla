---------------------------- MODULE MCFanControl ----------------------------
\* Bounded instances of FanControl.
EXTENDS FanControl

MCTemperatures == {"cool", "warm", "hot"}
=============================================================================
