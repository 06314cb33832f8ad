----------------------------- MODULE MCMcuLink -----------------------------
\* Bounded instances of McuLink: values for its constants.
EXTENDS McuLink, FiniteSets

MCVels == {0, 1}
MCStill == {0}

Away == [docked |-> FALSE, contact |-> FALSE, charging |-> FALSE]
\* Away, touching the terminal, docked and charging, docked without contact.
MCDocking ==
  {Away, [Away EXCEPT !.contact = TRUE],
   [docked |-> TRUE, contact |-> TRUE, charging |-> TRUE],
   [Away EXCEPT !.docked = TRUE]}

\* Every topic the node subscribes to and this module models.
MCTopics ==
  {"cmd_vel", "emergency_stop", "jig_request_motor", "jig_request_battery",
   "jig_request_imu", "odom_imu_reset_cmd", "cmd_tof", "cmd_battery_sleep",
   "docking_cmd", "charging_cmd", "cmd_remote_block"}

\* Four fields of the record are read by nothing but the send: they are moved
\* one at a time, so that the rest is explored with each of them.
OneSpare ==
  Cardinality({f \in {"reset", "charge", "imu", "tof"} :
                 tx[f] # DefaultTransmissionData[f]}) <= 1
=============================================================================
