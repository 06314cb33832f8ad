----------------------------- MODULE MCSocLink ------------------------------
EXTENDS SocLink, FiniteSets

MCLimit == [error |-> 4, state |-> 3, docking |-> 3, soc |-> 2]

\* Of the robot only one kind of input comes in a behaviour; then what was not
\* initialised and has nothing to do with it is taken to be at rest.
OneKind ==
  /\ Cardinality({k \in Kinds \ {"soc"} : spent[k] > 0}) <= 1
  /\ spent["error"] + spent["docking"] > 0 => robotStatus = "idle" /\ movingStatus = "idle"
  /\ spent["error"] + spent["state"] > 0 => docking = "away"
=============================================================================
