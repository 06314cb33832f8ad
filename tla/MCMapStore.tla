----------------------------- MODULE MCMapStore -----------------------------
EXTENDS MapStore

\* Four inputs where no mapping is started; three, and no factory map, where
\* one is.
OneStory ==
  started > 0 => /\ started + uploads + jobs + losses <= 3
                 /\ robotStatus # "factory" /\ file["factorymap"] = Pair(None)
=============================================================================
