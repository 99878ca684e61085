------------------------------- MODULE MCAgent -------------------------------
EXTENDS Agent

\* Two guests, two free addresses and one that is reserved.
CONSTANTS m1, m2, a1, a2, a3

\* The second guest's MAC address may be written in any way.
MCSpellings == {[m \in Macs |-> IF m = m2 THEN t ELSE "canonical"] : t \in Texts}
=============================================================================
