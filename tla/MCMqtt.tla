------------------------------- MODULE MCMqtt -------------------------------
(* A small instance of Mqtt: two brokers, two prefixes, two states.         *)
EXTENDS Mqtt

CONSTANTS b1, b2, home, den, show

MCHosts  == {b1, b2}
MCAnnounced == {b2}
MCTopics == {home, den}
MCApps   == {[playing |-> TRUE, scene |-> show, rest |-> 0],
             [playing |-> FALSE, scene |-> show, rest |-> 0]}

NoChange == [enabled |-> Keep, mode |-> Keep, broker |-> Keep, port |-> Keep, prefix |-> Keep]

\* Off and on; a broker named; another one with a bad port (stored, then refused)
\* and a mode out of range; the prefix changed; manual mode, refused without a broker.
MCPatches ==
  {[NoChange EXCEPT !.enabled = FALSE],
   [NoChange EXCEPT !.enabled = TRUE, !.broker = b1],
   [NoChange EXCEPT !.broker = b2, !.port = Invalid],
   [NoChange EXCEPT !.enabled = TRUE, !.mode = Invalid],
   [NoChange EXCEPT !.mode = "haHost", !.prefix = den],
   [NoChange EXCEPT !.mode = "manual"]}
=============================================================================
