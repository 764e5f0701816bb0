----------------------------- MODULE MCSoundbox -----------------------------
(* An instance of Soundbox for TLC: MQTTEchoTask and the publisher. *)
EXTENDS Soundbox

CONSTANT publisher

BothTasks == {echo, publisher}

=============================================================================
