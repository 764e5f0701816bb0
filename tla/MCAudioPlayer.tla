--------------------------- MODULE MCAudioPlayer ---------------------------
(* Instances of AudioHeard for TLC. *)
EXTENDS AudioHeard

CONSTANTS button, publisher

OneTask == {publisher}
TwoTasks == {button, publisher}

=============================================================================
