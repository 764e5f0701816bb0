--------------------------- MODULE MCBatteryWords ---------------------------
(* An instance of BatteryWords for TLC. *)
EXTENDS BatteryWords

\* Every voltage between the limits, and beyond them on both sides.
SomeVoltages == {0, 65535} \union (3490..4210)

\* The clips of the flash image (tool-FS/mp3trinh) for the battery: all of
\* name_mp3.h, none with a word for its name.
Present == {pinduoi10, pincon, phantram} \union {Named(Number[w]) : w \in DOMAIN Number}
=============================================================================
