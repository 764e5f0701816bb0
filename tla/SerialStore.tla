---------------------------- MODULE SerialStore ----------------------------
(***************************************************************************)
(* The serial number of the soundbox in NOR flash: SET_SN in               *)
(* mqtt_publisher_thread (src/main/mqtt.c) erases and writes it, confirms  *)
(* it and resets; main_app reads it at every start (src/main/main.c,       *)
(* src/main/flash.c).  Power may fail between any two cells of a write.    *)
(*                                                                         *)
(* A cell holds FF (erased), NUL, a character, or "mix": what is left of   *)
(* two different characters, because NOR flash can only clear bits.        *)
(***************************************************************************)
EXTENDS Naturals, Sequences, FiniteSets

CONSTANTS
    Serials,    \* the serial numbers the server sets: records [name, len]
    MinLen,     \* main_app wants strlen(SN) > MinLen (8 in the code)
    ReadLen,    \* FILE_CONTENT_LEN: bytes flash_read reads and SET_SN erases (32)
    ReplyRoom,  \* longest serial whose confirmation fits into buff[64] (39)
    SNLimit,    \* SET_SN refuses this length and longer (64)
    MaxSets,    \* bound on SET_SN commands
    MaxLosses   \* bound on power losses

ASSUME LimitsAssumption ==
    /\ {MinLen, ReadLen, ReplyRoom, SNLimit} \subseteq Nat
    /\ MinLen < ReadLen /\ ReadLen < ReplyRoom /\ ReplyRoom < SNLimit
ASSUME SerialsAssumption == \A s \in Serials : s.len \in Nat /\ s.name \notin {"mac", "stray"}
ASSUME SetsAssumption == MaxSets \in Nat /\ MaxLosses \in Nat

FF == <<"FF">>
NUL == <<"NUL">>
Mix == <<"mix">>
Char(s, i) == <<s.name, i>>
Whole(s) == [i \in 1..s.len |-> Char(s, i)]

Cells == 1..(SNLimit - 1)
Mac == << <<"mac", 1>> >>  \* ql_dev_get_sn; its length is not looked at
Nobody == [name |-> "mac", len |-> 0]

VARIABLES
    flash,    \* the cells from SERIAL_ADDRESS on
    pc,       \* "off", "run", "write", "written", "reset", or "dead": the
              \* publisher has returned and the rest of the device runs on
    target,   \* the serial SET_SN is writing
    k,        \* the cells of it that are written
    SN,       \* RAM: the identity of this run
    sn_mode,  \* RAM: 1 when SN came from the flash
    told,     \* history: the last serial confirmed to the server since SET_SN began
    flaws,    \* history: what went wrong with the serial in the flash
    snFlaws,  \* history: flaws when this run read it, and whether it could
    sets, losses

vars == <<flash, pc, target, k, SN, sn_mode, told, flaws, snFlaws, sets, losses>>

Init ==
    /\ flash = [i \in Cells |-> FF]
    /\ pc = "off"
    /\ target = Nobody
    /\ k = 0
    /\ SN = <<>>
    /\ sn_mode = 0
    /\ told = Nobody
    /\ flaws = {}
    /\ snFlaws = {}
    /\ sets = 0
    /\ losses = 0

\* The string flash_read returns when the flash can be read: the ReadLen cells
\* up to the first FF or NUL.
ReadBack ==
    LET ends == {i \in 1..ReadLen : flash[i] \in {FF, NUL}}
        size == IF ends = {} THEN ReadLen
                ELSE (CHOOSE i \in ends : \A j \in ends : i <= j) - 1
    IN SubSeq(flash, 1, size)

\* Mutant: one character too few is enough.
BootAcceptsShort ==
    /\ pc = "off"
    /\ pc' = "run"
    /\ IF Len(ReadBack) >= MinLen
       THEN /\ sn_mode' = 1
            /\ \/ SN' = ReadBack
               \/ Len(ReadBack) = ReadLen /\ SN' = Append(ReadBack, <<"stray", 1>>)
       ELSE sn_mode' = 0 /\ SN' = Mac
    /\ snFlaws' = flaws
    /\ UNCHANGED <<flash, target, k, told, flaws, sets, losses>>

\* main_app copies the string; without a terminator in its static buffer it
\* may run on into what lies behind.  A short one is replaced by mac_id.
TakeIdentity(text) ==
    IF Len(text) > MinLen
    THEN /\ sn_mode' = 1
         /\ \/ SN' = text
            \/ Len(text) = ReadLen /\ SN' = Append(text, <<"stray", 1>>)
    ELSE sn_mode' = 0 /\ SN' = Mac

\* flash_read prints the result of the read and returns its buffer in any case:
\* a read that fails leaves it as it was zeroed, the empty string.
Boot ==
    /\ pc = "off"
    /\ pc' = "run"
    /\ \/ TakeIdentity(ReadBack) /\ snFlaws' = flaws
       \/ TakeIdentity(<<>>) /\ snFlaws' = flaws \union {"not read"}
    /\ UNCHANGED <<flash, target, k, told, flaws, sets, losses>>

\* A serial that is too long ends the publisher.
SetSNReturns(s) ==
    /\ pc = "run"
    /\ sets < MaxSets
    /\ sets' = sets + 1
    /\ s.len >= SNLimit
    /\ pc' = "dead"
    /\ UNCHANGED <<flash, target, k, SN, sn_mode, told, flaws, snFlaws, losses>>

\* Mutant: the serial is written without an erase.
SetSNEraseForgotten(s) ==
    /\ pc = "run"
    /\ sets < MaxSets
    /\ sets' = sets + 1
    /\ s.len < SNLimit
    /\ target' = s
    /\ k' = 0
    /\ pc' = "write"
    /\ told' = Nobody
    /\ flaws' = {}
    /\ UNCHANGED <<flash, SN, sn_mode, snFlaws, losses>>

\* SET_SN begins with an erase; when it fails the command goes on all the same.
SetSNErase(s) ==
    /\ pc = "run"
    /\ sets < MaxSets
    /\ sets' = sets + 1
    /\ s.len < SNLimit
    /\ target' = s
    /\ k' = 0
    /\ pc' = "write"
    /\ told' = Nobody
    /\ \/ /\ flash' = [i \in Cells |-> IF i <= ReadLen THEN FF ELSE flash[i]]
          /\ flaws' = {}
       \/ UNCHANGED flash /\ flaws' = flaws \union {"not erased"}
    /\ UNCHANGED <<SN, sn_mode, snFlaws, losses>>

\* What a cell can hold after char is written over old.
Programmed(old, char) ==
    CASE old \in {FF, char} -> {char}
      [] old = NUL -> {NUL}
      [] OTHER -> {Mix, NUL}

WriteCell ==
    /\ pc = "write"
    /\ k < target.len
    /\ k' = k + 1
    /\ \E cell \in Programmed(flash[k + 1], Char(target, k + 1)) :
           flash' = [flash EXCEPT ![k + 1] = cell]
    /\ UNCHANGED <<pc, target, SN, sn_mode, told, flaws, snFlaws, sets, losses>>

\* flash_write returns 0.
WriteDone ==
    /\ pc = "write"
    /\ k = target.len
    /\ pc' = "written"
    /\ flaws' = flaws \union (IF target.len >= ReadLen THEN {"too long"} ELSE {})
    /\ UNCHANGED <<flash, target, k, SN, sn_mode, told, snFlaws, sets, losses>>

\* Mutant: the result of flash_write is ignored.
WriteFailsIgnored ==
    /\ pc = "write"
    /\ pc' = "written"
    /\ flaws' = flaws \union {"cut short"}
    /\ UNCHANGED <<flash, target, k, SN, sn_mode, told, snFlaws, sets, losses>>

\* flash_write returns an error: the command is over, without a word.
WriteFails ==
    /\ pc = "write"
    /\ pc' = "run"
    /\ flaws' = flaws \union {"cut short"}
    /\ UNCHANGED <<flash, target, k, SN, sn_mode, told, snFlaws, sets, losses>>

\* The confirmation is published; it may be lost, and snprintf cuts off the
\* end of a long one.
Confirm ==
    /\ pc = "written"
    /\ pc' = "reset"
    /\ \/ target.len <= ReplyRoom /\ told' = target
       \/ UNCHANGED told
    /\ UNCHANGED <<flash, target, k, SN, sn_mode, flaws, snFlaws, sets, losses>>

\* Power is off: nothing in RAM survives.
Down ==
    /\ pc' = "off"
    /\ target' = Nobody
    /\ k' = 0
    /\ SN' = <<>>
    /\ sn_mode' = 0
    /\ snFlaws' = {}
    /\ UNCHANGED <<flash, told, sets>>

\* Mutant: the device goes on without a reset.
PowerResetForgotten ==
    /\ pc = "reset"
    /\ pc' = "run"
    /\ UNCHANGED <<flash, target, k, SN, sn_mode, told, flaws, snFlaws, sets, losses>>

PowerReset == pc = "reset" /\ Down /\ UNCHANGED <<flaws, losses>>

PowerLoss ==
    /\ pc # "off"
    /\ losses < MaxLosses
    /\ losses' = losses + 1
    /\ flaws' = flaws \union (IF pc = "write" THEN {"cut short"} ELSE {})
    /\ Down

DeviceStep == Boot \/ WriteCell \/ WriteDone \/ WriteFails \/ Confirm \/ PowerReset

Next ==
    \/ DeviceStep
    \/ \E s \in Serials : SetSNReturns(s) \/ SetSNErase(s)
    \/ PowerLoss

Spec == Init /\ [][Next]_vars

\* The device works on; commands and power losses come as they come.
FairSpec == Spec /\ WF_vars(DeviceStep)

-----------------------------------------------------------------------------

Chars == {Char(s, i) : s \in Serials, i \in Cells}
Flaws == {"not erased", "cut short", "too long"}
ReadFlaws == Flaws \union {"not read"}

\* Every variable has its type.
TypeOK ==
    /\ flash \in [Cells -> Chars \union {FF, NUL, Mix}]
    /\ pc \in {"off", "run", "write", "written", "reset", "dead"}
    /\ target \in Serials \union {Nobody}
    /\ k \in 0..target.len /\ target.len < SNLimit
    /\ SN \in Seq(Chars \union {Mix, <<"mac", 1>>, <<"stray", 1>>})
    /\ sn_mode \in {0, 1}
    /\ told \in Serials \union {Nobody}
    /\ flaws \in SUBSET Flaws /\ snFlaws \in SUBSET ReadFlaws
    /\ sets \in 0..MaxSets /\ losses \in 0..MaxLosses

\* The device goes by a serial that somebody gave it, from its first to its
\* last character, unless an erase failed, a write did not end, or the serial
\* is longer than flash_read can return.
IdentityIsWhole ==
    sn_mode = 1 /\ snFlaws = {} =>
        \E s \in Serials : SN = Whole(s) /\ MinLen < s.len /\ s.len < ReadLen

\* Even after an interrupted write, the serial is never a blend of an old
\* one and a new one: that takes an erase that failed.
NeverABlend ==
    sn_mode = 1 /\ "not erased" \notin snFlaws =>
        \E s \in Serials : \A i \in 1..Len(SN) : i <= ReadLen => SN[i] = Char(s, i)

\* A serial in the supported range that was confirmed stays in the flash until
\* the next SET_SN begins: no restart and no power loss takes it away.  Every
\* run since then that could read the flash goes by it; one that could not goes
\* by mac_id, although the server was told the serial.
ConfirmedIsKept ==
    told # Nobody /\ MinLen < told.len /\ told.len < ReadLen /\ "not erased" \notin flaws =>
        /\ ReadBack = Whole(told)
        /\ pc \in {"run", "dead"} =>
               IF "not read" \in snFlaws THEN SN = Mac ELSE SN = Whole(told)

\* Once the server was told, the device comes to use the serial it was told
\* (it restarts to listen on that topic), or is given another one, or runs on
\* without having been able to read the flash.
IdentityFollows ==
    \A s \in Serials :
        told = s /\ MinLen < s.len /\ s.len < ReadLen ~>
            \/ pc \in {"run", "dead"} /\ SN = Whole(s)
            \/ pc \in {"run", "dead"} /\ "not read" \in snFlaws
            \/ told # s
            \/ "not erased" \in flaws

=============================================================================
