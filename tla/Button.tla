------------------------------- MODULE Button -------------------------------
(***************************************************************************)
(* The key of the soundbox (src/main/button.c).  The interrupt handler     *)
(* ngat1 turns edges of the key into event flags, the task quec_eint_test  *)
(* measures how long a press lasts: a long one takes WIFI_EN down, a short *)
(* one takes it up, asks the server for a serial number and announces the  *)
(* network and the battery.  The level the handler reads is that of its    *)
(* own time, not that of the edge, and the task may be speaking when the   *)
(* flags come.                                                             *)
(***************************************************************************)
EXTENDS Naturals

CONSTANT LongTicks  \* a press of more ticks is long (400 in the code)

ASSUME LongTicksAssumption == LongTicks \in Nat

KEY_HIGH_FLAG == "HIGH"
KEY_LOW_FLAG == "LOW"

QL_KEY_MASK_FLAG == {KEY_HIGH_FLAG, KEY_LOW_FLAG}

\* Bound: durations are told apart up to the first long one.
MaxTicks == LongTicks + 1
Tock(n) == IF n < MaxTicks THEN n + 1 ELSE n

VARIABLES
    level,         \* of VOL_KEY_DOWN, pulled up: "LOW" while the key is held
    edge,          \* the interrupt controller remembers an edge
    isr,           \* ngat1: "idle", "reads" (interrupt disabled), "leaves"
    key_flag,      \* the event flags that are set
    task,          \* where quec_eint_test is
    event,         \* the flags its wait returned
    press_duration,\* ticks since pwrkey_ticks was taken (or since the start)
    wifi_en,       \* the level of WIFI_EN
    setup,         \* the LED task's set-up of WIFI_EN: "due", "fresh" while no
                   \* answer has come since, "old"
    \* History of the press that began last:
    held,          \* ticks the key was down
    clean,         \* each of its edges met an idle handler and a waiting task
    prompt,        \* no tick passed before its edges were dealt with
    due,           \* it was released and has had no answer
    verdict        \* the last answer: "long", "short" or "none"

key == <<level, held, clean, prompt, due>>
wifi == <<wifi_en, setup>>
vars == <<key, wifi, edge, isr, key_flag, task, event, press_duration, verdict>>

Init ==
    /\ level \in {"LOW", "HIGH"}
    /\ edge = FALSE
    /\ isr = "idle"
    /\ key_flag = {}
    /\ task = "start"
    /\ event = {}
    /\ press_duration = 0
    /\ wifi_en = "LOW"
    /\ setup = "due"
    /\ held = 0
    /\ clean = FALSE
    /\ prompt = FALSE
    /\ due = FALSE
    /\ verdict = "none"

\* Whatever the key does now is dealt with before anything else.
Attentive == ~edge /\ isr = "idle" /\ key_flag = {} /\ task = "wait"

-----------------------------------------------------------------------------
(* The key and the clock. *)

\* An edge that comes while another is remembered merges with it; whether one
\* that comes while the interrupt is disabled is remembered, the program
\* cannot know.
Latch == edge' \in (IF task = "start" THEN {FALSE}
                    ELSE IF isr = "idle" THEN {TRUE} ELSE {edge, TRUE})

Press ==
    /\ level = "HIGH"
    /\ level' = "LOW"
    /\ Latch
    /\ held' = 0
    /\ clean' = Attentive
    /\ prompt' = TRUE
    /\ due' = FALSE
    /\ UNCHANGED <<isr, key_flag, task, event, press_duration, wifi, verdict>>

KeyRelease ==
    /\ level = "LOW"
    /\ level' = "HIGH"
    /\ Latch
    /\ clean' = (clean /\ Attentive)
    /\ due' = TRUE
    /\ UNCHANGED <<isr, key_flag, task, event, press_duration, wifi, held, prompt, verdict>>

Tick ==
    /\ press_duration' = Tock(press_duration)
    /\ held' = IF level = "LOW" THEN Tock(held) ELSE held
    /\ prompt' = (prompt /\ Attentive)
    /\ UNCHANGED <<level, edge, isr, key_flag, task, event, wifi, clean, due, verdict>>

-----------------------------------------------------------------------------
(* ngat1. *)

IsrEnter ==
    /\ isr = "idle" /\ edge
    /\ isr' = "reads"
    /\ edge' = FALSE
    /\ UNCHANGED <<key_flag, task, event, press_duration, wifi, verdict, key>>

\* Mutant: the handler takes every edge for a press.
IsrReadsLow ==
    /\ isr = "reads"
    /\ key_flag' = key_flag \union {KEY_LOW_FLAG}
    /\ isr' = "leaves"
    /\ UNCHANGED <<edge, task, event, press_duration, wifi, verdict, key>>

IsrRead ==
    /\ isr = "reads"
    /\ key_flag' = key_flag \union {IF level = "LOW" THEN KEY_LOW_FLAG ELSE KEY_HIGH_FLAG}
    /\ isr' = "leaves"
    /\ UNCHANGED <<edge, task, event, press_duration, wifi, verdict, key>>

IsrLeave ==
    /\ isr = "leaves"
    /\ isr' = "idle"
    /\ UNCHANGED <<edge, key_flag, task, event, press_duration, wifi, verdict, key>>

-----------------------------------------------------------------------------
(* quec_eint_test. *)

\* ql_eint_register succeeds, or fails and the task returns.
Register ==
    /\ task = "start"
    /\ task' \in {"wait", "returned"}
    /\ UNCHANGED <<edge, isr, key_flag, event, press_duration, wifi, verdict, key>>

\* Mutant: the wait times out and the task goes on with the flags it had.
WakeTimesOut ==
    /\ task = "wait"
    /\ event' = IF key_flag # {} THEN key_flag ELSE event
    /\ key_flag' = {}
    /\ task' = "woken"
    /\ UNCHANGED <<edge, isr, press_duration, wifi, verdict, key>>

\* The wait returns what is set and clears it.
Wake ==
    /\ task = "wait" /\ key_flag # {}
    /\ event' = key_flag
    /\ key_flag' = {}
    /\ task' = "woken"
    /\ UNCHANGED <<edge, isr, press_duration, wifi, verdict, key>>

WaitFails ==
    /\ task = "wait"
    /\ task' = "returned"
    /\ UNCHANGED <<edge, isr, key_flag, event, press_duration, wifi, verdict, key>>

\* Mutant: the time of a press is taken only once.
PressedOnce ==
    /\ task = "woken" /\ event = {KEY_LOW_FLAG}
    /\ press_duration' = IF verdict = "none" THEN 0 ELSE press_duration
    /\ task' = "wait"
    /\ UNCHANGED <<edge, isr, key_flag, event, wifi, verdict, key>>

\* pwrkey_ticks = now.
Pressed ==
    /\ task = "woken" /\ event = {KEY_LOW_FLAG}
    /\ press_duration' = 0
    /\ task' = "wait"
    /\ UNCHANGED <<edge, isr, key_flag, event, wifi, verdict, key>>

\* The duration decides. A long press speaks before it takes WIFI_EN down, a
\* short one takes it up first and then queues its request and speaks.
Released ==
    /\ task = "woken" /\ event = {KEY_HIGH_FLAG}
    /\ IF press_duration > LongTicks
       THEN /\ verdict' = "long"
            /\ task' = "voldown"
            /\ wifi_en' = wifi_en
       ELSE /\ verdict' = "short"
            /\ task' = "announce"
            /\ wifi_en' = "HIGH"
    /\ due' = FALSE
    /\ setup' = IF setup = "fresh" THEN "old" ELSE setup
    /\ UNCHANGED <<edge, isr, key_flag, event, press_duration, level, held, clean, prompt>>

\* Both flags at once match neither branch.
Ignored ==
    /\ task = "woken" /\ event = QL_KEY_MASK_FLAG
    /\ task' = "wait"
    /\ UNCHANGED <<edge, isr, key_flag, event, press_duration, wifi, verdict, key>>

\* Mutant: the clip is played and the pin forgotten.
VoldownOnly ==
    /\ task = "voldown"
    /\ task' = "wait"
    /\ UNCHANGED <<edge, isr, key_flag, event, press_duration, wifi, verdict, key>>

\* PlayMP3File("voldown.mp3") comes back when the player is free.
Voldown ==
    /\ task = "voldown"
    /\ wifi_en' = "LOW"
    /\ task' = "wait"
    /\ UNCHANGED <<edge, isr, key_flag, event, press_duration, setup, verdict, key>>

\* The request, the clip of the network and the battery's clips; the request
\* is ShortPress of CommandPipeline, the clips are play_pin of BatteryWords.
Announce ==
    /\ task = "announce"
    /\ task' = "wait"
    /\ UNCHANGED <<edge, isr, key_flag, event, press_duration, wifi, verdict, key>>

-----------------------------------------------------------------------------

\* The LED task (monitor.c) takes the pin down once, 5 s after the start.
WifiSetUp ==
    /\ setup = "due"
    /\ setup' = "fresh"
    /\ wifi_en' = "LOW"
    /\ UNCHANGED <<edge, isr, key_flag, task, event, press_duration, verdict, key>>

Isr == IsrEnter \/ IsrRead \/ IsrLeave
Task == Wake \/ Pressed \/ Released \/ Ignored \/ Voldown \/ Announce

Next == Press \/ KeyRelease \/ Tick \/ Isr \/ Register \/ WaitFails \/ Task \/ WifiSetUp

\* The handler runs when it is due and the task runs. That Voldown and
\* Announce come to an end is the player's doing (AudioPlayer!SentencesEnd).
Spec == Init /\ [][Next]_vars /\ WF_vars(Isr) /\ WF_vars(Task)

-----------------------------------------------------------------------------

\* Every variable has its type.
TypeOK ==
    /\ level \in {"LOW", "HIGH"} /\ wifi_en \in {"LOW", "HIGH"}
    /\ {edge, clean, prompt, due} \subseteq BOOLEAN
    /\ setup \in {"due", "fresh", "old"}
    /\ isr \in {"idle", "reads", "leaves"}
    /\ key_flag \subseteq QL_KEY_MASK_FLAG
    /\ event \subseteq QL_KEY_MASK_FLAG
    /\ task \in {"start", "returned", "wait", "woken", "voldown", "announce"}
    /\ press_duration \in 0..MaxTicks
    /\ held \in 0..MaxTicks
    /\ verdict \in {"none", "long", "short"}

Judges == task = "woken" /\ task' \in {"voldown", "announce"}

\* A press that found the task waiting is judged by its own length, whatever
\* merged edges, ignored events and old times came before it: a stale
\* pwrkey_ticks never outlives the next press that is handled in time.
JudgedByItsLength ==
    [][Judges /\ clean /\ prompt => (task' = "voldown" <=> held > LongTicks)]_vars

\* The task gives an answer only after a release that had none, so that one
\* press never asks the server twice; an edge that comes inside the handler
\* is the only way to a second answer.
OneAnswerPerRelease == [][Judges /\ clean => due]_vars

\* A press that found the task waiting is answered, unless the key moves again
\* before that or the task has returned.
CleanReleaseIsAnswered == (due /\ clean) ~> (~due \/ ~clean \/ task = "returned")

\* WIFI_EN follows the last answer as soon as the task waits again; only the
\* LED task's late set-up of the pin can undo a short press.
WifiFollowsVerdict ==
    task = "wait" => /\ verdict = "long" => wifi_en = "LOW"
                     /\ verdict = "short" => wifi_en = "HIGH" \/ setup = "fresh"

=============================================================================
