# Formal models of the LOA LPB soundbox firmware (FW-4G)

The program is the firmware of a payment soundbox on a Quectel 4G module. A server sends it JSON
commands over MQTT; the box reads amounts of money out with MP3 clips, stores a serial number in
NOR flash, and shows with an LED whether it is connected. The program is `src/main/` (the eleven
files in `SRC_FILES` of `main/Makefile`); the other directories of `src/` are vendor examples,
headers, libraries and the files of the flash image.

## 1. Inventory

| component | source | state it keeps | operations |
|---|---|---|---|
| audio player | `mp3.c`, `PlayMP3File` in `play_amount.c` | `mp3_play_stop`, `mp3_handle` | `Play_mp3` (wait, start, set flag), `ql_Mp3PlaybackEvent` (ENDED: stop, clear flag), `mp3_init` |
| command path | `mqtt.c`, `button.c` | `mqtt_queue` (8 messages of 256 bytes), the message in hand | `messageArrived`, a short press, `mqtt_publisher_thread` with the commands PlayAmount, SET_SN, FOTA, LIST_FILE, GET_INFO and the forwarding of SN_REQUEST, `StartMQTTTask` |
| MQTT session | `mqtt.c` | `client`, `mqtt_connect`, the topics | `MQTTEchoTask`: first connection, check every 2 s, reconnection; `pub_mqtt`, `sub_mqtt` |
| status LED | `monitor.c` | `led` | `quec_timer_test`; `bat_read`, `net_status_csq` (computed on request) |
| serial number store | `flash.c`, SET_SN in `mqtt.c`, `main_app` | NOR flash at `SERIAL_ADDRESS`; `SN`, `sn_mode` in RAM | `flash_read`, `flash_write`, `nor_flash_erase`, the choice between SN and mac_id at start |
| amount reader | `play_amount_LPB.c` | none (loop variables) | `readMoney`, `sayGroup`, `sayNumber` |
| button | `button.c` | `key_flag`, `pwrkey_ticks`, the pin `WIFI_EN` (also set by the LED task) | interrupt `ngat1`, task `quec_eint_test` |
| start-up | `main.c`, `datacall_start` | `net_stt` | `main_app` |
| battery announcement | `bat_read` in `monitor.c`; `play_pin`, `NumberToWords`, `PlayWords` in `play_amount.c` | none | called on a short press |
| firmware download | `http_fota.c` | `fota_process`, `total_len`, static `recv_len` and `writen_len`, the clients, `ctx` | `ql_fota_firmware_download`, `http_response_cb`, `ftp_write_data`; built, but `update_fota` has no caller |
| debug UART | `uart_usb.c` | none | `UART_Printf`, `USARTItoa`: every line of the log (`usb_log`, inc/uart_usb.h:22) |
| JSON library | `cJSON.c`, used at mqtt.c:245-362 and monitor.c:105-121 | a tree on the heap, for one command or reply | parse, print, delete, find a member, edit the list below an array or object |
| not built | `mqtt2.c`, `pwrkey.c`, `lcd.c` | | not in `SRC_FILES` |
| SDK | every directory beside `main` | | vendor examples, headers, libraries: external |

**Who runs.** Five tasks and two callbacks share this state: `main_app`, `MQTTEchoTask`,
`mqtt_publisher_thread`, the button task and the LED task; the MQTT library's receive task calls
`messageArrived`, the audio thread calls `ql_Mp3PlaybackEvent`.

**How they interact.**

    server --MQTT--> receive task --messageArrived--> mqtt_queue --> mqtt_publisher_thread
    button task -------------SN_REQUEST-------------> mqtt_queue          |  |  |
                                                        readMoney <-------+  |  +--> pub_mqtt --> server
    button, echo, publisher, main --PlayMP3File--> Play_mp3 <--flag--> audio thread
    SET_SN --> NOR flash --> (reset) --> main_app --> SN, sn_mode --> topics of MQTTEchoTask
    MQTTEchoTask --mqtt_connect--> LED task
    publisher, LED task --text, tree--> cJSON          everybody --line--> UART_Printf

**What is hard here.** Nothing in the program takes a lock. The flag of the player is tested and
set by up to four tasks around an asynchronous call whose end is reported by a fifth thread. The
queue is created after its users, filled without waiting and without looking at the result. The
publisher can return, fault, or reset the device in the middle of its work. The session can break
between any two calls, and its state reaches the LED as a copy of a copy. Edges of the key are read
late, merge in the event flags, and are measured against a time that may belong to another press.
Counters of a download outlive it. Power can fail between
any two cells of a flash write. A parse can fail at any token and any allocation, and each level of
its recursion has to free exactly its own part. `PROJECT.json` lists each of these hazards at its line.

**What makes each part correct.** Player: one clip at a time, and waiting ends. Command path: order,
no duplicates, no loss without a reason, no confirmation of what was not done. Session: it comes
back when the link does, and a connection that hears nothing is never an accident of the
reconnection order. LED: it tells connection from outage. Store: the identity after any restart is
one that somebody set, whole. Amount reader and battery announcement: the clips mean the amount, the
level. Button: a press is judged by its own length and answered once. Download: the update is set
only for the whole firmware, and a failure can be seen. JSON library: what is well formed is accepted,
what is rejected leaves no memory behind, printing inverts parsing within its buffer, and every call
on a list does to the list what its name says. Log: the line says the arguments.

## 2. Modules

| module | models | checked by |
|---|---|---|
| `SpeakInTurn` | abstract: the clips are heard one at a time, in order, each to its end | target of `audio_single` |
| `AudioHeard` | the clips heard so far beside `AudioPlayer`, and the mapping to `SpeakInTurn` | `MCAudioPlayer`: `audio_single` |
| `AudioPlayer` | `Play_mp3`, callback, flag, callers | `MCAudioPlayer`: `audio_single`, `audio_stuck` |
| `MqttSession` | `MQTTEchoTask`, library connection, LED task | through `Soundbox` |
| `Soundbox` | `AudioPlayer` and `MqttSession` composed: the session speaks | `MCSoundbox`: `soundbox` |
| `LossyFifo` | abstract: numbered commands, in order, at most once | target of `pipeline` |
| `CommandPipeline` | queue, producers, publisher, start-up order, restarts | `MCCommandPipeline`: `pipeline`, `pipeline_reply` |
| `SerialStore` | flash, SET_SN, start | `MCSerialStore`: `serial` |
| `ReadMoney` | `readMoney` and a listener | `MCReadMoney`: `money` |
| `Button` | key, interrupt controller, `ngat1`, `quec_eint_test`, `WIFI_EN` | `button` |
| `BatteryWords` | `bat_read`, `play_pin`, `NumberToWords`, `PlayWords`, and a listener | `MCBatteryWords`: `battery` |
| `FotaDownload` | the download, its two callbacks, the server | `fota` |
| `JsonParse`, `JsonPrint` | parsing and deleting a tree; printing it | through `JsonLibrary` |
| `JsonList` | the calls that edit or search the list of an array or object | through `JsonLibrary` |
| `JsonLibrary` | the library as a caller meets it: `JsonPrint` and `JsonList` side by side | `MCJson`: `json` |
| `JsonText`, `UartPrintf` | strings read and written by cJSON; lines of the log (pure operators) | through `Conversions` |
| `Conversions` | one call of either, and its reference | `MCConversions`: `conversions` |
| `CommandPipelineProofs`, `ReadMoneyProofs`, `ConversionsProofs` | theorems about the module of that name | TLAPS |
| `FlashProofs` | theorems about `SerialStore` and `FotaDownload`, what a restart finds | TLAPS |
| `ButtonProofs` | theorems about `Button`, and about `BatteryWords`, what a short press announces | TLAPS |
| `SoundboxProofs` | theorems about `AudioPlayer`, `AudioHeard`, `MqttSession` and their composition | TLAPS |
| `JsonProofs` | theorems about `JsonList`, `JsonParse` and `JsonPrint`, stated of `JsonLibrary` | TLAPS |
| `JsonReadingProofs` | what `JsonParse` accepts and refuses, on top of `JsonProofs` | TLAPS |

### AudioPlayer
`pc[t]` is where task t is in `Play_mp3`: `wait` is the loop at mp3.c:88, `play` the call at line
102, `mark` the assignment at line 105. The four lines are four steps because another task or the
audio thread can run between any two of them. The callback's two statements (stop the clip that
`mp3_handle` names, clear the flag) are two steps, too. `EarlyEnd` says whether a clip can end
before the task that started it reaches line 105. A task's sentence has `SentenceLen` clips.
External assumptions: starting a clip while another one plays may succeed or fail; a clip that was
stopped by `ql_stop_mp3_play` does not report ENDED again.

### CommandPipeline
Commands are numbered on arrival; a command is the record of what the thread distinguishes in the
text. `publisher` is the thread's place, `main` that of `main_app` and `StartMQTTTask`. `Release` is
`ql_rtos_queue_release` without waiting: a message that finds no queue or no room is gone, which the
history variable `lost` records. `Accounted` says that a command is in one place (`Placed`) and there once
(`NoneTwice`). `Fault` covers the undefined behaviour of the thread: a NULL
argument dereferenced (lines 294, 352), `units[]` overrun, `buff` overrun; each may also go
unnoticed, so the normal action stays enabled. `Restart` is the loss of RAM. The queue is taken to
copy the whole message: its messages have a fixed size of 256 bytes and `ql_rtos_queue_create`
is what sets it. The session is an input here (`SessionUp`, `SessionDown`); its causes are in
`MqttSession`. Before the queue exists the thread's wait fails at once and it spins, which changes
nothing; the main task is taken to run all the same.

### MqttSession
`pc` follows `MQTTEchoTask`, with `r_` for the reconnecting branch. `isconnected` is the library's
field; `served` says that a receive task reads the connection, `subscribed` that the broker forwards
commands. `link` changes at will; while it is up, a call fails or a session breaks at most
`MaxGlitches` times. `monitor` and `led` are the LED task. `skipped` is a history variable: this
connection went on without a subscription.

`led` is the variable of that name; the level of the pin follows from `monitor`, the place of the LED
task between its two sleeps.

### Soundbox
`AudioPlayer` and `MqttSession` with the variable `stage` for the latter's `pc`. A step of
`MQTTEchoTask` that announces something (mqtt.c:173, 198, 210) is the session's step and a call of
`PlayMP3File` in one (`EchoSpeaks`); until `Play_mp3` has let the task go, the session makes no step
of its own (`EchoWorks`). The publisher speaks whenever it likes (`OtherSpeaks`). The clips of a task
are told apart only as far as `SentenceLen`, and at most that many of a task sound together, so that
speaking again and again stays finite.

### SerialStore
One step per flash cell, so that power can fail between any two. A cell written over another
character without an erase becomes `mix` or NUL (NOR flash only clears bits). `flash_read` is
`ReadBack` when the flash can be read; when it cannot, the error is only printed and `Boot` takes its
identity from an empty string. A serial that fills its 32-byte buffer has no terminator and may run on (`stray`).
`flaws` is a history variable: why the serial in the flash may not be whole; `snFlaws` is its value
at the last start, with "not read" when that start could not read the flash. A failed erase is not an error for the code, and is not one here.

### ReadMoney
An amount is its sequence of base-1000 digits, which is how `% 1000` and `/ 1000` take it apart, so
amounts up to 10^20 are in reach of TLC. `spoken` are the clips in order. `Heard` is the reference:
a listener who knows Vietnamese numerals and not the code. `Ear` is what is on that listener's mind
after some clips: the number heard since the last unit, and what each unit was said of. `Over` is
the call that has ended, or has read past `units[]`; there is no other way to stand still.

### Button
`edge` is what the interrupt controller remembers: edges that come together merge, and one that comes
while the handler has the interrupt disabled may or may not be remembered. `isr` has a step for each
of disable, read and enable, so that the level that is read can be newer than the edge.
`press_duration` counts from `pwrkey_ticks` (from the start before the first press). `Voldown` and
`Announce` are the task speaking, which is when edges pile up. `clean` and `prompt` are history
variables about the last press: each of its edges found handler and task idle; no tick passed while
one was on its way. `WifiSetUp` is the LED task, which sets up `WIFI_EN` 5 s after the start.

### BatteryWords
A voltage goes through `bat_read`, `NumberToWords` (kieu = 1, below 1000) and the loops of `play_pin`
and `PlayWords`, which first copies the words (`Copy`) and returns without a sound when there is no memory
for that (`CopyFails`). A clip is known by its number in `name_mp3.h` or by a word, which is not the same to
the file system. `HeardWords` is the reference, written as for `ReadMoney`.

### FotaDownload
Lengths are in pieces. `file` is what the server sends, a firmware or not (an error page is delivered
like one); `received` is what the callback got and `image` what was written. The library's part is
external: its events come in the order send, header, body, finished, with a disconnection at any
time; a callback that returns 0 ends the body. Making a client may fail, which the code does not look at, and
`ql_http_client_request` may return at any point without an event, which nobody looks at either (`early`,
a history variable). `ql_fota_image_verify` may accept the complete firmware
and nothing else. `Fault` is the use of a released client or of none, and the division by a length of 0.

### JsonParse, JsonPrint, JsonList, JsonLibrary
The text is chosen token by token while it is read, so that a run has every text of up to `MaxText`
tokens. `frames` is the recursion of `parse_array` and `parse_object`; on the way out after a failure
each frame frees its own list (`Unwind`), as the labels `fail:` do. Any allocation may fail; `why`
records it, and `wild` a node freed twice. `JsonPrint` writes the pieces of `print_value` into a
buffer of each kind (growing, brought by the caller); only the number of characters of a piece
matters. `JsonList` has the links `next` and `prev`, the names, and who owns an item (`where`). Its
callers keep to the ownership that cJSON.h asks for. In `JsonLibrary` one behaviour parses and
prints, or edits a list: the two share no state.

### JsonText, UartPrintf, Conversions
Recursion over characters is a recursive function over the places of a sequence. The characters of a JSON string are
grouped into the units that the second pass of `parse_string` reads (a plain byte, an escape, a `\uXXXX`,
and four ways to be wrong). The first pass, which looks for the closing quote and reckons the room, does not
see these units: `FirstPass` goes over their characters (`Spelled`) and skips the one behind each backslash,
those inside the four characters of a `\u` that are no digits included. A text (`IsText`) is what it finds
between two quotes. In the output of
the log a digit is its value and every other character a negative number. `Conversions` makes one
call with any input; its properties are the references: the code points meant (`CodePoints`,
`FromUtf8`), reading back, and a reader of the line (`Splits`, `ReadBack`). `IsLine` is what the
program keeps to: an argument for every conversion, no `%b`, no width beyond the 20 bytes of `s`.

## 3. Runs

Every bound is a CONSTANT with a comment. `soundbox`, `button` and `money` check for deadlock: the
first two parts never stop, and `readMoney` stops only where `Over` says so. The other runs set
`CHECK_DEADLOCK FALSE`, because the system really stops there: the sentences have been spoken (or
the player is locked up), the bounded number of commands has arrived and the device waits for more,
the level has been read out, the downloads are over, the text has been parsed and deleted, the line
written.

| run | instance | what it shows |
|---|---|---|
| `audio_single` | one task, 5 clips, clips outlast line 105 | every sentence ends, and the player implements `SpeakInTurn` for one caller |
| `audio_stuck` | two tasks, 2 clips each, no early end (violation) | the flag stays up although no clip ended early by itself: the *overlap* stops one |
| `soundbox` | MQTT task and publisher, early ends, 2 glitches | the flag stays up with nothing playing only after a clip went silent before line 105; reconnection, causes of deafness, truth of the announcement and of the LED; the reconnection loop is held up for ever only for a named reason |
| `pipeline` | queue of 2, 7 kinds of command and the button, 3 arrivals, 2 losses | order, accounting, truthful confirmations, causes of loss; the path implements `LossyFifo`; a queued command is carried out or lost, or the thread has returned or is held up in `readMoney` for good |
| `pipeline_reply` | one command (violation) | the confirmation of a nine-digit amount does not fit `buff` |
| `serial` | lengths on every side of every limit, 3 SET_SN, 1 power loss | identity after any restart is whole, never a blend, or a named flaw explains it; a confirmed serial is kept, and a device that confirmed one comes to use it, if the start could read the flash |
| `money` | 13000 amounts | what has been said at the end means the amount, only one of 10^18 or more reads past `units[]`, and no amount is stuck half-way |
| `button` | threshold of 2 ticks, any number of presses | a press the task is free for is judged by its length and answered exactly once; WIFI_EN follows the answer or the late set-up |
| `battery` | 3490..4210 mV and both extremes | the level is within 5 %, the clips asked for mean the level unless the copy of the words failed, and with the clips there are the number is not heard |
| `fota` | files of 2 and 3 pieces, 3 downloads | the update is set only for the whole firmware, an FTP retry never succeeds, what a caller sees of failures |
| `json` | texts of 8 tokens, nesting of 3; 4 items (symmetric), 3 names of which two differ in case | well-formed texts and only those are accepted, but for text behind the end, all memory is returned, printing gives the text back in a buffer that suffices; a list stays whole, a member is found, each call of either kind, by index or by name, does what it says |
| `conversions` | strings of 3 units, 4 bytes; formats of 3 parts | a JSON string is read as what it means in the room reckoned for it, one that is printed is read back, a log line says its arguments |

**Why the bounds are enough.** A queue of 2 has every fill level, and three arrivals before
the thread has taken one overflow it; the code treats all levels below full alike, and the theorems
hold for every length. Two tasks show every interleaving of a pair in `Play_mp3`; a third one adds callers that
wait, and the theorem about the lock-up holds for any number. In `SerialStore` the limits 8, 32, 39,
64 are scaled to 1, 4, 5, 7, in the same order, and serials of length 1, 2, 3, 4, 6 and 7
lie on every side of each. Three SET_SN allow a write after a flawed write after a good one.
`ReadMoney` runs every group 0..999 in both positions the code tells apart (first or not), every
sequence of up to four groups out of ten that differ in each branch, and zeros in every place of
five to seven groups. In `Button` durations are told apart up to the first long one, which is all the
code does; the theorems hold for every threshold. Three downloads are one more than it takes for
stale counters to meet a stale client, and files of 2 and 3 let a stale count hit the total exactly,
fall short and overshoot. In `soundbox` two glitches are a failure during the recovery from a failure,
and two tasks with one clip each are the race of `audio_stuck` with the session standing on it. Eight
tokens hold an array of three, an array in an object, and a failure in the second member of an object
and at every place before it (with nine, which takes three times as long and holds both members, TLC
finds no error either); a depth of 3 is exceeded by texts of that length. The default buffer of 8 has to grow for most texts, and
the sizes that callers bring lie on both sides of what it takes. Four items are a
list with a first, a last and a middle, and one to insert or replace with. `Word` is 2^16 in place of
2^32 so that TLC can count there; the code uses the width only to wrap a negative number.

**Fairness.** `AudioPlayer`: every task runs (the RTOS schedules it), a playing clip comes to its end
and the callback finishes. `CommandPipeline`: the publisher and the main task run, but `readMoney` is not
promised to return, because it waits for the player, which may be locked up (`audio_stuck`); nothing is assumed
of the session, the button or the power. `MqttSession`: both tasks run, and the keep-alive of a
connection *that has a receive task* expires when the peer is gone; nothing is assumed of the link.
`SerialStore`: the device goes on working; nothing is assumed of commands and power. `Button`: the
handler runs when it is due, and the task runs; that its clips come to an end is what `AudioPlayer`
shows for one caller. `Soundbox`: `MQTTEchoTask` and the LED task run, every task in `Play_mp3` goes
on, clips end and the callback finishes, the keep-alive as in `MqttSession`; whether the publisher
speaks is left open, and so is which of two tasks gets past the wait loop first.

## 4. Findings

- **Lock-up** (`audio_stuck`): `mp3_play_stop` is set after `ql_play_mp3` has returned, so two tasks
  can pass the wait loop together, although the comment there says that the second one waits. Their
  clips overlap, and the flag can stay set with nothing playing. The wait loop has no timeout, so the
  publisher, the button task and, once it speaks, the reconnection loop stop for good.
- **Reply buffer** (`pipeline_reply`): `buff` is one byte short for nine digits, although its
  comment says it was enlarged so as not to overflow.

The passing runs also document behaviour worth knowing: a failed subscription is never tried again
on the same connection (`DeafHasCause`), a connection whose receive task did not start is kept for
ever (second disjunct of `OutageIsNoticed`), and a serial whose write was cut short after its eighth
character is taken for a whole one at the next start (`snFlaws` in `IdentityIsWhole`). The battery level is announced without its number, for `PlayWords` looks for
clips named after words and the flash image has numbered ones (`NumberIsSilent`). SET_SN takes a
serial of 63 characters, main.h:11 reserves 10 for it. A read of the flash that fails at a start is only
printed (flash.c:84): the device then runs under `mac_id`, and listens on its topic, although the server was
told the serial ("not read" in `ConfirmedIsKept` and `IdentityFollows`). Without memory for its copy of the
words `PlayWords` returns in silence, and the announcement is "battery left, percent" (`CopyFails`). A command
that waits behind a `readMoney` that the player holds up is neither carried out nor lost (last disjunct of
`CommandsSettle`). A press during an
announcement is ignored, or its release is measured from an older press: `clean` is needed in every
property of `button`, and `prompt` in `JudgedByItsLength`. A short press in the first five seconds is
undone by the LED task (`setup = "fresh"` in `WifiFollowsVerdict`). A second FTP download can never
succeed (`FtpRetryCannotSucceed`), and over HTTP neither a write nor a verification that fails is reported, nor a request that is refused or a
client that could not be made (`SilentFailureHasCause`). The comment beside the threshold of a long press speaks of 130 ticks, the
code has 400 (button.c:71).

Of `Soundbox`: the reconnection loop, once locked out of the player, is a device that looks alive and
never comes back; `HoldUpHasCause` says when. Of the JSON library: the list of `cJSON_CreateIntArray`
and `cJSON_Duplicate` has no way from the first item to the last (an addition walks the list, and mends
it); `cJSON_AddItemReferenceToObject` loses the reference when the copy of the name fails;
a replacement by name is renamed before it is known whether there is anything to replace; the
case-sensitive search ends at a member without a name; `cJSON_Parse` accepts anything behind the value;
`\u` with characters that are not hexadecimal is read as NUL, whatever these are: a backslash among them makes
the first pass skip the character behind it, so that a bare quote can end up in the string, or a backslash
right before the closing quote, which is then read as an escaped quote and becomes the last character of the
string (the room reckoned suffices for that, too, `StringsMeanWhatIsWritten`); control characters may stand
in a string as they are, which JSON forbids; `cJSON_PrintPreallocated` asks for one
byte more than it writes. Of the log: the width of a conversion is read with `w += w*10 + d`, so that
two digits give eleven times the first plus the second; `%zu` (mqtt.c:315) ends the line; a field wider
than the 20 bytes of `s` is not printed at all (uart_usb.c:79).

## 5. Proofs

All proofs are checked by TLAPS for every value of the constants under the assumptions named in the
modules.

- **AudioPlayer** (in `SoundboxProofs`). `TypeCorrect` from the type invariant, which is inductive.
  `StuckNeedsHurry`: the strengthening says that while nothing was hurried, every task in `mark` has
  its clip playing; then setting the flag cannot leave it without a clip. `LoneNoOverlap` and
  `LoneWaitEnds` assume a single task (and no early end for the second); their invariant `LoneInv`
  ties the place of the task to what plays: in `play` nothing does, in `mark` exactly its own clip
  does, and the flag is up only with a clip or its callback. `LoneSpeaksInTurn` is the safety half of
  the refinement of `SpeakInTurn`: each step of the player starts the next clip of the abstract
  sentence, ends the one that sounds, or changes neither.
- **Soundbox.** `BoxIsASession`: each step of the composition is one of the session or leaves it alone
  (`EachStepIsTheSessions`), so that the composition implements `MqttSession!Spec`, the part without
  fairness; speaking delays the session and adds nothing to it. `SessionTypeCorrect`,
  `DeafnessHasCause` and `WelcomeIsNoLie` then follow from lemmas about steps of the session alone,
  for every bound on the glitches and any number of tasks that speak. `BoxStuckNeedsHurry` carries the
  player's invariant over to tasks that speak again and again.
- **CommandPipeline.** `TypeCorrect`; then `OrderInv`, which adds to order and accounting that
  the thread holds a message exactly while it is working on one, and that there is no thread before
  start-up (`InHand`). Accounting bounds every number by `arrived`, which keeps the queue in order
  when a new one comes; order keeps the places disjoint. Each kind of step has its lemma
  (`QuietStep`, `ReleaseStep`, `TakeStep`, `FinishStep`, `ReturnStep`, `RestartStep`), on top of
  lemmas about the numbers in a sequence after `Append` and `Tail`. `CommandsInOrder` and
  `NoCommandVanishes` follow; that no command is in two places is what order says once more (`OrderedOnce`). `AnswersAreTrue` adds `ReplyInv`: whatever the server has received is
  older than what waits and no answer yet to the command in hand (`SentBefore`), and the thread has
  acted on a command before it comes to its answer (`ActedFirst`); the order of the queue makes
  `SentBefore` survive the next `Take`. `PathIsAFifo` is the refinement of `LossyFifo`, each step
  mapped to one of its steps or to a stutter (`FifoStep`), and `LossesHaveCauses` goes through the
  steps that may add to `lost`.
- **SerialStore** (in `FlashProofs`). `TypeCorrect` needs that the first end mark which `flash_read` meets is the least of
  a set of cells, which exists because `<` on the naturals is well-founded (`LeastOf`). `FlashInv`:
  unless an erase has failed, the part of the flash that is read back
  holds the first characters of one serial and nothing else (`Content`); while it is written these are
  the k first of the target, and once confirmed all of it. `BootReads` carries this through
  `flash_read` (`ReadBackOfHolds`) into the identity; a start that cannot read the flash comes up with `Mac`
  (`UnreadIsMac`), which is whole and nobody's blend, but not the confirmed serial: `ConfirmedStays` says so. `NoBlend`, `WholeIdentity` and `ConfirmedStays`
  hold for every set of serials, every limits in that order and any number of commands and losses.
- **FotaDownload** (in `FlashProofs`). `FotaInv` keeps the counts (`Counts`: no more is written than received, no more
  received than sent), which callback runs in which mode, and what each path has left behind when it
  ends (`Trace`). `early` says that a request came back without its event, so that a download over HTTP that left nothing
  behind has one of the causes. `OnlyFirmwareIsFlagged`, `FirstFtpOrNever` and `SilenceIsExplained` follow.
- **Button.** `TypeCorrect`; then `PressInv`: a clean press has its last edge in exactly one place on
  its way (`Coming`: remembered, read, flagged, returned) or has been dealt with (`Dealt`), and while
  it is prompt the time measured equals the time held. `FreshPressJudgedRight` and `OneAnswer` are
  action properties that follow from it at the one step that judges, `Released`. `PinFollowsVerdict`
  needs only that the pin waits while "voldown" is spoken (`WifiInv`).
- **BatteryWords** (in `ButtonProofs`). `LevelIsNear` and `LevelGrows` are about `bat_read` for every voltage, from the
  bounds of the two integer divisions; `AnnouncedLevelIsNear` carries the first into the run of
  `play_pin`. `WordsSayTheLevel` and `NumberIsUnheard` share `AnnounceInv`: what has been said and what
  is still to come make up the announcement, whose words are those of the copy (`Copied`: none, if it failed). A level is a multiple of ten up to 100, so that its words
  are at most two and the listener can be followed word by word. `NumberIsUnheard` assumes of the file
  system what it is about (`NumberedDisk`): the fixed clips are there, and none is named after a word.
- **ReadMoney.** `AmountIsUnderstood`, for every amount. A proof by induction is written here as one by
  the least counterexample (`LeastOf`). `SomeoneFollows` shows with it that the recursion of `Ear` has a
  solution, `AllFollowAlike` that it has no other; so each clip adds to what was on the listener's mind
  (`EarOfOneMore`). `NumberIsHeard` adds the number of `sayNumber`, `GroupIsHeard` puts it away at its
  unit, and `MoneyInv` says that above the place `i` every group has been put away.
- **JSON lists** (in `JsonProofs`). The state has links, the properties speak of sequences. The
  invariant: there is a sequence of which the links are the links (`IsWhole`), and items outside have
  none. `FollowChain` shows that following the links then finds that sequence; the induction it needs
  (`SetInduction`) comes from the pigeonhole theorem of the library. One lemma per edit says which
  sequence the links belong to afterwards (`WholeAppend`, `DetachWhole`, `InsertWhole`,
  `ReplaceWhole`, `MadeWhole`); `ListStaysWhole` and `NamesFindMembers` follow. For
  `CallsAreTheirSequences` each kind of call has a lemma of its own (`AddingCalls`, `InsertingCalls`,
  `TakingCalls`, `ReplacingCalls`, `MakingCalls`, `OtherCalls`); those by name need that the member a name
  finds stands at one place of the list (`FoundAt`).
- **JSON memory.** `MemoryComesBack`. Nodes are numbered as the text names them, so that what
  `cJSON_Delete(n)` walks over is an interval n..e[n], each node once (`WalkListsAll`). `ParseInv`: the
  nodes not yet freed are 1..end, and each call of the recursion holds a list that ends where the
  calls inside it begin (`Nested`); a level that gives up cuts the interval at the item its list would
  have belonged to (`DeleteYoungest`, `ListPopped`).
- **JSON print.** `TextComesBack` and `NothingIsBeyond`. `SpellInv` says where in the text the tree is:
  a node begins behind the `from[m]`-th token, ends with the `to[m]`-th, and its list with the
  `until[m]`-th; one lemma per step of the parser says how these numbers go on (`ValueSpelled`,
  `OpenSpelled`, `ElementSpelled`, `CloseSpelled`, ...). Once the text is accepted, `print_value` writes
  for each node the tokens from `from[m]` to the end of its list: by induction from the youngest node
  down, because links lead to younger nodes only (`PiecesFollow`, `NodeSpells`, `TreeSpells`). Each
  piece asks `ensure` for its characters or one more (`Fitting`), so that it is written within the
  buffer (`WriteFits`), and the buffer holds the text as far as it has been spelled (`PrintedRight`).
  A buffer that never grows is compared with one that may, piece by piece (`RoomSuffices`).
- **JSON reading** (`JsonReadingProofs`). `TextsAreParsed`. `Values` is a recursion over the length of a text, and
  `WordsExist` shows with `Recursion` (see Conversions) that it has a solution. A word has the length of
  its place (`WordLengths`), so that it can be said which stretch of a text is a value and which the
  items of a list (`Says`; `ValueSaid`, `ListSaid`, `ValuesSaid`). Two invariants come first: members
  have names and items of arrays none (`NameInv`), and nothing is read past `MaxText` (`LenInv`).
  *Accepted*: with `from` and `to` of `SpellInv`, the tokens of a node are a value and those up to the
  end of its list the items of one, from the youngest node down (`TreeSaid`); the same stretches solve
  the recursion of `Printed` (`StretchSolves`), which has no other solution at a node of the tree
  (`PrintedOnce`). *Refused*: `RestInv` says that every value `v` that begins with the tokens looked at
  still fits, that is, the open lists close at places `ends[1]`, `ends[2]`, ... of `v` (`Enclosed`) and
  `v` goes on with what the parser is about to look for (`Expected`). A step that reads a token keeps
  this (`FitsOn`, `OpenedFits`, `ClosedFits`); where the parser gives up for the syntax, nothing in `v`
  could follow, so that there is no such `v` (`FitsNone`).
- **Conversions.** All of it is recursion, over units, bytes, digits and the parts of a format, forwards
  and backwards. `Recursion` shows once that such a recursion has a solution when what it says of a
  place depends on places of a lower rank only (`Unrolling` and `Iteration` are the two shapes that
  occur); `Backwards` and `Forwards` then carry what is claimed from place to place, each a proof by
  the least counterexample. `StringsAreUnderstood`: `Reading` unrolls `parse_string` into pieces of one
  or two units; a text that is read has every surrogate in a pair (`AcceptsWellFormed`), each piece is
  the UTF-8 of its code point (`EncodedPoint`, `PieceMeans`), and a piece is never longer than its
  characters less those that the first pass skips in it (`SkippedInUnit`, `RoomEnough`), for two escapes never
  begin side by side. How the first pass goes over the
  characters of any text is `Spelling` and `Scanning`. `PrintedStringsReadBack`: each byte is printed as
  a unit of the width that was reckoned and is read as itself (`EscapedUnit`), and no unit that is printed
  hides a quote from the first pass (`FindsTheEnd`). `LinesSayTheirArguments`:
  the digits that the loop of `USARTItoa` produces, reversed, have the value they came from
  (`DigitsRead`, `ItoaReadsBack`), a width of two digits is never less than what was asked for
  (`FieldIsWide`), each part of the format takes its own argument (`ArgumentsTaken`, `PartPrints`), and
  the line can be cut where the parts meet (`Cuts`). Nothing is assumed of `Word` but that it is
  positive.

Only model-checked: all liveness properties, for TLAPS has no fairness reasoning here (`SentencesEnd`
and the fairness half of `SpeaksInTurn`, `ReconnectsWhenLinkHolds`, `OutageIsNoticed`,
`LedTellsTheTruth`, `HoldUpHasCause`, `CommandsSettle`, `IdentityFollows`, `CleanReleaseIsAnswered`).
Every other property of a passing run is stated by a theorem.

## 6. Not modelled

- **JSON library:** the digits of numbers (`parse_number`, `print_number`: strtod and sprintf of a
  double); what has no caller and edits no list (`cJSON_Minify`, `cJSON_Compare`,
  `cJSON_SetValuestring`, `cJSON_InitHooks`); white space between tokens.
- **Start-up, player:** `mp3_init` and `list_dir` (run once, print); `datacall_start` beyond its result.
- **LED task:** `timer_test_cb` (the timer is not started) and `net_status_csq`, which uses `csq` even
  when `ql_nw_get_csq` has failed to set it (monitor.c:65).
- **Amount reader:** that the clips nghinty and trieuty, which play_amount_LPB.c:103 names, are not in
  the flash image; the listener of `ReadMoney` hears every clip.
- **Download:** `parse_ftp_url`, the set-up of SSL, `httpfotaTest`.
- **Debug UART:** opening the port, `UART_Putc` and `UART_Puts`, which hand bytes to the driver.
- **Formatting** of topics and replies beyond their lengths, and logging as far as it only prints.
- **Code without a caller:** `play_tien`, `play_tien_mqtt`, `re_play`, `send_at`, `flash_test_*`; the
  files that are not built (`mqtt2.c`, `pwrkey.c`, `lcd.c`).
- **SDK:** the directories beside `main` hold about four fifths of the C code. They are examples of the
  vendor for the module's interfaces, its headers and its data; none is linked into the soundbox, so
  there is no system that they are part of, and nothing to state about them.
- How the clips of announcements interleave with those of every other caller: `Soundbox` has the pair
  whose standstill matters most, `AudioPlayer` has any callers with fixed sentences.

## 7. Plan

Done: the composition `Soundbox`, the JSON library, the conversions of text; proofs for every
component, the safety of both refinements among them.

Left, in order:
1. An abstract specification for `SerialStore` (a register that survives restarts, but for the named
   flaws) and for `Button` (one answer per press), with refinement mappings.
2. Two hazards without a property: the request of a 32-character serial in its 64 bytes (button.c:85),
   for which the pipeline would have to know lengths, and the use of released download clients
   (http_fota.c:273), which waits for a caller of `update_fota`.
3. `net_status_csq`, and the digits of numbers in `cJSON.c`.
