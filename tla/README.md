# A verification project for GPSSIM

GPSSIM (`src/linux/lvl1/gpssim/gpssim.c`; the Windows copy is the same file, byte for
byte, and the Arduino sketch is the same code with `ARDUINO` defined) flies a simulated
weather balloon through a built-in table of dated waypoints. For every simulated second
it sends three NMEA sentences (RMC, GGA, GSA) to a serial port or to the console, and
it simulates the receiver too: satellites come and go, fixes are lost, and every few
hours there is a long dropout. It is built on the author's own C libraries under
`src/linux/clibrary`, of which it links `gftermio` (serial ports), `calensub`
(calendar), `obsolete` and `gflib` (strings).

The modules here model what decides which sentences are sent, and when, and whether the
characters of a port are lost, repeated or reordered; and, of the libraries that other
programs of the author link, the two with an algorithm worth checking: the recursive
directory scan of `scandir` and the keyboard ring of `xwinlite`. TLC checks them on small
instances; TLAPS proves most of the safety properties for every value of the constants.

## 1. Inventory

### The parts, their state and operations

| part | state | operations | meets |
| --- | --- | --- | --- |
| satellite list | `satarray`, `totalsats`, `flt_fixtype`, `pdop/hdop/vdop` | `clear_satellites`, `clear_dilutions`, `sim_satellites`, `random_index` | called by the script; read by the sentences |
| dropout counters | `flt_stablect`, `flt_dropoutct`, `flt_cyclect` | the branches at gpssim.c:2857-2896, once per second | decide which satellite operation a second runs |
| script and sentences | `flt_datapos`, `flt_firstpass`, `flt_last_*`, `flt_next_*`, `lsec`, `nsats` | `open_script`, `process_script`, `close_script` | calls all the others |
| real-time pacing | the machine's clock; `last_time`, `seconds_count` on the Arduino | `wait_seconds`, `seconds_elapsed`, `time` | called once per second by the script |
| calendar | `flt_firstyear`, `flt_secs_firstyear` | `date_secs`, `time_secs`, `secs_to_date`, `secs_to_time`, over calensub's `leapyr`, `juldat`, `jdvert` | turn waypoints into seconds, seconds into sentences |
| track and formatting | `flt_x*`, `flt_y*`, `flt_z*` | interpolation, regressions, `dtostrf`, checksums | fills position, speed and course fields |
| lifecycle | `portspec`, `portbaud` | `main`, `early_exit_closecom` | opens the port, runs the script, closes the port |
| gftermio, Linux | per port: descriptor, `wait_flag`, `port_data_avail`, `buf`, `oldtio`, `newtio` | `open_com_dtrrts`, `close_com`, `read_com`, `avail_com`, `write_com`, `com_string_crlf`, the SIGIO handlers | signals run between any two steps of the program |
| gftermio, DOS | per port: ring, `head`, `tail`, `com_triggered`, saved vector | the same calls, four interrupt handlers, exit and ctrl-break handlers | interrupts run between any two steps of the program |
| scandir | `dirtree_pos`, `scan_subs`, `sdir_fullname`, current directory, the C stack | `ez_dir_scanall`, `scan_dir_r` | calls four functions of the program that uses it, which may change directory |
| xwinlite, keyboard | `kbbuffer`, `kbhead`, `kbtail` | `kb_append_Xwin`, `kb_read_Xwin`, `getch_Xwin`, key and close events | the rest of xwinlite draws on X11 |
| gftermio, Windows | per port: handle, one character read ahead | the same calls | nothing runs beside the program |
| calensub, gflib, searches, lconio, wavesprt, stdprn, ... | little or none | string, list, date, console, file helpers | mostly not linked into GPSSIM |
| sqlite3, shapelib, csockets, cgraphps, winbgi | | third-party | not linked into GPSSIM |

`PROJECT.json` lists them with their sources and says for each what is modelled.

### What is hard

* *Interleaving.* The serial libraries share flags and buffers with an interrupt handler
  (DOS) or a signal handler (Linux), without locks, and close or reopen a port while
  characters come in. On Linux all ports share one handler, and signals merge.
* *Ordering inside a second.* The three sentences of one second are built one after the
  other from five variables that different branches change. That they agree is nowhere
  enforced; it is a property of the whole loop.
* *Long sequences.* A dropout begins after 783 draws of 17 seconds and lasts 830; the
  waypoints cut the flight into segments that start anywhere in this cycle.
* *Boundaries.* First and last second of a segment, empty segments, waypoints going back
  in time, a random index equal to the range, an index equal to the buffer's size, the second that
  begins a year, a millisecond clock that starts again from 0, a full keyboard ring, a
  character from 128 on in a signed char.
* *The clock.* It goes on while sentences are written, while a segment starts, and twice in
  one group on a slow line; the waits compare two readings and lose what passes between them.
* *Callbacks.* The directory scan calls itself and the program's functions from the middle
  of its loops, and shares the current directory and one path with all of them.
* *Termination.* The random loops of `sim_satellites` end only if the count and the list
  they adjust agree.

### What makes each part correct

* satellite list: the count is the number of slots in use, the fix type and dilutions are
  the ones that number supports, a redraw only adds or only removes satellites, and ends;
* dropout counters: lit and dark stretches alternate with their exact lengths, for ever,
  and any six hours hold a dropout of over ten minutes;
* script: each second of a segment is sent once and in order and no segment is passed over,
  the three sentences agree, no satellite
  is shown in a dropout and some always outside it, the script ends after the last second;
* pacing: never two groups in one second of the clock, and behind it only by what the
  program's own delays account for; the Arduino's count of seconds is exact;
* lifecycle: the port is closed once the flight is out and has had its delay, on every way
  through main, and nothing is sent to it afterwards;
* calendar: on any two years, waypoints and counted seconds meet, and every second is
  stamped with its own date and time;
* serial input: the characters a program reads are those that came in, each once, in
  order, whatever else the process opens or closes, and none is lost while the port is in use
  and read in time;
* serial ports: vectors, handlers and settings found are put back; no signal or interrupt
  meets a missing handler; a line goes out whole;
* directory scan: every entry once, inside its directory's calls, with its directory as
  current one where that can be entered; nothing missed that the limits and the permissions
  allow; the caller's directory put back;
* keyboard: keys come out whole and in order, and the request to quit before all of them.

## 2. Modules

| module | models | composed of |
| --- | --- | --- |
| `Satellites` | the satellite list | implements `SatChoice` |
| `SatChoice` | abstract: the visible set is lost, or re-chosen as a whole | |
| `DropoutCycle` | the three counters | implements `OutageSchedule` |
| `OutageSchedule` | abstract: LIT seconds lit, DARK seconds dark, for ever | |
| `ProcessScript` | `process_script` and the loop that calls it | extends `Satellites`, `DropoutCycle` |
| `MCProcessScript` | a small flight for TLC | |
| `Session` | `main`, `wait_seconds` and the clock around the script | extends `ProcessScript` |
| `MCSession` | a shorter flight for TLC | |
| `ArduinoClock` | `seconds_elapsed`, `time` and the polling loop of the Arduino | |
| `FlightCalendar` | the conversions between dates and instants, beside an ordinary calendar | |
| `MCFlightCalendar` | first days of flights for TLC | |
| `SerialInput` | abstract: per port a queue, each character taken once and in order; the queue of a port in use is lost only by reading too late, and its head by opening an open port | |
| `ComPortDos` | `gftiotc.c` | implements `SerialInput` |
| `MCComPortDos` | a view of the state for TLC | |
| `ComPortLinux` | `gftiolin.c` | implements `SerialInput` |
| `MCComPortLinux` | lines, rates and their bits for TLC | |
| `DirScan` | `ez_dir_scanall` and `scan_dir_r` | |
| `MCDirScan` | patterns and directories that cannot be entered or listed, for TLC | |
| `KeyBuffer` | the keyboard of `xwinlite.c` | implements `KeyDeque` |
| `KeyDeque` | abstract: a bounded queue with a request to quit that goes first | |
| `MCKeyBuffer` | keys and a view of the ring for TLC | |
| `*_proofs` | the theorems about the module they are named after; `ProcessScript_proofs` also has those about `Satellites` and `DropoutCycle` | |

### How state and actions correspond to the code

**Satellites.** `satarray` is the set of slots whose string is not empty; an ID is the
slot's own number (`sprintf(satarray[randval],"%02d",randval)`), so a set of slots says
everything. `BeginSim` is `sim_satellites` up to its loops, with every draw of
`random_index(50)`; `DeleteSat` and `AddSat` are the turns of the two `while` loops that
change something; `EndSim` is the rest. `forcenum` is a parameter that the code overwrites
before use; so does the model. `PERFECT` is `PERFECT_SAT_FIXES`; `SCALED` chooses the
`random_index` of MinGW and the Arduino, which can return `range` itself: `PAST` is the
position behind the array. `listAtCall` is a history variable.

**DropoutCycle.** One action per branch of gpssim.c:2857-2896. `phase` and `run` are
history variables: what the last second was, and for how long.

**ProcessScript.** `pc` says where `process_script` stands; `sim_satellites` runs with all
its turns between two labels (`simpc`). Instants are seconds from the start of the first
year, as `date_secs` and `time_secs` compute them. A sentence is the fields that depend on
the satellites and the second: status, time, blankness; quality, count; fix type, IDs,
dilutions. The assignment `if (nsats = 0)` at gpssim.c:2984 is modelled as it is written.

**Session.** A run of the program: `main` up to `open_script`, the steps of `ProcessScript`,
`main` after it, and the exit handler. `Arguments` are the numbers the first argument may
read as; without an argument they are read from a buffer nothing has written
(gpssim.c:3129), and may be any. A port that does not open ends the program. `Tick` is the
machine's clock, at any moment; `wait_seconds` only compares two readings, so of the clock
there is only `changed`, whether it has moved since the last one. `WaitForClock` is the
wait at gpssim.c:2813-2829 that every second with a group goes through. `since` is
history: clock changes since a group was begun, and then since the script's end.

**ArduinoClock.** The Arduino's clock instead of the machine's: `millis()` is `Pass`, modulo
`WRAP`; `SecondsElapsed` is the whole of `seconds_elapsed`, called at the start of a segment
(`time()`) and by the loop of the segment. `MAXWORK` is the longest time the program goes
without calling it. `now`, `called`, `groups`, `groupsec`, `segments` and `late` are history.

**DirScan.** A tree is a map from entries to the directory they are in; a path is the
directory itself. `frames` is the C stack of `scan_dir_r`, with what is left of each loop.
A directory may be `locked` (`os_chdir` fails there, which sd_lin.c:1389 does not look at,
and so it does below it) or `hidden` (neither `opendir` succeeds, :1392), independently: one
that can be listed and not entered is opened, its names are looked up where the process
is, and its last two calls are made there. `Stray` is what any of the program's four functions,
`file_process` too, may do to the current directory; the code does not set it again before
the next file. A name looked up in another directory may be that of something there
(`Matches`), or of nothing (`Misses`); a namesake of another kind is left out. `calls` is
history: every call of one of the program's functions, with the current directory and
`sdir_fullname` it finds, and whether a `file_process` left the process where it was.

**KeyBuffer.** A key event with a text goes through its characters one by one (`TypeChar`),
each as the int that a signed char becomes (`Signed`); a key without one is a 0 and its
keycode. `kb_append_Xwin` adds a code at a time (`AppendCode`, `LoseCode`); `text` and
`typing` are what is left, and nothing else happens in between. The request to quit is put in
front (`QuitInFront`), whether a click on the close button asks for it (`CloseClicked`) or a
character 0xFE (`TypeQuit`). `Getch` takes one code or two, and waits while `kbhit_Xwin`
sees an empty ring or the code `KB_EMPTY`, which the character 0xFF is. `due` and `asked`
are history: the keys and requests that have yet to come out, a key as `getch` makes it
(`Shown`); `lossy` says that a full ring has lost a code.

**FlightCalendar.** The conversions are operators with the code's names; a date is its three
two-digit parts, so that printing and parsing `DDMMYY` is nothing but the two-digit year.
`FirstWaypoint` is the first date `date_secs` accepts, `Fly` the counting up of `lsec`.
`today` and `clock` are history: an ordinary calendar that goes from day to day, with the
lengths of the months but without `jultab`, day numbers or instants. `DayOfYear` keeps what
`jdvert` does with a day past the end of its year. ProcessScript's instants are this
module's; its properties say that this is a sound way to count.

**ComPortDos.** Each statement of `read_com` and `close_com_single` that touches what a
handler touches is a step; `Interrupt` is `inthandler1` to `inthandler4`, which nothing
interrupts; what stands between `disable()` and `enable()` is one step, and in
`close_com_single` the vector is put back by a step of its own (`Mask`, `Restore`). `Break` is
the ctrl-break handler, which may run at any step, inside a close too; what it broke is not
resumed. `Exit` is the exit handler, between two calls. The ring has `BUFFSIZE + 1` cells,
because both indexes run from 0 to `BUFFSIZE`: the last cell is the byte behind the array. The
variables of the file that have no initial value lie in the order they are declared, as
Turbo C lays them out, so the byte behind `intbufferN` is the first of `holdvector(N+1)`:
a character stored there spoils the saved vector (`StoredBehind`), and saving a vector spoils
the character (`SavedBehind`). `SPARE` says that this byte is not some variable's; no theorem
but one, and no run, assumes it. `vector`, `holdvector`, `intson` and `guarded` are the
vector table, the saved vectors, the UART's interrupt enable and `com_bullet_proofed`; `cut`
is history: the ports that a break found marked closed and not yet unhooked.

**SerialInput.** A port is in use (`inuse`) from the end of its open to the beginning of its
close, or of the program's exit. In use, its queue loses its head by `Take`, is overrun if it
is one of the ports that may be read too late (`LATE`), and may lose its head to a second
open (`Drop`, for `REOPENED`). `Release` empties queues only of ports that are not in use;
`NEIGHBOURS` names the ports whose opening can change a character of another.

**ComPortLinux.** `Arrive` is the driver: it queues a character and raises SIGIO, which
merges with one that is pending. `SigHandler` is whichever of the eight handlers was
installed last. The steps of `read_com`, `avail_com` and `open_com_dtrrts` are cut where a
signal can change what they use next. `used` counts descriptors, which are never closed;
`Failing` ports return -1 from `read`.

## 3. Runs

| run | instance | what it checks and shows |
| --- | --- | --- |
| `satellites` | 7 slots | any order of clears and redraws: the count is that of the list; a redraw returns, and implements `SatChoice`: the list changes as a whole, with the fix type and dilutions of its size |
| `dropout_cycle` | the program's constants 17, 831, 783 | lengths of all stretches, the promise "at least one dropout in 6 simulated hours exceeds 10 minutes", and that dropouts recur |
| `session` | 6 slots, constants 2, 4, 3, six waypoints, one back in time; screen, port, port that does not open | a whole run with dropouts and a clock that goes on at any moment: sentences agree, dropouts are dark, each second of each segment is sent once and paced by the clock, the port is closed after flight and delay, the run ends |
| `blank_fields` | as `session`, seven waypoints, the script alone | **violation** of `BlankTogether`: the assignment in a condition |
| `calendar` | first waypoints on 1 January of seven years, every hour of two years | waypoints and counted seconds meet; dates and times of all seconds but one are right |
| `new_year` | from 1 January 2010, every six hours | **violation** of `StampsValidForTwoYears`: midnight of New Year 2011 is dated 1 January 2010 |
| `dos_ports` | ports 1, 2 and 3, rings of 2 cells, 2 bytes; port 1 kept up with, the others read at any time | interrupts and ctrl-breaks between any two steps, opens and closes in any order: `read_com` gives each character once and in order, port 1 loses none while it is in use, and only the byte behind an array can change one; one port per line, own handler, no handler left but by a break inside a close |
| `dos_vectors` | ports 1 and 3 | **violation** of `VectorsRestored`: closing COM3 restores COM1's saved vector |
| `linux_ports` | ports 1 and 2, port 2 failing, port 1 also opened while open, queues of 1, 2 descriptors | characters once and in order, none lost but by a close or a refused open, no missed character, no killing signal, settings restored, lines whole |
| `dir_scan` | all trees of 4 directories and 2 files, lists of 2, 2 levels; a directory that cannot be entered, or not listed | every entry once, in its bracket and in its directory; the scan is whole, ends, and restores the directory |
| `key_buffer` | a ring of 4 codes; characters below and above 128, 0xFF, a macro with 0xFE | it is a bounded double-ended queue; requests to quit come first, keys whole and in order |
| `arduino_clock` | a clock of 16 ms, seconds of 3 ms, 40 ms | the count of seconds is exact across wraps, no two groups in one second, behind only by known delays |

### Bounds, and why they are enough

* Slots: the list has 12 positions and at most 6 satellites. With 7 slots every draw has a
  choice both when the list is full and when it is nearly empty; in the runs of the script 6
  slots are the least on which six satellites fit. The theorems hold for any number.
* `dropout_cycle` uses the real constants; the cycle has 14125 states. `RUNCAP` caps the
  history counter above the longest stretch. The runs of the script use 2, 4 and 3, which
  keep all branches: a stretch lasts 5 lit and 3 dark seconds, and the waypoints of
  `BackAndForth` (1, 4, 4, 7, 5, 10, 14) and `ShortFlight` (1, 4, 4, 7, 6, 9) make segments that
  are empty, start in a dropout, start between two draws, end in either, and go back in
  time, as the program's own script does, so that seconds come again in the next one.
* `session`: `DRAIN` is the program's 3; the arguments 1 and 9 are a port and a number that
  means the screen, which is what every number outside 1 to 8 means. The clock has no bound: a
  change is seen or has been seen, so that it may change any number of times.
* `arduino_clock`: a second of 3 ms has a first, a middle and a last one; in 40 ms a clock of
  16 wraps twice at every phase; up to 8 ms between two calls are two whole seconds and a
  rest; 3 segments may follow one another within a second or start late. The real values
  are 2^32, 1000 and any time below 2^32 - 1000; the theorems hold for them.
* `calendar` starts in 1950, 1999, 2000, 2010, 2011, 2012 and 2048: the ends of the range,
  the leap year that ends a century as first and as second year, an ordinary leap year in
  both places, and two common years. The second first time makes hours that are not full.
  Looking at one second in 3600 is no gap: the theorems hold for every step of up to a
  day, so for every second. `Fly` stops after two years, which is the span the comments
  at gpssim.c:2066 and :2262 claim; years end at 2049 (gpssim.c:2239).
* A ring of 2 cells (`BUFFSIZE` 1) wraps with every second character, and one cell of it is
  the byte behind the array; two different bytes tell an old character from a new one. Ports
  1 and 3 share a line, so that a re-opened port also meets what the other left, and port
  2's saved vector lies behind port 1's ring; port 4 adds nothing that ports 1 to 3 do not
  have between them. The theorems hold for any of the four ports and any size.
* A queue of one character and one read ahead give two pending characters per port, and
  merged signals need no more. Two descriptors let one port be reopened, or both be opened
  once, and then `open()` fails.
* `KEPTUP = {1}` in `dos_ports`: while port 1 is in use the program takes its characters
  before its ring is full, and reads the others whenever it likes. The handler never looks at
  `tail`, so a ring that fills up looks empty: all its characters are lost at once, and a
  `read_com` under way may return the one that came in last. `SerialInput` has both
  (`Overrun`), for the ports that may be late only, so that port 1 shows that the ring itself
  loses nothing.
* The view `Seen` of `dos_ports` leaves out the cells of a ring that hold no waiting character,
  which are stored to before they are read, `triggered` and `readchar`, which no step reads,
  and, when no call is under way, the port and the way back of the last one. `readchar` is
  looked at by `ImplementsInput`, but a step changes it in the same way from every state with
  the same view.
* `REOPENED = {1}` in `linux_ports`: port 1 is also opened while it is open. The refused open
  drops the character read ahead (gftiolin.c:605): `SerialInput` has this as `Drop`, and
  `LostOnlyByReopening` says that it is the only way to lose one. GPSSIM opens its port once.
* `dir_scan`: four directories make every shape from a chain to a fan. A limit of 2 entries
  and 2 levels (700 and 30 in the code) is exceeded by some of these trees and not by others;
  patterns refuse at most one entry, which may be a directory with others below it, and at
  most one directory cannot be entered, with what is below it, or cannot be listed; either may
  be the top. `Strays` is the caller's directory, as different from every directory of the scan
  as any. The names of a tree are all different but for `Matches`, which lets a name that is
  looked up elsewhere be found or not.
* `key_buffer`: four codes are a special key and two characters, or two special keys; fuller
  rings differ only in how much is in front. The texts are a character below 128, one above,
  0xFF, and a macro whose second character is 0xFE. Its view `Seen` leaves out the cells
  outside the ring's contents, which are stored to before they are read, and what the last
  `getch` returned. The theorems hold for any size and all texts.

`CHECK_DEADLOCK FALSE` is said only where the system may stop: a script or a run of GPSSIM
that is over, a DOS program that has exited, a scan that has returned, a flight at the end
of its two years, the bounded time of `arduino_clock`.

### Fairness

* `SatSpec` has weak fairness of `DeleteSat`, `AddSat`, `EndSim`. These are the turns of
  the loop that hit a usable slot. `random_index` draws uniformly from a range that holds a
  usable slot, so turns that miss for ever have probability 0; turns that miss change
  nothing and are left out. That a usable slot exists whenever a loop runs is not assumed:
  it is what `SimReturns` depends on (a mutant that loses count breaks it).
* `CycleSpec` and `ProcessScript!Spec` have weak fairness of the whole next-state relation:
  the program is one thread that blocks nowhere in what is modelled.
* `SessionSpec` has weak fairness of `Program` and of `Tick`: the same thread, and a clock
  that does not stop. Without the second, `wait_seconds` would turn for ever. Neither says
  that the program is fast: any number of clock changes may fall between two of its steps.
* `DirScan!Spec` has weak fairness of `Next`: one thread, and functions of the program that
  return. That `readdir` comes to an end is in the finite tree.
* `KeyBuffer`, `ArduinoClock`: no fairness; users need not type, and the properties are safety.
* `ComPortDos` and `ComPortLinux` have no fairness and no liveness properties: a program
  need not read, and the retry loop of `write_com` never ends on a port that always fails.

## 4. Theorems

`*_proofs` modules; every proof is checked to its last leaf. Assumptions are the named
`ASSUME`s of the modules (types and ranges of constants) and nothing else, unless the
theorem's statement has a hypothesis.

* **Satellites** (`ProcessScript_proofs`). `TypeCorrect`, `FixCorrect`, `OneDirection` hold for both
  `random_index`; `CountCorrect` and `RefinesChoice` for the one that stays in range
  (`~SCALED`). Invariant `SatInv`: the count is the cardinality of the set, and inside a
  call the list lies between the list at the call and the target. `CountMatchesList` is
  needed for the refinement, as `numsats = totalsats` says nothing of the list alone.
  `SimConverges` is the part of `SimReturns` that is safety: a loop that runs has a slot to
  draw, and each draw that hits one leaves a turn less (`TurnsLeft`).
* **DropoutCycle** (`ProcessScript_proofs`). `CycleInvariant` shows `CountersTellRun`, a closed form of the run's
  length from the counters, inductive for all constants; `RefinesSchedule` and
  `LongDropouts` are read off it. The second has hypotheses on the constants that the
  program's values meet.
* **ProcessScript.** `ScriptInvariant` proves `ScriptInv`, which joins the invariants of
  the two parts with what has been sent so far (`SatellitesInside`, `CountersInside` show
  that each step of the script is a step or stutter of the parts). It speaks of half-sent
  groups, because a group agrees only when its third sentence is out. `GroupsAgree`,
  `DarkGroupsEmpty`, `PerfectFixes`, `FlightKeepsSchedule` and `ListStable` follow, for every
  script. `GroupsAgree` says what GGA's count is in every group: that of the satellites shown
  with a fix, and 0 without one, also when GSA lists two (section 5). `SecondsInOrder` and
  `FlightIsWhole` need a second invariant, `ClockInv`, and hold for every script too, those that
  go back in time included: what is sent in order are the seconds of a segment, and a segment
  begins where the one before has ended. `PerfectFixes` (built with `PERFECT_SAT_FIXES`, no
  group is without a fix) is proved and not run.
* **Session.** `SessionInvariant` carries `ScriptInv` over: every step of a run is a step of
  the script or leaves its variables alone, so `SessionGroups` needs no new argument. Its own
  part, `SessionInv`, says that a finished wait of this second means a clock change since the
  last group (`GroupsPaced`), and that in the delay the turns that are left and the changes
  since the script's end add up to at least `DRAIN` (`ClosesLast`). A run's sentences are those
  of a script (`RunOfScript`), so what the script's theorems say holds of the whole program too:
  `SessionSchedule` (dropouts on schedule, for a build with them), `SessionListStable`,
  `SessionSecondsInOrder` and `SessionWhole` (each second of each segment sent once and in
  order, up to the last waypoint's when the script is over).
* **ArduinoClock.** `ClockInv`: `millis` and `last_time` are two true times modulo `WRAP`, and
  these are less than `WRAP` apart, as a second not yet counted and `MAXWORK` are together.
  So the difference that wraps is the true one, `last_time` is a whole number of seconds, and
  `CountCorrect`, `OneByOne` and `NotFarBehind` are facts about true times.
* **KeyBuffer.** `RefinesDeque` proves that the ring is a queue of `KB_BUFSIZE` codes, for every
  size: lemmas say what storing at the tail, in front of the head and taking one or two does
  to `Queued`, with the wrap by cases instead of a remainder. `QuitsFirst` needs `asked`
  requests at the head of the queue and none behind them, for all texts: a character 0xFE
  counts as a request, since the code makes it one.
  `KeysOut` rests on `KeysComing`: the codes of the ring, followed by those of the event at
  hand, are `asked` requests to quit and then the keys due, one behind the other, each as
  `getch` makes it of its codes (a 0 of a negative one) and where the cells of those before it end (once a code is lost, the keys due are those whose codes
  are in the ring). The cells of a number of keys are counted by a cardinality (`CellsTo`),
  and the longest prefix that `Whole` chooses exists by `LeastExists`, from the library's
  well-founded order of finite sets, where one would expect an induction.
* **DirScan.** `ScanInvariant` proves `ScanInv`, which relates the C stack to the history of
  calls: the frames are a path down the tree (`Stack`), whose directories are begun and not
  finished, and about what their loops have still to come to, nothing has been called
  (`Underway`, `Ahead`); and a call about an entry has those about the directories above it
  behind it (`Parents`), which is why a directory that is entered has nothing in it called
  yet. `CallsDue` reads off it which call a step may add, and `VisitedOnce`, `CallsNest` and
  `CallsInPlace` follow by adding calls one at a time. The last asks for the current directory of
  `file_process` and `filelist_finish` only, in a directory that can be entered and that no
  `file_process` has left before. `ScanIsWhole` is the other direction:
  nothing is missed: every directory that can be listed and is not too deep gets its last two
  calls; if it can be entered, also its files, unless a `file_process` has left it, and its
  subdirectories, of more than MAXDIRS as many as the list holds. Its invariant `WholeInv` says that of a directory that is begun, every
  entry is behind the frame or still to come (`Progress`), that the frames are as deep as the
  tree says (`OnTheWay`), that what a finished directory owed has been called (`Settled`), and
  that a scan begins and ends in the caller's directory (`BackOutside`). The depth of a directory is the number
  of directories on the way to it (`Way`), a cardinality and not a recursion; `ScanAssumption`
  asks for finitely many directories and files.
* **FlightCalendar.** `CalInvariant` proves `CalInv`: the instant is the days flown, by the
  ordinary calendar, times 86400, plus the second of the day. The table of `jultab` enters
  in `MonthsAddUp` (it adds up the months), `DayFound` shows that `jdvert` finds a day of a
  month again from its number, and `InItsYear` that the two tests of the year cut time at
  the same place but for one second. `WaypointsCorrect` and `StampsCorrect` follow, for
  every first waypoint of 1950 to 2048.
* **ComPortDos.** `ComTypeCorrect`, `PortsExclusive`, `OwnHandler`, `CleanExit`: `HookInv`
  relates, for each line, the open ports, the ports that interrupt and the vector, at every
  label of a call (`HooksFit`), says which labels go with which way back (`CallsFit`), and that a
  program that is ending has still to close every port that is hooked, but for those a break
  found half closed (`ExitCloses`). `TwoPortsRestored` proves `VectorsRestored` for ports 1 and
  2 only, and for both together only where no character can be stored in a saved vector
  (`NoneBehind`); `dos_vectors` and section 5 show why.
  `RefinesInput` proves that the rings are the queues of `SerialInput`, for every size and
  with no hypothesis about the byte behind the array: a store by a neighbour's open changes a
  character of the queue at most (`NEIGHBOURS`). The
  queue of a read under way is the character in the slot it will take, then the rest, so that
  an interrupt between the test, the move of `tail` and the load is a `Receive` or an
  `Overrun` like any other. `TakesWaiting` is the invariant it needs for the ports that are
  kept up with: where `read_com` takes a character, head and tail differ, which no interrupt
  between the test and the taking can undo.
  `RingFacts` does the wrap by cases.
* **ComPortLinux.** `LinuxInvariant` proves `LinuxInv`; `Standing` says what holds at each
  label, `HandlerReady` that whatever raises SIGIO has a handler, `SettingsKept` that an open
  port's saved settings are the original ones, `ReadAhead` and `Polling` where a waiting
  character is. `InputOnce` proves the refinement of `SerialInput`, for every set of ports
  that are opened again: a signal handled late, or by another port's handler, changes no
  queue. `LossesKnown` is proved step by step with it: what a step may do to the queue of a
  port that does not fail is in the lemma `InputStep`. `OneRateAsAsked` proves `RateAsAsked`
  for a program with one rate, as GPSSIM is; section 5 says what happens with two.

Type correctness is proved for every module with a theorem. Where the proof is the stronger
result and the run of the module has more to say, the cfg does not repeat it: `SatTypeOK`,
`FixMatchesCount`, `ListOnlyShrinksOrGrows`, `CycleTypeOK`, `TypeOK`, `SessionTypeOK`,
`CalTypeOK`, `KeyTypeOK`, `ClockTypeOK`, `LinuxTypeOK` are proved and not run.

*Only model-checked:* the liveness properties (`SimReturns`, `DropoutsRecur`, `SessionEnds`,
`ScanEnds`), which are beyond the prover. Every safety property of a passing run is a theorem.

## 5. Disagreements with comments, captures and tests

Three are runs that end in a violation, with the quoted lines under `findings`. Others met
while reading, and not made runs of:

* the scaled `random_index` (MinGW, Arduino) returns `range` itself when `rand()` returns
  `RAND_MAX` (gpssim.c:1382), against its comment (:1377): `Satellites!EveryCountedDrawIsASlot`
  fails with `SCALED = TRUE`;
* a Linux port that was opened at another rate before keeps bits of that rate, since the new
  one is or-ed into a static `newtio` (gftiolin.c:769 and :613): `ComPortLinux!RateAsAsked`
  fails with one port and the rates 4800 and 9600;
* scandir.h:36 gives `dir_process` "this dir" as current directory, and the code calls it from
  the parent, for the top from the caller's; scandir.h:42 gives `dir_finish` the parent, and the
  code calls it from the directory itself (sd_lin.c:1602). So `InPlace` asks nothing of the
  current directory of these two;
* scandir.h:283 says that `sdir_fullname` always is the directory being scanned; at
  `filelist_finish` and `dir_finish` of a directory whose pattern accepts no file it names the
  last of its subdirectories. `InPlace` asks for it in the other two functions;
* scandir.h:48 promises each `file_process` the folder of its file; a function that changes
  directory leaves it so for the next files, which are looked up there and may be missed;
* `os_chdir` is not checked (sd_lin.c:1389): a directory that can be listed and not entered has
  its names looked up in another directory, so that its files and subdirectories are missed, and
  `filelist_finish` and `dir_finish` are called there. A directory that cannot be listed
  (:1392) gets a `dir_process` and neither of these two;
* a subdirectory whose name the pattern refuses is left out with all that is in it, as are a
  701st subdirectory (sd_lin.c:1405) and a 31st level (:1374), without a sign; and
  `ez_dir_scanall` returns no value when it succeeds;
* a full keyboard ring may keep the 0 of a special key and lose its keycode
  (xwinlite.c:3203, :4090); a character typed next then comes back as a keycode;
* characters from 128 on are sign-extended (xwinlite.c:4056): the comment at :4223 has "all
  normal chars" up to 0xFF returned, and the code returns them as 0 (:4246). 0xFF is
  `KB_EMPTY`: at the head of the ring it makes `kbhit` see no key and `getch` wait, whatever is
  behind it, until a request to quit is put in front. And 0xFE is `KB_WINDOW_QUIT`: the key is
  returned before all others, as a request to quit that nobody made;
* the built-in script goes back ten minutes (`date_time[]` at gpssim.c:1883 has 105100,
  104100, 105100), so 10:41:01 to 10:51:00 is sent twice with different positions
  (`src/testdata/linux_test_20110314_no_dropouts.txt:875706` and `:877506` are both
  10:45:00), though the loop takes care (gpssim.c:2714) that no second is duplicated. The
  runs' scripts go back too; `EverySecondOnce` says what is left of the promise: no second
  comes twice within a segment or at the waypoint between two;
* without a fix GGA always says 0 satellites, because `if (nsats = 0)` assigns
  (gpssim.c:2984), while GSA, written next, lists the two that a redraw may have left:
  `GroupAgrees` has this as the code does it;
* satellite IDs are 00-11 (gpssim.c:2484), the comment at :2386 says 01-12;
* the dropout lasts 830 seconds and not the 831 of its `#define` (:117-118, :2868), because
  the second that ends it already shows a list;
* GGA and GSA go out with positions and a time when there is no fix (:2930, :2960);
* a segment asks `sim_satellites` for 4 satellites and a dropout's end for 3, and both get
  a random number (:2427);
* the rates asked for at 5, 6 or 7 bits per character are overwritten by the width
  (gftiolin.c:681-691);
* a ctrl-break inside `close_com_single` between gftiotc.c:408, where the port is marked closed,
  and :488, where its vector is put back, leaves its handler in the vector table, as
  `close_com(0)` skips ports marked closed, against :516-519; `HandlerLeftOnlyByBreak` shows that
  it is the only way;
* a ring's indexes reach the byte behind the array (gftiotc.c:151): if `holdvector(N+1)` lies
  there, a character that comes in spoils the vector saved for the next port, and the close of
  that port puts it back;
* a Linux port's descriptor is never closed (gftiolin.c:279 only restores its settings), so that
  a program that opens and closes often enough cannot open any more; `used` counts them;
* a port that fails gives its program characters that never came in: `read` returns -1 and
  `buf` is returned as it is;
* `com_triggered` may be reset with a character waiting (gftiotc.c:570-576);
* `close_com_single` (DOS) resets head and tail with interrupts on (gftiotc.c:400).

## 6. Not modelled, and the plan

Not modelled, and why:

* floating-point track and formatting: nothing in it is shared or ordered, and TLC has no
  reals;
* registers, modem lines, the screen: input and output without state of the program's own;
* the Windows serial library: nothing runs beside the program there, and its calls go straight
  to the system;
* the small libraries that GPSSIM does not link, but for the two above: string, list, matrix and
  astronomy functions without shared state;
* third-party code and copies: `sqlite3` (three copies), `shapelib`, `csockets`, `cgraphps`,
  `winbgi`, and the Windows and Arduino copies of the author's files. They are most of the
  lines of the repository, which is why the modules cover a small share of it all: the
  author's own `gpssim.c` has about 3400 lines.

What is done: the program's core (`Satellites`, `DropoutCycle`, `ProcessScript`), the serial
libraries (`ComPortDos`, `ComPortLinux`, with `SerialInput`), the calendar (`FlightCalendar`),
the whole run with its clock (`Session`, `ArduinoClock`), and two libraries of their own
(`DirScan`, `KeyBuffer`).

Left, in this order:

1. `Session` over `ComPortLinux` instead of a port that is open or closed, so that a write that
   is tried again meets the wait for the clock;
2. `BatchFile`: the include stack of gflib's `batchprocfile`;
3. the sorted lists of `searches`.
