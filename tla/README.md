# TLA+ models of the glow tube clock

The program is the firmware of a clock with glow (IN-18 like) tubes: an STM32F10x
running FreeRTOS, a DS3231 real-time clock on I2C, an SHT10 temperature and
humidity sensor, a DM9000 ethernet chip with lwIP, a buzzer, an RGB LED, six
tubes behind HC595 latches, and a command line on the debug UART. All paths below
are relative to `src/software/src/`.

## 1. Inventory

| part | code | state | operations | model |
|---|---|---|---|---|
| settings store | `app/app_data.c` | `mData` in RAM, a page of flash, the mutex `dataSync` used as a signal | load at boot, set show times, set LED colour, save task | `DataStore`, `PersistentRecord` |
| tube display | `app/app_display.c` | `hv_state`, `lcd_pixel`, `processing`, the task's `state` | display task, `on`, `off`, `show_info`; the digit map | `Display`, `Tubes` |
| LED | `app/app_led.c` | `led_color`, three pins | blinking task, suspended and resumed by others | `Display` |
| timed events | `app/app_time.c` | the array and list of events, `ontime`, `offtime` | clock task, event check, refresh, `set_showtime`, the strokes of the hour | `TimeEvents`, `Buzzer` |
| RTC driver | `hal/hal_ds3231.c`, `mid/mid_rtc.c` | the chip's time and alarm flag, `timeSync` | read, set, alarm interrupt, `de_irq`; BCD and date checks | `TimeEvents`, `Calendar`, `Clockwork` |
| temperature and humidity | `hal/hal_sht10.c`, `mid/mid_th.c`, `app/app_th.c` | `th_data`, the sensor | measure, wait, publish, show; `th` command | `Climate`, `Tubes` |
| network server | `app/netconfig.c` | one listening and one client socket | set up, accept, receive, answer, close | `NetServer`, `NetCore` |
| command line | `mid/mid_cli.c`, `app/app_cli.c`, `hal/hal_cli.c` | input line, password state, running command | line editing, dispatch, commands | `Console`; the commands in the modules of what they change |
| UART driver | `hal/hal_uart.c`, `mid/mid_dbg.c` | two bounded queues, transmit enable | send, receive, interrupt | `Console` |
| buzzer | `app/app_buz.c` | `warning_times` | buzzer task, `set_times` | `Buzzer`, `Clockwork` |
| ethernet driver | `hal/dm9000x.c`, `Lwip-1.3.2/src/netif/ethernetif.c` | the chip's queues, `Tx_Data_Buf` | `net_phy` task, output | `NetCore`, without the registers |
| lwIP | `Lwip-1.3.2/src/{api,core}` | heap, mailboxes, core lock, netconns, pcbs, timers | the `tcpip` thread; what the sockets of the monitor call | `NetCore`, the threads only |
| I2C, board support, Kalman filter | `hal/common/i2c_bus.c`, `hal/bsp.c`, `mid/mid_kalman.c` | registers | register I/O, floating point | not modelled |
| FreeRTOS, STM32 library | `FreeRTOS`, `STMLIB` | | third party | effects only |

How the parts interact:

* `main.c:48-53` creates the tasks. Clock, display, storage, th, console and buzzer
  have priority 2 and are time sliced, so any two of them interleave at every
  statement; the LED task and `net_phy`, which polls the DM9000, have priority 1; the
  network monitor and lwIP's `tcpip` thread priority 3.
* The RTC's interrupt gives `timeSync`; the clock task waits for it with a
  timeout of 500 ms, checks the events, which call `app_display_on` and
  `app_display_off` and the buzzer, and shows the time, or `th_data`, with
  `app_display_show_info`.
* Console commands call `app_display_on/off`, `app_time_set_showtime`,
  `app_data_write_*`, `mid_rtc_set_time`, suspend and resume the LED task, read
  `th_data`, and reset the CPU.
* The display task suspends itself and the LED task when it goes dark, and is
  resumed by whoever switches it on.
* The storage task sleeps on `dataSync` until a setting has been changed.
* The th task writes `th_data`; the clock task, the console and the network
  monitor read it. The network monitor answers every request with the date and
  `th_data`.
* `net_phy` posts a received frame to the mailbox of the `tcpip` thread, which runs lwIP
  and its timers under the core lock; the monitor enters lwIP's core in its own thread
  under the same lock, but closes a connection by a message to the `tcpip` thread.
* Every task may write to the debug UART through `dbg_string`; the console's own
  output and the UART's interrupt share its transmit queue.

What is hard in it: shared variables without locks, two mutexes that are used as
signals, a check outside the critical section it belongs to, tasks that suspend
themselves or each other at any statement, an alarm whose line must be released
for the next edge to come, a flash page that is erased and rewritten while
settings change and power may fail, a sensor that may not answer, a pair of values
that is copied while others read it, static state that outlives the call it was
for, eight-bit counters, and one transmit buffer and one heap between two threads. `PROJECT.json` lists these hazards at their lines.

What makes each part correct:

* settings store: what a command changed is in flash once the storage task sleeps;
  a page is never a mixture of two records; a restart finds the last save, or a
  recognisably incomplete one;
* display: off goes dark, on wakes up, a frame that was written is shown, the
  protection of `lcd_pixel` is released again, `port_list` is indexed in bounds;
* timed events: every second is handled once, the schedule is obeyed, the alarm
  line never stays low for good;
* calendar: what is read is always a time of day, dates that exist are accepted,
  and a date that was set is counted on correctly, also over the turn of the century;
* tubes: six digits are six lit cathodes, one per tube, and they are the right time, or
  temperature and humidity in the seconds that are for them;
* temperature and humidity: a failed measurement is reported and never shown as a
  temperature; a missing sensor is reported;
* network server: every request is answered, a client that leaves makes room, no
  socket is lost;
* command line and UART: the line that is parsed is the line the user sees, no
  command survives its line, every line is answered, every queued character sent;
* buzzer: every hour is struck exactly, and silence follows;
* lwIP under the server: one thread in the core at a time, every frame freed once, no
  thread waiting for a place that only it could make, no netconn freed too early and no
  wake-up lost.

## 2. Plan

Order: the parts whose failure the user notices and no test reaches come first.

1. `DataStore` with its promise `PersistentRecord`: interleaving and power loss. Done.
2. `Display` with the LED: four tasks and three kinds of suspension. Done.
3. `TimeEvents`: interrupt, alarm and schedule. Done.
4. `Calendar`: the conversions and checks under the clock. Done.
5. `Console`: line editing, password, paging and the UART. Done.
6. `Climate`, and `NetServer` composed with it: a reader of higher priority. Done.
7. `Tubes`, composed with `Calendar` in `Clockwork` and with `Climate`: from the chip's
   registers or `th_data` over `calc_map` to the latches. Done.
8. `Buzzer`, composed with the same `Clockwork`: the counter that two tasks read, modify
   and write. Done.
9. `NetCore`: the threads of lwIP under the server. Done.
10. Proofs: safety of `DataStore`, `Display`, `TimeEvents`, `Calendar`, `Clockwork`, `Console`,
    `NetServer` and `NetCore`, with every action property. Done.

Left: the DM9000's registers and its restart code; the I2C bus; TCP's own state machine
and retransmission, which `NetCore` only uses.

## 3. Modules and the code

In every module a variable named like a C variable is that variable, a `...Pc`
variable is a task's next statement, and one action is one statement or one stretch
of statements that no other task can tell apart: one shared access, or a critical
section. Variables marked *history* in their declaration are not in the program;
they only let a property speak of the past. Operators marked *Mutant* are not part
of any specification: each is a plausible bug that one of the properties excludes.

### DataStore, PersistentRecord

`mData` and `flash` are records of four half words, the unit in which the flash is
programmed: `showon`, `showoff` and the two halves of `led_color`. `WriteShowon`,
`WriteShowoff`, `WriteLedColor` and `GiveDataSync` are the statements of
`app_data_write_showtime` and `app_data_write_led_color`; `TakeDataSync`, `StartErase`,
`EraseDone` and `ProgramHalfWord` those of `app_data_store_task`, the last under
`taskENTER_CRITICAL`, where `CliRuns` is false. `PowerLoss` and `RebootCommand` stop
the program anywhere; an erase cut short leaves every half word old or erased.
`Boot` is `app_data_init`. The model starts after the first `app_data_init`.

`dataSync` is a FreeRTOS mutex that the console gives without holding it. In this
build `configASSERT` is not defined, so the assertion of `xTaskPriorityDisinherit`
(`FreeRTOS/tasks.c:3656`) against it is not compiled and the give succeeds; with the
assertion enabled every second command during a save would stop the system.

`PersistentRecord` is what the component promises, without tasks, mutex or page: a
record in RAM, a copy in ROM that is `Broken` while it is rewritten, and a pending
change that is never forgotten. `Promise` in `DataStore` is the refinement mapping.
After a power loss on a `Broken` copy it allows any record: which mixture of old and
erased half words a boot may load then is in `DataStore`, and no promise is made of it.

### Display

The display task's `switch` is `SwitchOn` (case 0), `StartFrame` (case 1, which falls
through), `Guard` (case 2), `SetPoint`, two `CalcMap` steps (the digits are read one
after the other), `WriteData`, `DelayOver`, and `SwitchOff` and `SuspendSelf` (case 3).
`DisplayOn`/`ResumeDisplay` and `DisplayOff` are `app_display_on` and `app_display_off`,
called by the clock and the console task; `ShowInfoCheck` and `ShowInfoCopy` are
`app_display_show_info`, whose test stands outside its critical section, so that a
copy can fall into the display task's use of `lcd_pixel` in spite of `processing`: the
tubes may mix two frames until the next turn of the loop. `FrameIsShown` holds all
the same. The LED task's `LedReadColor`, `LedClamp`, `LedSet` and `LedClear` run only
while all tasks of priority 2 are blocked. `LedCommand` and `LedSwitch` are the
`led` command, which suspends the LED task wherever it is.

A frame is a model value here, for seven bytes, which `Tubes` looks into; shifting it out to the latches is a critical section
and one step. `memset` of `lcd_pixel` is one step as well: it is short, and a torn one
shows the same as a torn copy, which the model has.

### TimeEvents

`Tick` is the chip: a second passes, the alarm flag is set, and a falling line makes
the interrupt pending. `Interrupt` is `EXTI0_IRQHandler`. `InitEvent` and `InsertEvent`
are the clock task's start, with the order that `vListInsert` gives to an item whose
value was never initialised (`TIME_EVENT_DISPLAY_TIME` is inserted but not
initialised, and comes to the head of the list). `TakeTimeSync`, `TakeTimeout`,
`GetTime`, `DeIrq`, `CheckEvent` (one event), `Refresh`, which prepares the frame, and `Show`,
which passes it on, are its loop. `app_display_show_info` drops the frame while
`processing` is set (`app_display.c:211-212`), which is `Display`'s and may be so at any
time here: `Show` may therefore leave the screen as it is. `screen` is the last frame
that was taken, and `refused` records that the last one of the current second was not,
and the screen lacks it; `NoSecondIsMissed` promises the second on the screen but for
that case. The next refresh, on a time-out or an alarm, tries again, and `FrameIsShown`
of `Display` says that `processing` ends. `ShowTime` and
`SetShowtimeFields` are `app_time_set_showtime`, a field at a time.

The model starts when `mid_rtc_init` is done, and takes the alarm interrupt as enabled
in the chip: nothing in the program enables it (`mid_rtc_en_irq` is never called), the
battery-backed control register does. The event of the hour fires here without effect;
what `integer_time_beep` does is in `Buzzer`.

The system is not bound to keep up: the interrupt and the tasks may be late at any
time. The history variables `late` (the clock task was not waiting for `timeSync` when
the current second began) and `seen` (it has read the time in this second) let the
properties speak of the seconds it was in time for: `SecondInTime` is the tick that ends
such a second. That a late task may lose a second for its events (an alarm between
`GetTime` and `DeIrq`) the model shows, and no property excludes. A pass is a few I2C transfers of well under a second, so that an unloaded
system is always in time; `AlarmIsAttended` and `AlarmsGoOn` hold without it.

### Calendar

`chip` is the DS3231's seven registers. `SetTime` is the `sdate` command: `Fields` is the
cut of `atoi`'s result to `U8`, `rtc_valid_tm` the check, `Registers` the translation of
`hal_ds3231_set_time` with the byte it reads uninitialised for year 100 (`Garbage` is
what it may hold), `DateRead` that of `hal_ds3231_read_time`. `past` is the byte behind
`rtc_days_in_month`, which month 12 reads; it never changes. `Tick` is the chip's
calendar, external; what it makes at midnight of a day that does not exist is any of
`Garbage`. As the year passes from 99 to 0 it toggles the century bit, bit 7 of the
month's register (`Counted`), which `hal_ds3231_read_time` counts for 100 years (`YearRead`).
`right` is what a right clock would show, and `known` says that it began on a real date
of 2000 to 2099 (`RealDay`) and is not beyond what the chip counts right (`Covered`): the
chip takes 2100 for a leap year, so that 28 February 2100 is the last such date.
`DateIsRight` is about known dates. After a `sdate` of a day that does not exist, or of
the year 100, whose byte is garbage and whose century bit is not written, it says
nothing; `TubesShowTheTime` still does.

### Tubes, Buzzer, Clockwork

`Tubes` is `calc_map` and `write_data` as operators on a frame of six digits: `calc_map` yields
the set of outputs, which a loop sends bit by bit, `Lit` the cathodes that glow. `Buzzer`
has `warning_times` with `+=` (`integer_time_beep` reads, `set_times` writes) and `--` (`CountRead`,
`CountWrite`) each in two steps, because nothing keeps the two tasks apart. Its history
`owed` counts strokes due less beeps; `mixed` says that the two have met, or that an hour
came before the buzzer task's first statement: then a stroke more or less may sound,
which the model shows and `StrokesAreExact` exempts. `NeverUnderflows` does not.

`Clockwork` composes them with `Calendar`: `ClockTick` is the chip, `ClockLooks` the clock task
reading the time and striking, `ClockTimeout` its wait of 500 ms without an alarm,
`ClockRefresh` and `ClockShow` are `refresh_time_every_500ms`, which reads the time again,
prepares a frame of it or, in the seconds 16 to 20, 36 to 40 and 56 to 59, one of
temperature and humidity (any of `ClimateFrames`; `Climate` has which), and shows it
unless the display drops it; `ClockSet` is the `sdate` command, which may come between
the two, as the tick may. `DisplayFills` is the display task writing one digit to all of
`lcd_pixel`, which it does when the tubes go on or off; `Display` has when. The histories
`infoNew` and `pixelNew` say that a frame was prepared in the current second and from the
time as it was last set: `TubesShowTheTime` is about such frames. Its guard
`~alarm /\ adding = 0`
on the tick is a clock task that keeps up; what happens otherwise is `TimeEvents`.
`ClockSpec` is shown to implement `Calendar`'s specification. A `session` is what the user
does in one behaviour, the arguments he gives and how often.

### Climate, NetServer

A pass of the th task measures four times, because `hal_sht10_get_data` measures both
values whichever it is asked for. `Command` is `i2c_bus_write_byte`, whose acknowledge and
effect may each get lost; `LineIsLow` is the end of the wait for the data line;
`ReadTemp`, `CheckTemp` and `ReadHum` are the reads and the error paths of
`hal_sht10_get_data` and `mid_th_get_data`; `CopyTemp` and `CopyHum` are its `memcpy`, a word at
a time. `Plug` is the sensor being unplugged and plugged. `ThReadTemp` and `ThReadHum`
are the `th` command. A temperature below zero counts as an error in this code
(`mid_th.c:15`), and the model has it so. Temperatures are in tenths of a degree;
`ClimateFrame` of `Tubes` is `app_th_refresh_display`.

`NetServer` adds the network monitor and its clients. `LowerTask` is the priority: the
th and the console task run only while the monitor is `Blocked`, so that it may find a
copy half done but never runs beside one. `Accept`, `Recv`, `Answer` and `Close` are its two
loops. lwIP is external: `recv` gives 0 when the peer has closed or reset the
connection (`Lwip-1.3.2/src/api/sockets.c:526-536`), and `close` always ends here; when it
may not is `NetCore`'s `LastAck`. If the listening socket cannot be
set up, `accept` fails at once, for ever, in a task of the highest priority: the model
has the state (`listening` false), and no lower task runs in it.

### Console

`Receive` and `Transmit` are the two branches of `USART1_IRQHandler`, `DbgString` another
task's output, `PutChar` the console's, in two steps because it queues the character
before it enables the interrupt. `EndOfLine`, `Backspace`, `Letter` and `Ignore` are state 0
of the console task (DEL is ignored, although `mid_cli.c:24` says it acts as a
backspace), `CheckPassword` states 1 and 2, `EmptyLine`, `RejectLine` and `CallHandler`
state 3 with `mid_cli_parse_command`. A string that is sent counts as one character. A
buffer without a NUL is taken to be followed by one.

`mid_cli_string_split` copies the words of a command's line to `xargv[num][index]` and
checks neither (`mid_cli.c:300-323`); only afterwards is their number compared with what
the command expects (line 259). A line with ten separators behind a command's name, or a word
of twenty characters, writes past the ten entries of `xargv` or past one of their twenty
characters. `Fits` says when it does not. When it does, what the program does then is
undefined: `Overrun` takes the console task to a state of its own, `LOST`, and the
properties of the console end there. They are promises about lines that fit.

### NetCore

Three threads: `net_phy` (`Receive`, `Input`), lwIP's `tcpip` thread (`FetchFrame`, `FetchClose`,
`Timeout`, `LockCore`, `Work` and the output of a frame), and the monitor inside `accept`,
`recv`, `send` and `close` (`Accept` to `CloseWaits`). `locked` is the core lock, `used` the frames
in lwIP's heap, `queued` and `closePosted` the thread's mailbox, and `up`, `pcb`, `op`, `token`,
`unread` and `ends` are the client's netconn: its pcb, its state, its semaphore `op_completed`
and its `recvmbox`. The disjuncts of `Work` are the callbacks of `api_msg.c`: `Connect` is
`accept_function`, `Data` and `Fin` are `recv_tcp`, `Abort` is `err_tcp`, `WriteDone` and `CloseDone` are
`sent_tcp` and `poll_tcp`, `DelConn` is `do_delconn`.

Simplifications: one client at a time (`NetServer` has those that wait); a request is one
frame; what a frame is, is chosen when it is processed; a visit to the core is one step,
except for the frames it sends, so that a late timer inside `do_write` is seen between
its sends only; the two rounds of `lwip_accept` through the lock are one; the netbuf is
freed with the unlock. Asserts are compiled out (`LWIP_NOASSERT`). Expired timers that
follow each other release the lock between them in the model, which adds behaviours.
The monitor was made by `xTaskCreate`, not `sys_thread_new`, has no timeouts in lwIP's sense,
and runs no timers while it waits.

What the model shows of the code, beyond its properties:

* `tcpip.c:466-468` says that `tcpip_apimsg_lock` "has exclusive access to lwIP core code by
  locking it". But `sys_sem_wait` (`core/sys.c:141-162`), with which the `tcpip` thread waits for
  that lock, runs the timers that expire meanwhile, without the lock: `LateTimer`. (It
  runs a timer that has already expired even when the lock is free, lines 141-145; the
  model has the case in which somebody holds it, the one that matters.)
  `CoreIsExclusive` exempts these and nothing else.
* `api_msg.c:660` says of a close that failed that "we get called again either from
  poll_tcp or from sent_tcp". If the peer's FIN comes first, `tcp_recv_null` closes the pcb,
  and the acknowledgement of that FIN frees it (`core/tcp_in.c:304-308`) without a
  callback: the monitor waits for good. This is `LastAck`, the case `pcb = "freed"` that
  `WaitersAreWoken` leaves out. It also leaves out a heap full of frames nobody reads
  (`unread = PbufMax`), in which `tcp_close` fails for want of memory until the peer gives up.
* `sent_tcp` looks at the netconn (`api_msg.c:284-285`) after `do_close_internal` has woken the
  monitor, which frees the netconn without the lock. The two threads are time sliced:
  the netconn may be gone. `ConnOutlivesUse` is about messages, operations and wake-ups.

## 4. Runs, bounds and what they show

| run | instance | what it shows |
|---|---|---|
| `data_store` | two show times, two colours | No update is lost, the page never mixes two records, a half word is never programmed twice, every command reaches the flash, and the store implements `PersistentRecord`, with power loss and reboot at any step |
| `display` | one frame, two LED colours and an invalid one, two start frames | Off is obeyed, a wake-up is obeyed, frames reach the tubes and the protection ends, dark means dark, the high voltage fits the state the display task goes on with, the colour index is in range |
| `time_events` | a day of 2 hours, 2 minutes, 2 seconds; show times 00:01, 01:01 and 255:00, the page erased at the start | A clock task that keeps up handles every second once and shows it unless the display drops the frame, obeys the schedule and a changed one; the alarm is always attended and alarms go on, however late it is |
| `clockwork` | one `sdate` of some 200 on both sides of every limit; three out of a mix of good and bad ones; two just before an hour that strikes; a second after each; the starts 31 December 2099, 31 January and 28 February 2100 | A frame of the current second shows the right time, or temperature and humidity in their seconds; dates are right from a real one on, over the turn of the century; hours are struck exactly, the buzzer falls silent |
| `console` | two letters, a buffer of 4, queues of 1, `xargv` of one word of two characters, two commands of one and two pages | The parsed line is the typed one and no command survives its line, lines are answered, queued characters are sent, as long as no line overruns `xargv` |
| `net_server` | three temperatures, one humidity, one waiting client, two requests | No failed temperature gets out, silence means fresh values, the `th` error means no data, sockets are returned, requests answered, clients dropped |
| `net_core` | the sizes of the code: 7 frames in the heap, mailboxes of 10 | The core is exclusive but for late timers, every frame is in one place, no post waits with the core locked, a netconn outlives its use, a waiting monitor gets its wake-up |

Why the bounds are enough. The settings store compares values only for equality: two
of each kind tell old from new in every field. The display handles frames uniformly,
so that one frame besides the zero and the start frame suffices; ten start frames
are shortened to two, the first and the last. The day of `TimeEvents` has every carry,
and 255 and 65535 are the wildcard and the erased page; of the two seconds of a minute
one is an event's and one is not. The dates of `Clockwork` are the limits of every
condition in `rtc_valid_tm` and in BCD, with 356 and -1 to be cut to a byte; nearly all are
a second before a carry of everything, which takes them from a second of the climate (59)
to one of the time (0). An uninitialised byte has two values, with the top bit and
without, one the length of a month and one that is none. Its hours are those around which
`integer_time_beep` changes its mind, and two in succession let strokes pile up; the word
of `warning_times` has 64 values for 2^32, more than any backlog here. Ticks and commands
are bounded, so that this run may end (`CHECK_DEADLOCK FALSE`). A console buffer of
four wraps, holds a full line, a word with a parameter, and lines on both sides of
what `xargv` takes; a queue of one is full with a character of either writer. The conditions of `mid_th.c` and `th` distinguish
temperatures below, at and above zero only; two requests let `recv` take one or both.
`net_core` needs no reduction: a frame takes 536 bytes of a heap of 4 KB at least, which
makes 7, and `archMESG_QUEUE_LENGTH` (`arch/sys_arch.c:42`) is 10 whatever size is asked for. Seven
frames, an end of file and an error are nine entries: this is why `PostsNeverBlock`.

Five runs look for a violation and find it; each states what a text of the
repository promises:

| run | promise | what the code does |
|---|---|---|
| `display_led_off` | the `led` help, `app_cli.c:24` | `led X 0` suspends the LED task between its set and its reset of the pin: the LED stays lit |
| `display_working` | "Lcd display task is working.", `app_cli.c:273` | `lcd 1` during the last delay before the display task suspends itself is lost |
| `time_events_off2` | "off 08:40", `app_time.c:224` | `valid_num` counts five initialised events, the list has six: the last is never looked at |
| `calendar_sdate` | `D[1,31]`, `app_cli.c:22` | `rtc_days_in_month` is indexed from 0 with months from 1: 29 to 31 January 2023 is refused |
| `climate_missing` | the comment of `hal_sht10.c:61` | the wait before that test has no limit: a missing sensor is never reported, and one lost command stops the task for good |

Fairness. The tasks of priority 2 are time sliced and never block where their next
action is enabled, which justifies weak fairness for each of them; the priority-3
monitor runs whenever it can; an enabled interrupt is served, and the chip ticks. Nobody
has to type, plug, connect, set the clock or cut the power: these actions have no
fairness. The LED task, of the lowest priority, has none. `NetCore` has weak fairness of
its two threads of priority 3, and strong fairness of what they take turns at: the core
lock, whose queue FreeRTOS serves; the mailbox, which is first in, first out; and the
timers, which run in their time. It also assumes that no handler sends frames without
end, and that a close which `poll_tcp` repeats succeeds at some time as long as the heap
is not full of frames nobody will read. All runs assume that the network monitor does
not starve the tasks of priority 2 for ever, except `net_server`, which models it.

## 5. Proofs

Each theorem is proved for all values of the constants that satisfy the named
assumptions of its module; no other fact is used than the modules' definitions.

* `DataStore_proofs`: `IInv` joins `TypeOK`, `NoLostUpdate`, `PageIsPrefixOfRecord` and
  `OffIsReset`. `NoLostUpdate` alone is not inductive: the last program operation makes the
  page equal to `mData` only because the half words before it still are, and they are
  because no other task runs in the critical section. From `IInv` follow the type
  invariant, the two invariants, the action property `NoOverprogramming`, and that every
  step maps to a step of `PersistentRecord` or to a stutter (`ImplementsPromise`, the
  safety part; it uses `BrokenAssumption`).
* `Display_proofs`: `DisplayInv` adds to the types that the animation is not over in state 1,
  which bounds `startDis`, and `Dark`: from the switch-off on, that is before the display
  task suspends itself, nothing is lit and the LED task sleeps with its pins low, unless
  a `led` command has woken it. `DarkIsDark` follows for every interleaving. `VoltageInv` says
  that the voltage is on in the states 1 and 2 and until the switch-off of state 3, and off
  otherwise; a resume sets state 0, and finds the voltage off because of `Dark`:
  `VoltageIsRight`.
* `TimeEvents_proofs`: `AlarmIsAttended` needs only the handshake and holds for every clock and
  however late the tasks are. `PassInv` adds, for a second that began while the clock task
  waited, that at most one alarm is on its way (`OneAlarm`), that without one the current
  second has been read (`QuietIsRead`) and with one it has not (`AlarmIsNew`);
  `FrameIsNew` follows the frame of such a second from `Refresh` to `Show`, which puts it on
  the screen or sets `refused`.
  `NoSecondIsMissed` and `NoSecondTwice` follow. `TypeInv` bounds the loop over the
  events by what has been initialised and inserted before; that the fields of a show time
  fit a byte, also those of an erased page, is `ShowTimeBytes`.
  `ScheduleInv` is the loop's invariant: the events stand in the order they were inserted
  in (`Ordered`), those of the schedule have the fields of the show times unless the
  console is about to write them (`FieldsKept`), and those the loop has passed have
  decided what the display was asked (`PassDecides`). `ScheduleObeyed` follows for every
  stored and every new show time, wildcards and the erased page included; it uses
  `EventsAssumption`, that the two fixed times of the code are no wildcards.
* `Tubes_proofs`: the outputs of two tubes never overlap for digits 0 to 9
  (`DigitsAreLit`), and two digits are read as the number they came from.
* `Clockwork_proofs`, first about `Calendar`: `Holds` says that hour, minute and second are
  BCD codes of a time of day. BCD round-trips on 0 to 99 (`BcdRoundTrip`), so every set and every tick keeps
  `Holds`, also a midnight at which the day is lost; `EveryReadIsATime` follows for every
  argument of `sdate` and every content of the uninitialised bytes. `RightInv` says that the
  chip holds the codes of `right`, century bit and all, while `right` is `known`, and its
  time of day always: `ReadsTheRightDate`. `DateReadBack` is the arithmetic of the codes,
  `CoveredIsCounted` and `SameNextDay` compare the chip's leap years with the calendar's.
  Then about the composition: every step is one of `Calendar` or leaves its variables alone (`ImplementsCalendar`), so that `Calendar`'s theorems hold here; with the
  lemmas on `Tubes` they give `TubesAreRight`, by `FrameInv`: the frame that is prepared and the
  one that is shown suit the time the chip holds until a tick or `sdate` makes them old.
  `CountInv` says that the buzzer task decrements
  only what it has seen above 0 and that nothing but itself lowers: `NoEndlessBeeping`.
  `OwedInv` accounts for each stroke in `warning_times`, in the two tasks' registers and in
  the beep that sounds: `StrokesSound`.
* `Console_proofs`: `ConsoleInv` joins to the types three facts. `LineInv`: as long as the line
  has not filled the buffer, the buffer holds what was typed and NULs from there to its
  end; a backspace keeps it because it writes the NUL, a full line breaks it for good
  until the next one. `CmdInv`: a command is under way only in a line that is not empty,
  and between two of its pages. `UartInv`: the console enables the transmit interrupt only
  after it has queued a character, and nobody else disables it with one queued. A step to `LOST`
  keeps all three. From these, `TypedIsParsed` and `NoCharacterForgotten`, for every size of buffer and queues;
  they use that NUL is no letter and the empty sequence no command.
* `NetServer_proofs`: `TempInv` says that from `CheckTemp` on the pass holds a temperature that
  is not negative, and so do `th_data` and the answers; `SocketInv` that the monitor is
  in its inner loop exactly while it has a client; `FreshInv` relates the copy in progress
  to `th_data` and to what the sensor delivered. Each is kept by every action.
  `ClimateReachesTheTubes` carries `th_data` to the tubes, for values that have the digits.
* `NetCore_proofs`: one invariant, `CoreInv`. `Locking` ties the lock to the two threads'
  places, `Ends` allows one end of file for the FIN and one for the loss of the pcb, so
  that with `PbufsAreOwned`, which bounds the frames in `recvmbox` by the heap,
  `PostsNeverBlock` is a sum: `PbufMax + 2 <= MboxLen` (`MboxAssumption`). `Closing` says that a close
  is posted once, is in one place, and that nothing else is owed to the netconn then.
  `OwedInv` adds which operation the netconn is in when the monitor waits for which
  wake-up (`Operations`); `WaitersAreOwed` is the safety half of `WaitersAreWoken`: whoever waits
  has its token, or somebody is left who will give it.

Every invariant and every action property of the passing runs is the subject of a
theorem. Only model-checked are the liveness properties (`CommandReachesFlash`,
`SwitchingIsObeyed`, `FrameIsShown`, `NewTimeIsObeyed`, `AlarmsGoOn`, `SilenceReturns`,
`ClientsAreServed`, `WaitersAreWoken`, `LinesAreAnswered`, `QueuedIsSent`) and the liveness part
of the refinement: liveness under fairness is beyond the proof system that is used.

`QueueIsAttended` and `WakeUpIsOwed` are proved and not in a run: a lasting failure of them
is one of `QueuedIsSent` and `WaitersAreWoken`, which TLC checks. Nor are `TimeOfDayInRange`
and `ClimateIsShown`: a time out of range would be a frame that `TubesShowTheTime` refuses,
and the second is about the same operators as it.

## 6. Not modelled

* A humidity of 100 %: its tens digit is 10. `calc_map` tests `src[tube]` but shows
  `src[5 - tube]` (`app_display.c:82-84`), contrary to its comments (lines 67-70 and 87): it
  blanks not only the tube of that digit but, at the other end, the temperature's units
  digit. The output it lights instead is the 0 of the neighbour, which is lit anyway.
  `Tubes` shows it; `ClimateIsShown` is stated for values that have the digits.
* If the listening socket cannot be set up (`netconfig.c:123`), `accept` fails at once, for
  ever, in a task of the highest priority: `NetServer` has the state, no property is about it.
* `led_color` changing between the LED's set and its reset, and the semaphore `timeSync`, a
  mutex, given from an interrupt that may come before it is stored: seen in the code,
  without a property.
* The set-up of the RTC (`mid_rtc_init`, `hal_ds3231_open`) is only the initial state; removal
  of events, alarm times, `mid_rtc_en_irq` are never called.
* I2C, pin and clock set-up: register I/O; a DS3231 transfer runs in a critical section
  and is one step.
* The DM9000's registers. Its code for a lost frame synchronisation is dead where it
  would restart the chip (`dm9000x.c:258-273`), loses the synchronisation at lines 291 and 301,
  and may poll without end at line 236; frames simply get lost in `NetCore`.
* The rest of lwIP: TCP's sequence numbers, windows and retransmission, ARP, DHCP; UDP,
  PPP, SNMP and other protocols the clock does not use. `Work` allows whatever they could
  do to the one connection.
* The Kalman filter: its only caller is commented out.
* The commands `info`, `clear`, `date`, `ip` and `top`: they only print, `top` a page per task.
* FreeRTOS and the STM32 library: third party. What a queue, a mutex, a suspension or
  a socket does is part of the actions that use it.

By far the most lines of the repository are third-party code (the STM32 library,
FreeRTOS, parts of lwIP that are not used); the models cover the application, its drivers'
control, and those parts of lwIP its behaviour depends on.
