------------------------------- MODULE Climate -------------------------------
(***************************************************************************)
(* Temperature and humidity: the th task of app_th.c measures every two    *)
(* seconds through mid_th.c and hal_sht10.c and publishes the result in    *)
(* th_data; the console's th command reads it from a task of the same      *)
(* priority.  The SHT10 may be unplugged, or miss or garble a command.     *)
(*                                                                         *)
(* One pass measures four times: hal_sht10_get_data measures temperature   *)
(* and humidity whichever of the two it is asked for, and is called twice. *)
(* A measurement is an integer; the conversion of calc_sth11 is monotone   *)
(* arithmetic and its results are the sets Temps and Hums.                 *)
(***************************************************************************)
EXTENDS Tubes

CONSTANTS
    Temps,          \* temperatures the sensor may deliver, in tenths of a degree
    Hums            \* relative humidities, cut to the range 0.1 to 100

ASSUME TempsAssumption == Temps \subseteq Int
ASSUME HumsAssumption  == Hums \subseteq Nat \ {0}

VARIABLES
    alive,          \* the sensor is there
    measuring,      \* it has a command and will pull the data line low
    thPc,           \* the th task's next statement
    meas,           \* which of the pass's four measurements it is at
    err,            \* err of the running hal_sht10_get_data
    dt,             \* mid_th_get_data's dt
    thData,         \* th_data
    report,         \* the last pass ended with "Read Temperature&Humidity faild!"
    published,      \* history: th_data has been written
    cliPc,          \* the console's next statement in th
    cliTemp,        \* the temperature it has read, 0 between two calls
    answer,         \* what the last th told the user
    sure            \* history: th_data had been written when that th began

sensorVars == <<alive, measuring>>
thVars     == <<thPc, meas, err, dt, report>>
dataVars   == <<thData, published>>
thCliVars  == <<cliPc, cliTemp, answer, sure>>
climateVars == <<sensorVars, thVars, dataVars, thCliVars>>

Failed     == -1
Values     == [temp : Temps \cup {0, Failed}, hum : Hums \cup {0, Failed}]
ZeroValues == [temp |-> 0, hum |-> 0]

ClimateTypeOK ==
    /\ alive \in BOOLEAN
    /\ measuring \in BOOLEAN
    /\ thPc \in {"delay", "command", "wait", "copyTemp", "copyHum"}
    /\ meas \in 1 .. 4
    /\ err \in BOOLEAN
    /\ dt \in Values
    /\ thData \in Values
    /\ report \in BOOLEAN
    /\ published \in BOOLEAN
    /\ cliPc \in {"idle", "hum"}
    /\ cliTemp \in Temps \cup {0}
    /\ answer \in {"none", "values", "error"}
    /\ sure \in BOOLEAN

ClimateInit ==
    /\ alive \in BOOLEAN
    /\ measuring = FALSE
    /\ thPc = "delay"
    /\ meas = 1
    /\ err = FALSE
    /\ dt = ZeroValues
    /\ thData = ZeroValues
    /\ report = FALSE
    /\ published = FALSE
    /\ cliPc = "idle"
    /\ cliTemp = 0
    /\ answer = "none"
    /\ sure = FALSE

-----------------------------------------------------------------------------
(* The sensor.                                                             *)

(* A sensor that loses its power forgets the command it had.               *)
Plug ==
    /\ alive' = ~alive
    /\ measuring' = FALSE
    /\ UNCHANGED <<thVars, dataVars, thCliVars>>

-----------------------------------------------------------------------------
(* The th task.                                                            *)

BeginPass ==
    /\ thPc = "delay"
    /\ thPc' = "command"
    /\ meas' = 1
    /\ err' = FALSE
    /\ UNCHANGED <<sensorVars, dt, report, dataVars, thCliVars>>

(* i2c_bus_write_byte: without a sensor the line stays high, which is no   *)
(* acknowledge.  A disturbed line may lose the acknowledge, the command or *)
(* both.                                                                   *)
Command ==
    /\ thPc = "command"
    /\ \E ack, taken \in IF alive THEN BOOLEAN ELSE {FALSE} :
        /\ err' = (err \/ ~ack)
        /\ measuring' = taken
    /\ thPc' = "wait"
    /\ UNCHANGED <<alive, meas, dt, report, dataVars, thCliVars>>

(* The wait ends when the sensor pulls the data line low, and only then.   *)
LineIsLow(m) == thPc = "wait" /\ meas = m /\ measuring /\ measuring' = FALSE

(* Measurements 1 and 3 give the temperature; the third only corrects the  *)
(* humidity.                                                               *)
ReadTemp ==
    /\ \/ LineIsLow(1) /\ meas' = 2 /\ \E t \in Temps : dt' = [dt EXCEPT !.temp = t]
       \/ LineIsLow(3) /\ meas' = 4 /\ UNCHANGED dt
    /\ thPc' = "command"
    /\ UNCHANGED <<alive, err, report, dataVars, thCliVars>>

(* Mutant: the error of the first call is not looked at.                   *)
TempFailedNever == dt.temp < 0

(* -1 stands for an error: a temperature below zero is one, too.           *)
TempFailed == err \/ dt.temp < 0

(* The end of the call that wants the temperature.                         *)
CheckTemp ==
    /\ LineIsLow(2)
    /\ dt' = [dt EXCEPT !.temp = IF err THEN Failed ELSE dt.temp]
    /\ err' = FALSE
    /\ IF TempFailed
       THEN thPc' = "delay" /\ report' = TRUE /\ meas' = 1
       ELSE thPc' = "command" /\ meas' = 3 /\ UNCHANGED report
    /\ UNCHANGED <<alive, dataVars, thCliVars>>

(* The end of the call that wants the humidity.                            *)
ReadHum ==
    /\ LineIsLow(4)
    /\ \E h \in Hums : dt' = [dt EXCEPT !.hum = IF err THEN Failed ELSE h]
    /\ thPc' = "copyTemp"
    /\ meas' = 1 /\ err' = FALSE
    /\ UNCHANGED <<alive, report, dataVars, thCliVars>>

(* memcpy, a word at a time; it is done without the humidity, too.         *)
CopyTemp ==
    /\ thPc = "copyTemp"
    /\ thData' = [thData EXCEPT !.temp = dt.temp]
    /\ thPc' = "copyHum"
    /\ UNCHANGED <<sensorVars, meas, err, dt, report, published, thCliVars>>

(* Mutant: mid_th_get_data does not look at the humidity.                  *)
CopyHumSilently ==
    /\ thPc = "copyHum"
    /\ thData' = [thData EXCEPT !.hum = dt.hum]
    /\ published' = TRUE
    /\ report' = FALSE
    /\ thPc' = "delay"
    /\ UNCHANGED <<sensorVars, meas, err, dt, thCliVars>>

CopyHum ==
    /\ thPc = "copyHum"
    /\ thData' = [thData EXCEPT !.hum = dt.hum]
    /\ published' = TRUE
    /\ report' = (dt.hum < 0)
    /\ thPc' = "delay"
    /\ UNCHANGED <<sensorVars, meas, err, dt, thCliVars>>

-----------------------------------------------------------------------------
(* The console's th.                                                       *)

ThReadTemp ==
    /\ cliPc = "idle"
    /\ cliTemp' = thData.temp
    /\ sure' = published
    /\ cliPc' = "hum"
    /\ UNCHANGED <<sensorVars, thVars, dataVars, answer>>

(* Mutant: a temperature of zero is taken for no measurement.              *)
NoDataTempOnly(t, h) == t = 0

NoData(t, h) == t = 0 /\ h = 0

ThReadHum ==
    /\ cliPc = "hum"
    /\ answer' = IF NoData(cliTemp, thData.hum) THEN "error" ELSE "values"
    /\ cliPc' = "idle"
    /\ cliTemp' = 0
    /\ UNCHANGED <<sensorVars, thVars, dataVars, sure>>

-----------------------------------------------------------------------------
ThTask ==
    \/ BeginPass \/ Command \/ ReadTemp \/ CheckTemp \/ ReadHum
    \/ CopyTemp \/ CopyHum

ClimateNext == Plug \/ ThTask \/ ThReadTemp \/ ThReadHum

(* The two tasks are time sliced; nobody has to plug or to type.           *)
ClimateSpec ==
    /\ ClimateInit /\ [][ClimateNext]_climateVars
    /\ WF_climateVars(ThTask) /\ WF_climateVars(ThReadHum)

-----------------------------------------------------------------------------
(* Properties.                                                             *)

(* Silence means fresh values: after a pass without a report, th_data is   *)
(* what the sensor delivered in that pass, both values of it.              *)
SilenceMeansFresh ==
    thPc = "delay" /\ ~report /\ published => thData = dt /\ dt.hum # Failed

(* th says "read temperature and humidity timeout" only before the first   *)
(* values: neither a temperature of zero, nor a failed humidity, nor a     *)
(* copy in the middle of its two reads is taken for missing values.        *)
ErrorMeansNoData == answer = "error" /\ cliPc = "idle" => ~sure

(* The tubes show the temperature that th_data holds, a zero, and the      *)
(* humidity, one digit a tube and none on its neighbour.  A humidity of    *)
(* 100 has no two digits, and -1, a failed one, no digits at all.          *)
ClimateIsShown ==
    thData.temp \in 0 .. 999 /\ thData.hum \in 0 .. 99 =>
        LET latch == Latch(ClimateFrame(thData.temp, thData.hum))
        IN  /\ Pair(latch, 0) = {thData.temp \div 10}
            /\ Lit(latch, 2) = {thData.temp % 10}
            /\ Lit(latch, 3) = {0}
            /\ Pair(latch, 4) = {thData.hum}

(* "if the data line is not pulled low for long, the measurement has       *)
(* failed": a missing sensor is reported, unless it comes back.            *)
MissingSensorIsReported == (thPc = "wait" /\ ~alive) ~> (report \/ alive)

=============================================================================
