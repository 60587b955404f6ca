-------------------------- MODULE NetServer_proofs --------------------------
(* Theorems about NetServer and the measurements it sends, for every set   *)
(* of measurements the sensor may deliver and any number of clients.       *)
EXTENDS NetServer, Tubes_proofs

(* From its check on, the pass holds a temperature that is none below zero; *)
(* so do th_data and the answers.                                          *)
GoodTemps ==
    /\ dt.temp \in Int /\ thData.temp \in Int /\ sent.temp \in Int
    /\ meas \in {3, 4} \/ thPc \in {"copyTemp", "copyHum"} => dt.temp >= 0
    /\ thData.temp >= 0
    /\ sent.temp >= 0

(* The shape of the records that EXCEPT is used on.                        *)
Shapes ==
    /\ dt = [temp |-> dt.temp, hum |-> dt.hum]
    /\ thData = [temp |-> thData.temp, hum |-> thData.hum]

TempInv == GoodTemps /\ Shapes

(* The two tasks of lower priority and the sensor keep TempInv.            *)
LEMMA ClimateKeepsTemps ==
    ASSUME TempInv, ClimateNext, sent' = sent
    PROVE  TempInv'
<1> USE DEF TempInv, GoodTemps, Shapes
<1>1. CASE Plug
  BY <1>1 DEF Plug, thVars, dataVars
<1>2. CASE ThTask
  <2>1. CASE BeginPass
    BY <2>1 DEF BeginPass, dataVars
  <2>2. CASE Command
    BY <2>2 DEF Command, dataVars
  <2>3. CASE ReadTemp
    BY <2>3, TempsAssumption DEF ReadTemp, LineIsLow, dataVars
  <2>4. CASE CheckTemp
    BY <2>4 DEF CheckTemp, LineIsLow, TempFailed, Failed, dataVars
  <2>5. CASE ReadHum
    BY <2>5 DEF ReadHum, LineIsLow, dataVars
  <2>6. CASE CopyTemp
    BY <2>6 DEF CopyTemp
  <2>7. CASE CopyHum
    BY <2>7 DEF CopyHum
  <2> QED BY <1>2, <2>1, <2>2, <2>3, <2>4, <2>5, <2>6, <2>7 DEF ThTask
<1>3. CASE ThReadTemp
  BY <1>3 DEF ThReadTemp, thVars, dataVars
<1>4. CASE ThReadHum
  BY <1>4 DEF ThReadHum, thVars, dataVars
<1> QED BY <1>1, <1>2, <1>3, <1>4 DEF ClimateNext

LEMMA TempInvariance == Spec => []TempInv
<1>1. Init => TempInv
  BY DEF Init, ClimateInit, ZeroValues, TempInv, GoodTemps, Shapes
<1>2. TempInv /\ [Next]_vars => TempInv'
  <2> SUFFICES ASSUME TempInv, [Next]_vars
               PROVE  TempInv'
    OBVIOUS
  <2>1. CASE LowerTask
    BY <2>1, ClimateKeepsTemps DEF LowerTask, ClimateNext, srvVars
  <2>2. CASE Plug /\ UNCHANGED srvVars
    BY <2>2, ClimateKeepsTemps DEF ClimateNext, srvVars
  <2>3. CASE Answer
    BY <2>3 DEF Answer, TempInv, GoodTemps, Shapes, climateVars, thVars, dataVars
  <2>4. CASE UNCHANGED <<climateVars, sent>>
    BY <2>4 DEF TempInv, GoodTemps, Shapes, climateVars, thVars, dataVars
  <2> QED
    BY <2>1, <2>2, <2>3, <2>4 DEF Next, Monitor, ClientConnects, ClientSends,
       ClientLeaves, NetworkUp, ServerInit, Accept, Recv, Close, vars, srvVars
<1> QED
  BY <1>1, <1>2, PTL DEF Spec

(* Whatever the sensor delivers and however the line is disturbed, no      *)
(* failed temperature is shown or sent: mid_th_get_data publishes none,    *)
(* and a copy that the monitor interrupts has none to show.                *)
THEOREM NoFailedTemperature == Spec => []OnlyGoodTemperatures
<1>1. TempInv => OnlyGoodTemperatures
  BY DEF TempInv, GoodTemps, OnlyGoodTemperatures
<1> QED
  BY <1>1, TempInvariance, PTL

-----------------------------------------------------------------------------
(* The monitor is in its inner loop exactly while it has a client.         *)
SocketInv ==
    /\ srvPc \in {"recv", "answer", "close"} <=> conn # "none"
    /\ OneSocket

LEMMA SocketInvariance == Spec => []SocketInv
<1> USE DEF SocketInv, OneSocket
<1>1. Init => SocketInv
  BY DEF Init
<1>2. SocketInv /\ [Next]_vars => SocketInv'
  <2> SUFFICES ASSUME SocketInv, [Next]_vars
               PROVE  SocketInv'
    OBVIOUS
  <2>1. CASE LowerTask \/ (Plug /\ UNCHANGED srvVars) \/ UNCHANGED vars
    BY <2>1 DEF LowerTask, srvVars, netVars, vars
  <2>2. CASE ClientConnects \/ ClientSends \/ ClientLeaves
    BY <2>2 DEF ClientConnects, ClientSends, ClientLeaves
  <2>3. CASE NetworkUp \/ ServerInit
    BY <2>3 DEF NetworkUp, ServerInit, netVars
  <2>4. CASE Accept
    BY <2>4 DEF Accept
  <2>5. CASE Recv
    BY <2>5 DEF Recv
  <2>6. CASE Answer
    BY <2>6 DEF Answer, netVars
  <2>7. CASE Close
    BY <2>7 DEF Close
  <2> QED
    BY <2>1, <2>2, <2>3, <2>4, <2>5, <2>6, <2>7 DEF Next, Monitor
<1> QED BY <1>1, <1>2, PTL DEF Spec

(* Over any number of clients, with any of them leaving at any moment, the *)
(* accepted client and nobody else has a socket.                           *)
THEOREM SocketsAreReturned == Spec => []OneSocket
<1>1. SocketInv => OneSocket
  BY DEF SocketInv
<1> QED
  BY <1>1, SocketInvariance, PTL

-----------------------------------------------------------------------------
(* ClimateTypeOK in two parts, for the two provers.                        *)
Flags ==
    /\ alive \in BOOLEAN
    /\ measuring \in BOOLEAN
    /\ err \in BOOLEAN
    /\ report \in BOOLEAN
    /\ published \in BOOLEAN
    /\ sure \in BOOLEAN

Places ==
    /\ thPc \in {"delay", "command", "wait", "copyTemp", "copyHum"}
    /\ meas \in 1 .. 4
    /\ dt \in Values
    /\ thData \in Values
    /\ cliPc \in {"idle", "hum"}
    /\ cliTemp \in Temps \cup {0}
    /\ answer \in {"none", "values", "error"}

LEMMA FlagsStay ==
    ASSUME Flags, ClimateNext
    PROVE  Flags'
<1> USE DEF Flags, sensorVars, thVars, dataVars, thCliVars
<1>1. CASE Plug
  BY <1>1, Zenon DEF Plug
<1>2. CASE BeginPass
  BY <1>2, Zenon DEF BeginPass
<1>3. CASE Command
  BY <1>3, Zenon DEF Command
<1>4. CASE ReadTemp
  BY <1>4, Zenon DEF ReadTemp, LineIsLow
<1>5. CASE CheckTemp
  BY <1>5, Zenon DEF CheckTemp, LineIsLow
<1>6. CASE ReadHum
  BY <1>6, Zenon DEF ReadHum, LineIsLow
<1>7. CASE CopyTemp
  BY <1>7, Zenon DEF CopyTemp
<1>8. CASE CopyHum
  <2>1. (dt.hum < 0) \in BOOLEAN
    BY SMT
  <2> QED
    BY <1>8, <2>1, Zenon DEF CopyHum
<1>9. CASE ThReadTemp
  BY <1>9, Zenon DEF ThReadTemp
<1>10. CASE ThReadHum
  BY <1>10, Zenon DEF ThReadHum
<1> QED
  BY <1>1, <1>2, <1>3, <1>4, <1>5, <1>6, <1>7, <1>8, <1>9, <1>10
     DEF ClimateNext, ThTask

LEMMA PlacesStay ==
    ASSUME Places, GoodTemps, ClimateNext
    PROVE  Places'
<1> USE DEF Places, Values, Failed, sensorVars, thVars, dataVars, thCliVars
<1>1. CASE Plug
  BY <1>1 DEF Plug
<1>2. CASE BeginPass
  BY <1>2 DEF BeginPass
<1>3. CASE Command
  BY <1>3 DEF Command
<1>4. CASE ReadTemp
  BY <1>4 DEF ReadTemp, LineIsLow
<1>5. CASE CheckTemp
  BY <1>5 DEF CheckTemp, LineIsLow
<1>6. CASE ReadHum
  BY <1>6 DEF ReadHum, LineIsLow
<1>7. CASE CopyTemp
  BY <1>7 DEF CopyTemp
<1>8. CASE CopyHum
  BY <1>8 DEF CopyHum
<1>9. CASE ThReadTemp
  <2>1. cliTemp' = thData.temp /\ cliPc' = "hum" /\ UNCHANGED <<thPc, meas, dt, thData, answer>>
    BY <1>9, Zenon DEF ThReadTemp
  <2>2. thData.temp \in Temps \cup {0}
    BY DEF GoodTemps
  <2> QED
    BY <2>1, <2>2
<1>10. CASE ThReadHum
  BY <1>10 DEF ThReadHum
<1> QED
  BY <1>1, <1>2, <1>3, <1>4, <1>5, <1>6, <1>7, <1>8, <1>9, <1>10
     DEF ClimateNext, ThTask

(* The sensor and the two tasks of lower priority keep their types.        *)
LEMMA ClimateKeepsTypes ==
    ASSUME ClimateTypeOK, GoodTemps, ClimateNext
    PROVE  ClimateTypeOK'
<1>1. Flags /\ Places
  BY Zenon DEF ClimateTypeOK, Flags, Places
<1>2. Flags' /\ Places'
  BY <1>1, FlagsStay, PlacesStay
<1> QED
  BY <1>2, Zenon DEF ClimateTypeOK, Flags, Places

(* Every variable of the sensor, the tasks and the monitor keeps its type, *)
(* for any measurements; clients and requests stay in their bounds.        *)
THEOREM NetServerTyped == Spec => []TypeOK
<1>1. Init => TypeOK
  <2> SUFFICES ASSUME Init PROVE TypeOK
    OBVIOUS
  <2>1. /\ alive \in BOOLEAN /\ measuring \in BOOLEAN /\ err \in BOOLEAN
        /\ report \in BOOLEAN /\ published \in BOOLEAN /\ sure \in BOOLEAN
        /\ listening \in BOOLEAN
    BY Zenon DEF Init, ClimateInit
  <2>2. ClimateTypeOK
    BY <2>1 DEF Init, ClimateInit, ClimateTypeOK, Values, ZeroValues
  <2> QED
    BY <2>1, <2>2, BacklogAssumption, RequestsAssumption
       DEF Init, TypeOK, Values, ZeroValues
<1>2. TypeOK /\ TempInv /\ SocketInv /\ [Next]_vars => TypeOK'
  <2> SUFFICES ASSUME TypeOK, TempInv, SocketInv, [Next]_vars
               PROVE  TypeOK'
    OBVIOUS
  <2> USE BacklogAssumption, RequestsAssumption DEF TypeOK
  <2>1. CASE LowerTask
    <3>1. ClimateTypeOK'
      BY <2>1, ClimateKeepsTypes DEF LowerTask, ClimateNext, TempInv
    <3> QED
      BY <2>1, <3>1 DEF LowerTask, srvVars, netVars
  <2>2. CASE Plug /\ UNCHANGED srvVars
    <3>1. ClimateTypeOK'
      BY <2>2, ClimateKeepsTypes DEF ClimateNext, TempInv
    <3> QED
      BY <2>2, <3>1 DEF srvVars, netVars
  <2>3. CASE Answer
    BY <2>3 DEF Answer, netVars, climateVars, thVars, dataVars, sensorVars, thCliVars,
       ClimateTypeOK
  <2>4. CASE UNCHANGED <<climateVars, sent>>
    <3>1. ClimateTypeOK' /\ sent' \in Values
      BY <2>4 DEF climateVars, thVars, dataVars, sensorVars, thCliVars, ClimateTypeOK, Values
    <3>2. CASE ClientConnects \/ ClientSends \/ ClientLeaves
      BY <3>1, <3>2 DEF ClientConnects, ClientSends, ClientLeaves
    <3>3. CASE NetworkUp \/ ServerInit
      BY <3>1, <3>3 DEF NetworkUp, ServerInit, netVars
    <3>4. CASE Accept
      BY <3>1, <3>4 DEF Accept
    <3>5. CASE Recv
      BY <3>1, <3>5 DEF Recv
    <3>6. CASE Close
      <4>1. sockets = 1
        BY <3>6 DEF Close, SocketInv, OneSocket
      <4> QED
        BY <3>1, <3>6, <4>1 DEF Close
    <3>7. CASE UNCHANGED vars
      BY <3>1, <3>7 DEF vars, srvVars, netVars
    <3>8. CASE LowerTask \/ (Plug /\ UNCHANGED srvVars) \/ Answer
      BY <2>1, <2>2, <2>3, <3>8
    <3> QED
      BY <2>4, <3>2, <3>3, <3>4, <3>5, <3>6, <3>7, <3>8 DEF Next, Monitor
  <2>5. \/ LowerTask \/ (Plug /\ UNCHANGED srvVars) \/ Answer
        \/ UNCHANGED <<climateVars, sent>>
    BY Zenon DEF Next, Monitor, ClientConnects, ClientSends, ClientLeaves,
       NetworkUp, ServerInit, Accept, Recv, Close, vars, srvVars
  <2> QED
    BY <2>1, <2>2, <2>3, <2>4, <2>5
<1> QED
  BY <1>1, <1>2, TempInvariance, SocketInvariance, PTL DEF Spec

-----------------------------------------------------------------------------
(* From the read of the humidity on, dt holds no 0 for it; once published, *)
(* neither does th_data; and a copy half done agrees with its source.      *)
FreshInv ==
    /\ thPc \in {"copyTemp", "copyHum"} => dt.hum # 0
    /\ thPc = "copyHum" => thData.temp = dt.temp
    /\ published => thData.hum # 0
    /\ sure => published
    /\ SilenceMeansFresh
    /\ ErrorMeansNoData

(* The two tasks and the sensor keep FreshInv.                             *)
LEMMA ClimateKeepsFresh ==
    ASSUME ClimateTypeOK, FreshInv, ClimateNext
    PROVE  FreshInv'
<1> USE DEF FreshInv, SilenceMeansFresh, ErrorMeansNoData, Values, Failed
<1> dt \in Values /\ thData \in Values
  BY DEF ClimateTypeOK
<1>1. CASE Plug
  BY <1>1 DEF Plug, thVars, dataVars, thCliVars
<1>2. CASE BeginPass
  BY <1>2 DEF BeginPass, dataVars, thCliVars
<1>3. CASE Command
  BY <1>3 DEF Command, dataVars, thCliVars
<1>4. CASE ReadTemp
  BY <1>4 DEF ReadTemp, LineIsLow, dataVars, thCliVars
<1>5. CASE CheckTemp
  BY <1>5 DEF CheckTemp, LineIsLow, dataVars, thCliVars
<1>6. CASE ReadHum
  BY <1>6, HumsAssumption DEF ReadHum, LineIsLow, dataVars, thCliVars
<1>7. CASE CopyTemp
  BY <1>7 DEF CopyTemp, thCliVars
<1>8. CASE CopyHum
  <2>1. /\ thPc = "copyHum" /\ thPc' = "delay" /\ UNCHANGED <<dt, thCliVars>>
        /\ thData' = [thData EXCEPT !.hum = dt.hum]
        /\ published' = TRUE /\ report' = (dt.hum < 0)
    BY <1>8 DEF CopyHum
  <2>2. thData' = dt /\ dt.hum # 0
    BY <2>1
  <2>3. dt.hum = Failed => report'
    <3>1. dt.hum = Failed => dt.hum < 0
      OBVIOUS
    <3> QED
      BY <2>1, <3>1, Zenon
  <2> QED
    BY <2>1, <2>2, <2>3, Zenon DEF thCliVars
<1>9. CASE ThReadTemp
  BY <1>9 DEF ThReadTemp, thVars, dataVars
<1>10. CASE ThReadHum
  BY <1>10 DEF ThReadHum, NoData, thVars, dataVars
<1> QED
  BY <1>1, <1>2, <1>3, <1>4, <1>5, <1>6, <1>7, <1>8, <1>9, <1>10
     DEF ClimateNext, ThTask

LEMMA FreshInvariance == Spec => []FreshInv
<1>1. Init => FreshInv
  BY DEF Init, ClimateInit, FreshInv, SilenceMeansFresh, ErrorMeansNoData
<1>2. TypeOK /\ FreshInv /\ [Next]_vars => FreshInv'
  <2> SUFFICES ASSUME TypeOK, FreshInv, [Next]_vars
               PROVE  FreshInv'
    OBVIOUS
  <2>1. CASE LowerTask \/ (Plug /\ UNCHANGED srvVars)
    BY <2>1, ClimateKeepsFresh DEF LowerTask, ClimateNext, TypeOK
  <2>2. CASE UNCHANGED climateVars
    BY <2>2 DEF climateVars, thVars, dataVars, thCliVars, FreshInv, SilenceMeansFresh,
       ErrorMeansNoData
  <2> QED
    BY <2>1, <2>2 DEF Next, Monitor, ClientConnects, ClientSends, ClientLeaves,
       NetworkUp, ServerInit, Accept, Recv, Answer, Close, vars
<1> QED
  BY <1>1, <1>2, NetServerTyped, PTL DEF Spec

(* However the copy is interrupted, a pass that reports nothing has left   *)
(* both of its values in th_data, and no failed one.                       *)
THEOREM SilenceIsFresh == Spec => []SilenceMeansFresh
<1>1. FreshInv => SilenceMeansFresh
  BY DEF FreshInv
<1> QED
  BY <1>1, FreshInvariance, PTL

(* No zero and no half copy is taken for missing values.                   *)
THEOREM ErrorIsNoData == Spec => []ErrorMeansNoData
<1>1. FreshInv => ErrorMeansNoData
  BY DEF FreshInv
<1> QED
  BY <1>1, FreshInvariance, PTL

-----------------------------------------------------------------------------
(* A humidity, like a temperature, reaches the tubes as its own digits,    *)
(* whatever the sensor delivers below 100 degrees and 100 %.               *)
THEOREM ClimateReachesTheTubes == Spec => []ClimateIsShown
<1>1. ClimateIsShown
  <2> SUFFICES ASSUME thData.temp \in 0 .. 999, thData.hum \in 0 .. 99
               PROVE  LET latch == Latch(ClimateFrame(thData.temp, thData.hum))
                      IN  /\ Pair(latch, 0) = {thData.temp \div 10}
                          /\ Lit(latch, 2) = {thData.temp % 10}
                          /\ Lit(latch, 3) = {0}
                          /\ Pair(latch, 4) = {thData.hum}
    BY DEF ClimateIsShown
  <2> DEFINE t == thData.temp
             h == thData.hum
             f == ClimateFrame(t, h)
  <2>1. /\ f[0] = t \div 100 /\ f[1] = (t % 100) \div 10 /\ f[2] = t % 10
        /\ f[3] = 0 /\ f[4] = h \div 10 /\ f[5] = h % 10
    BY DEF ClimateFrame, Frame, Tube, TUBE_NUM
  <2>2. t \in 0 .. 999 /\ h \in 0 .. 99
    OBVIOUS
  <2> HIDE DEF f, t, h
  <2>3. f[4] \in 0 .. 9 /\ f[5] \in 0 .. 9 /\ 10 * f[4] + f[5] = h
    BY <2>1, <2>2, TwoDigits
  <2>4. f[0] \in 0 .. 9 /\ f[1] \in 0 .. 9 /\ f[2] \in 0 .. 9 /\ 10 * f[0] + f[1] = t \div 10
    BY <2>1, <2>2
  <2>5. \A p \in Tube : f[p] \in 0 .. 9
    BY <2>1, <2>3, <2>4 DEF Tube, TUBE_NUM
  <2>6. /\ Pair(Latch(f), 0) = {10 * f[0] + f[0 + 1]}
        /\ Pair(Latch(f), 4) = {10 * f[4] + f[4 + 1]}
    BY <2>5, PairOfDigits
  <2>7. Lit(Latch(f), 2) = {f[2]} /\ Lit(Latch(f), 3) = {f[3]}
    BY <2>5, DigitsAreLit DEF Tube, TUBE_NUM
  <2> QED
    BY <2>1, <2>3, <2>4, <2>6, <2>7 DEF f, t, h
<1> QED
  BY <1>1, PTL

=============================================================================
