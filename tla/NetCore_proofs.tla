--------------------------- MODULE NetCore_proofs ---------------------------
(***************************************************************************)
(* The safety of NetCore for every size of the heap and of the mailboxes   *)
(* that NetCore's assumptions allow.  CoreInv does for all of it but for   *)
(* the wake-ups, which rest on OwedInv too.                                *)
(***************************************************************************)
EXTENDS NetCore, TLAPS

(* What the monitor wants at each of its statements; it has a netconn      *)
(* everywhere but in accept.                                               *)
Jobs ==
    /\ srvPc \in {"accept", "recv", "fetch", "relock", "waitClose"} => job = "none"
    /\ srvPc \in {"lock", "core"} => job \in {"accepted", "taken", "write"}
    /\ srvPc \in InCore => job \in {"none", "refused", "taken", "delayed"}
    /\ srvPc = "wait" => job = "delayed"
    /\ srvPc = "close" => job \in {"none", "refused"}
    /\ srvPc # "accept" => up

(* The lock is taken exactly when one of the two is inside.                *)
TcpipInside   == tcpPc \in {"work"} \cup InCore /\ ~late
MonitorInside == srvPc \in {"core"} \cup InCore

Locking ==
    /\ TcpipInside \/ MonitorInside => locked
    /\ locked => TcpipInside \/ MonitorInside
    /\ ~(TcpipInside /\ MonitorInside)
    /\ late => tcpPc \in {"work"} \cup InCore
    /\ tcpPc = "send" /\ ~late => tx = "tcpip"
    /\ srvPc = "send" => tx \in {"monitor", "late"}

(* At most one end of file for the peer's FIN and one for the pcb's end.   *)
Ends ==
    /\ pcb = "open" => ends = 0
    /\ pcb \in {"half", "closing", "freed"} => ends <= 1
    /\ ends <= 2
    /\ ~up => pcb = "none" /\ unread = 0 /\ ends = 0

(* A close is posted once, is in one place, and nothing is owed before it. *)
Closing ==
    /\ ClosePending \/ op = "close" => srvPc = "waitClose" /\ ~token
    /\ ~(closePosted /\ msg = "close" /\ (late \/ tcpPc \in {"lock", "work"}))
    /\ ClosePending => op # "close"
    /\ op = "write" => job = "delayed"
    /\ token => (job = "delayed" \/ srvPc = "waitClose") /\ op = "none"

CoreInv == TypeOK /\ Jobs /\ Locking /\ Ends /\ PbufsAreOwned /\ Closing

(* A frame enters the heap with room for it, and leaves it when not posted. *)
LEMMA PhyKeepsCoreInv ==
    ASSUME CoreInv, Receive \/ Input
    PROVE  CoreInv'
<1> USE PbufAssumption, MboxAssumption
<1> USE DEF CoreInv, TypeOK, Jobs, Locking, TcpipInside, MonitorInside,
            InCore, Alive, Ends, PbufsAreOwned, PhyHolds, TcpipHolds,
            MonitorHolds, Closing, ClosePending
<1>1. CASE Receive
  BY <1>1 DEF Receive, PhyRuns, thrVars, connVars, srvVars
<1>2. CASE Input
  BY <1>2 DEF Input, PhyRuns, MboxRoom, thrVars, connVars, srvVars
<1> QED BY <1>1, <1>2

(* What a message or a timer does to the connection.                       *)
LEMMA WorkKeepsCoreInv ==
    ASSUME CoreInv, Work
    PROVE  CoreInv'
<1> USE PbufAssumption, MboxAssumption
<1> USE DEF CoreInv, TypeOK, Jobs, Locking, TcpipInside, MonitorInside,
            InCore, Alive, Ends, PbufsAreOwned, PhyHolds, TcpipHolds,
            MonitorHolds, Closing, ClosePending
<1>1. CASE Nothing
  BY <1>1 DEF Work, Nothing, Cause, Freed, connVars, srvVars
<1>2. CASE Connect
  BY <1>2 DEF Work, Connect, Cause, Freed, connVars, srvVars
<1>3. CASE Data
  BY <1>3 DEF Work, Data, Cause, RecvRoom, connVars, srvVars
<1>4. CASE Fin
  BY <1>4 DEF Work, Fin, Cause, Freed, RecvRoom, connVars, srvVars
<1>5. CASE Abort
  BY <1>5 DEF Work, Abort, Cause, Freed, RecvRoom, connVars, srvVars
<1>6. CASE WriteDone
  BY <1>6 DEF Work, WriteDone, Cause, Freed, connVars, srvVars
<1>7. CASE CloseDone
  BY <1>7 DEF Work, CloseDone, Closed, Cause, Freed, connVars, srvVars
<1>8. CASE LastAck
  BY <1>8 DEF Work, LastAck, Cause, Freed, connVars, srvVars
<1>9. CASE DelConn
  <2>1. TypeOK'
    <3>1. used' \in 0 .. PbufMax /\ queued' \in 0 .. MboxLen
         /\ unread' \in 0 .. MboxLen /\ ends' \in 0 .. MboxLen
      BY <1>9 DEF Work, DelConn, Closed, Cause, Freed, connVars, srvVars
    <3>2. closePosted' \in BOOLEAN /\ locked' \in BOOLEAN /\ late' \in BOOLEAN
         /\ up' \in BOOLEAN /\ token' \in BOOLEAN
      BY <1>9 DEF Work, DelConn, Closed, Cause, Freed, connVars, srvVars
    <3> QED BY <1>9, <3>1, <3>2 DEF Work, DelConn, Closed, Cause, Freed, connVars, srvVars
  <2>2. Jobs'
    BY <1>9 DEF Work, DelConn, Closed, Cause, Freed, connVars, srvVars
  <2>3. Locking'
    BY <1>9 DEF Work, DelConn, Closed, Cause, Freed, connVars, srvVars
  <2>4. Ends'
    BY <1>9 DEF Work, DelConn, Closed, Cause, Freed, connVars, srvVars
  <2>5. PbufsAreOwned'
    BY <1>9 DEF Work, DelConn, Closed, Cause, Freed, connVars, srvVars
  <2>6. Closing'
    BY <1>9 DEF Work, DelConn, Closed, Cause, Freed, connVars, srvVars
  <2> QED BY <2>1, <2>2, <2>3, <2>4, <2>5, <2>6
<1> QED BY <1>1, <1>2, <1>3, <1>4, <1>5, <1>6, <1>7, <1>8, <1>9 DEF Work

(* The other statements of the tcpip thread.                               *)
LEMMA TcpipKeepsCoreInv ==
    ASSUME CoreInv, Tcpip
    PROVE  CoreInv'
<1> USE PbufAssumption, MboxAssumption
<1> USE DEF CoreInv, TypeOK, Jobs, Locking, TcpipInside, MonitorInside,
            InCore, Alive, Ends, PbufsAreOwned, PhyHolds, TcpipHolds,
            MonitorHolds, Closing, ClosePending
<1>1. CASE FetchFrame
  <2>1. TypeOK' /\ Ends'
    BY <1>1 DEF FetchFrame, Fetched, connVars, srvVars
  <2>2. Jobs' /\ Locking'
    BY <1>1 DEF FetchFrame, Fetched, connVars, srvVars
  <2>3. PbufsAreOwned'
    BY <1>1 DEF FetchFrame, Fetched, connVars, srvVars
  <2>4. Closing'
    BY <1>1 DEF FetchFrame, Fetched, connVars, srvVars
  <2> QED BY <2>1, <2>2, <2>3, <2>4
<1>2. CASE FetchClose
  <2>1. TypeOK' /\ Ends'
    BY <1>2 DEF FetchClose, Fetched, connVars, srvVars
  <2>2. Jobs' /\ Locking'
    BY <1>2 DEF FetchClose, Fetched, connVars, srvVars
  <2>3. PbufsAreOwned'
    BY <1>2 DEF FetchClose, Fetched, connVars, srvVars
  <2>4. Closing'
    BY <1>2 DEF FetchClose, Fetched, connVars, srvVars
  <2> QED BY <2>1, <2>2, <2>3, <2>4
<1>3. CASE Timeout
  BY <1>3 DEF Timeout, Fetched, netVars, connVars, srvVars
<1>4. CASE LockCore
  BY <1>4 DEF LockCore, netVars, connVars, srvVars
<1>5. CASE LateTimer
  BY <1>5 DEF LateTimer, netVars, connVars, srvVars
<1>6. CASE TcpipComposes
  BY <1>6 DEF TcpipComposes, netVars, connVars, srvVars
<1>7. CASE TcpipSends
  BY <1>7 DEF TcpipSends, netVars, connVars, srvVars
<1>8. CASE TcpipReturns
  <2>1. TypeOK'
    <3>1. used' \in 0 .. PbufMax /\ queued' \in 0 .. MboxLen
         /\ unread' \in 0 .. MboxLen /\ ends' \in 0 .. MboxLen
      BY <1>8 DEF TcpipReturns, netVars, connVars, srvVars
    <3>2. closePosted' \in BOOLEAN /\ locked' \in BOOLEAN /\ late' \in BOOLEAN
         /\ up' \in BOOLEAN /\ token' \in BOOLEAN
      BY <1>8 DEF TcpipReturns, netVars, connVars, srvVars
    <3> QED BY <1>8, <3>1, <3>2 DEF TcpipReturns, netVars, connVars, srvVars
  <2>2. Jobs'
    BY <1>8 DEF TcpipReturns, netVars, connVars, srvVars
  <2>3. Locking'
    BY <1>8 DEF TcpipReturns, netVars, connVars, srvVars
  <2>4. Ends'
    BY <1>8 DEF TcpipReturns, netVars, connVars, srvVars
  <2>5. PbufsAreOwned'
    BY <1>8 DEF TcpipReturns, netVars, connVars, srvVars
  <2>6. Closing'
    BY <1>8 DEF TcpipReturns, netVars, connVars, srvVars
  <2> QED BY <2>1, <2>2, <2>3, <2>4, <2>5, <2>6
<1>9. CASE Work
  BY <1>9, WorkKeepsCoreInv
<1> QED BY <1>9, <1>1, <1>2, <1>3, <1>4, <1>5, <1>6, <1>7, <1>8 DEF Tcpip

(* The network monitor.                                                    *)
LEMMA MonitorKeepsCoreInv ==
    ASSUME CoreInv, Monitor
    PROVE  CoreInv'
<1> USE PbufAssumption, MboxAssumption
<1> USE DEF CoreInv, TypeOK, Jobs, Locking, TcpipInside, MonitorInside,
            InCore, Alive, Ends, PbufsAreOwned, PhyHolds, TcpipHolds,
            MonitorHolds, Closing, ClosePending
<1>1. CASE Accept
  BY <1>1 DEF Accept, netVars, thrVars, connVars
<1>2. CASE Recv
  BY <1>2 DEF Recv, netVars, thrVars, connVars
<1>3. CASE RecvData
  BY <1>3 DEF RecvData, netVars, thrVars, connVars
<1>4. CASE RecvEnd
  BY <1>4 DEF RecvEnd, netVars, thrVars, connVars
<1>5. CASE MonitorLocks
  BY <1>5 DEF MonitorLocks, netVars, thrVars, connVars
<1>6. CASE Ask
  BY <1>6 DEF Ask, MayTransmit, netVars, thrVars, connVars
<1>7. CASE Write
  BY <1>7 DEF Write, MayTransmit, netVars, thrVars, connVars
<1>8. CASE MonitorComposes
  BY <1>8 DEF MonitorComposes, netVars, thrVars, connVars
<1>9. CASE MonitorSends
  BY <1>9 DEF MonitorSends, netVars, thrVars, connVars
<1>10. CASE MonitorUnlocks
  <2>1. TypeOK'
    <3>1. used' \in 0 .. PbufMax /\ queued' \in 0 .. MboxLen
         /\ unread' \in 0 .. MboxLen /\ ends' \in 0 .. MboxLen
      BY <1>10 DEF MonitorUnlocks, netVars, thrVars, connVars
    <3>2. closePosted' \in BOOLEAN /\ locked' \in BOOLEAN /\ late' \in BOOLEAN
         /\ up' \in BOOLEAN /\ token' \in BOOLEAN
      BY <1>10 DEF MonitorUnlocks, netVars, thrVars, connVars
    <3> QED BY <1>10, <3>1, <3>2 DEF MonitorUnlocks, netVars, thrVars, connVars
  <2>2. Jobs'
    BY <1>10 DEF MonitorUnlocks, netVars, thrVars, connVars
  <2>3. Locking'
    BY <1>10 DEF MonitorUnlocks, netVars, thrVars, connVars
  <2>4. Ends'
    BY <1>10 DEF MonitorUnlocks, netVars, thrVars, connVars
  <2>5. PbufsAreOwned'
    <3>1. used' = used - MonitorHolds /\ MonitorHolds' = 0
      BY <1>10 DEF MonitorUnlocks
    <3>2. UNCHANGED <<PhyHolds, queued, TcpipHolds, unread>>
      BY <1>10 DEF MonitorUnlocks, thrVars, connVars
    <3>3. /\ PhyHolds \in Nat /\ queued \in Nat /\ TcpipHolds \in Nat
          /\ unread \in Nat /\ MonitorHolds \in Nat
      OBVIOUS
    <3> QED BY <3>1, <3>2, <3>3
  <2>6. Closing'
    BY <1>10 DEF MonitorUnlocks, netVars, thrVars, connVars
  <2> QED BY <2>1, <2>2, <2>3, <2>4, <2>5, <2>6
<1>11. CASE WriteWaits
  <2>1. TypeOK'
    <3>1. used' \in 0 .. PbufMax /\ queued' \in 0 .. MboxLen
         /\ unread' \in 0 .. MboxLen /\ ends' \in 0 .. MboxLen
      BY <1>11 DEF WriteWaits, netVars
    <3>2. closePosted' \in BOOLEAN /\ locked' \in BOOLEAN /\ late' \in BOOLEAN
         /\ up' \in BOOLEAN /\ token' \in BOOLEAN
      BY <1>11 DEF WriteWaits, netVars, thrVars
    <3> QED BY <1>11, <3>1, <3>2 DEF WriteWaits, netVars, thrVars
  <2>2. Jobs'
    BY <1>11 DEF WriteWaits, netVars, thrVars, connVars
  <2>3. Locking'
    BY <1>11 DEF WriteWaits, netVars, thrVars, connVars
  <2>4. Ends'
    BY <1>11 DEF WriteWaits, netVars, thrVars, connVars
  <2>5. PbufsAreOwned'
    BY <1>11 DEF WriteWaits, netVars, thrVars, connVars
  <2>6. Closing'
    BY <1>11 DEF WriteWaits, netVars, thrVars, connVars
  <2> QED BY <2>1, <2>2, <2>3, <2>4, <2>5, <2>6
<1>12. CASE MonitorRelocks
  BY <1>12 DEF MonitorRelocks, netVars, thrVars, connVars
<1>13. CASE Close
  BY <1>13 DEF Close, MboxRoom, netVars, thrVars, connVars
<1>14. CASE CloseWaits
  <2>1. TypeOK'
    <3>1. used' \in 0 .. PbufMax /\ queued' \in 0 .. MboxLen
         /\ unread' \in 0 .. MboxLen /\ ends' \in 0 .. MboxLen
      BY <1>14 DEF CloseWaits, FreeConn, netVars, thrVars, connVars
    <3>2. closePosted' \in BOOLEAN /\ locked' \in BOOLEAN /\ late' \in BOOLEAN
         /\ up' \in BOOLEAN /\ token' \in BOOLEAN
      BY <1>14 DEF CloseWaits, FreeConn, netVars, thrVars, connVars
    <3> QED BY <1>14, <3>1, <3>2 DEF CloseWaits, FreeConn, netVars, thrVars, connVars
  <2>2. Jobs'
    BY <1>14 DEF CloseWaits, FreeConn, netVars, thrVars, connVars
  <2>3. Locking'
    BY <1>14 DEF CloseWaits, FreeConn, netVars, thrVars, connVars
  <2>4. Ends'
    BY <1>14 DEF CloseWaits, FreeConn, netVars, thrVars, connVars
  <2>5. PbufsAreOwned'
    BY <1>14 DEF CloseWaits, FreeConn, netVars, thrVars, connVars
  <2>6. Closing'
    BY <1>14 DEF CloseWaits, FreeConn, netVars, thrVars, connVars
  <2> QED BY <2>1, <2>2, <2>3, <2>4, <2>5, <2>6
<1> QED BY <1>1, <1>2, <1>3, <1>4, <1>5, <1>6, <1>7, <1>8, <1>9, <1>10, <1>11, <1>12, <1>13, <1>14 DEF Monitor

LEMMA CoreInvariance == Spec => []CoreInv
<1>1. Init => CoreInv
  <2> SUFFICES ASSUME Init PROVE CoreInv
    OBVIOUS
  <2> USE PbufAssumption, MboxAssumption DEF Init
  <2>1. TypeOK
    <3>1. used \in 0 .. PbufMax /\ queued \in 0 .. MboxLen
         /\ unread \in 0 .. MboxLen /\ ends \in 0 .. MboxLen
      OBVIOUS
    <3>2. closePosted \in BOOLEAN /\ locked \in BOOLEAN /\ late \in BOOLEAN
         /\ up \in BOOLEAN /\ token \in BOOLEAN
      OBVIOUS
    <3> QED BY <3>1, <3>2 DEF TypeOK, InCore, Alive
  <2>2. Jobs
    BY DEF Jobs, InCore
  <2>3. Locking
    BY DEF Locking, TcpipInside, MonitorInside, InCore
  <2>4. Ends
    BY DEF Ends
  <2>5. PbufsAreOwned
    BY DEF PbufsAreOwned, PhyHolds, TcpipHolds, MonitorHolds
  <2>6. Closing
    BY DEF Closing, ClosePending
  <2> QED BY <2>1, <2>2, <2>3, <2>4, <2>5, <2>6 DEF CoreInv
<1>2. CoreInv /\ UNCHANGED vars => CoreInv'
  BY DEF vars, netVars, thrVars, connVars, srvVars, CoreInv, TypeOK, Jobs,
         Locking, TcpipInside, MonitorInside, InCore, Alive, Ends, PbufsAreOwned,
         PhyHolds, TcpipHolds, MonitorHolds, Closing, ClosePending
<1>3. CoreInv /\ [Next]_vars => CoreInv'
  BY <1>2, PhyKeepsCoreInv, TcpipKeepsCoreInv, MonitorKeepsCoreInv DEF Next
<1> QED BY <1>1, <1>3, PTL DEF Spec

-----------------------------------------------------------------------------
(* Every variable keeps its type: neither the heap nor a mailbox overflows. *)
THEOREM NetCoreTyped == Spec => []TypeOK
BY CoreInvariance, PTL DEF CoreInv

(* tcpip_apimsg_lock and tcpip_thread never process at the same time, and  *)
(* but for late timers each sends the frame it has put into Tx_Data_Buf.   *)
THEOREM CoreLockWorks == Spec => []CoreIsExclusive
<1>1. CoreInv => CoreIsExclusive
  BY DEF CoreInv, Locking, TcpipInside, MonitorInside, InCore, CoreIsExclusive
<1> QED BY <1>1, CoreInvariance, PTL

(* No path through ethernetif.c, tcpip.c, recv_tcp or the monitor leaks or *)
(* frees twice the pbuf of a frame.                                        *)
THEOREM NoPbufLeaks == Spec => []PbufsAreOwned
BY CoreInvariance, PTL DEF CoreInv

(* err_tcp's blocking post, which is made with the core locked, always     *)
(* finds a place: seven frames, the peer's FIN and the error fit in ten.   *)
THEOREM NoDeadlockInRecvmbox == Spec => []PostsNeverBlock
<1>1. CoreInv => PostsNeverBlock
  <2> SUFFICES ASSUME CoreInv, pcb \in Alive PROVE unread + ends < MboxLen
    BY DEF PostsNeverBlock, RecvRoom
  <2>1. unread <= used /\ used <= PbufMax /\ unread \in Nat /\ used \in Nat
    BY PbufAssumption, MboxAssumption
    DEF CoreInv, TypeOK, PbufsAreOwned, PhyHolds, TcpipHolds, MonitorHolds
  <2>2. ends \in Nat /\ ends <= 1
    BY MboxAssumption DEF CoreInv, TypeOK, Ends, Alive
  <2> QED BY <2>1, <2>2, PbufAssumption, MboxAssumption
<1> QED BY <1>1, CoreInvariance, PTL

(* netconn_free comes after everything the core does with the netconn.     *)
THEOREM ConnIsFreedLast == Spec => []ConnOutlivesUse
<1>1. CoreInv => ConnOutlivesUse
  BY DEF CoreInv, Closing, Ends, ConnOutlivesUse
<1> QED BY <1>1, CoreInvariance, PTL

-----------------------------------------------------------------------------
(* An operation of the core has a pcb, and only a close that was tried has *)
(* one that sends its FIN or is freed.                                     *)
Operations ==
    /\ pcb \in {"closing", "freed"} => op = "close"
    /\ op # "none" => pcb # "none"

OwedInv == Operations /\ WakeUpIsOwed

(* A message, a timer and the loss of the pcb wake whom they leave without *)
(* an operation.                                                           *)
LEMMA WorkKeepsOwed ==
    ASSUME CoreInv, OwedInv, Work
    PROVE  OwedInv'
<1> USE DEF OwedInv, Operations, WakeUpIsOwed, Alive
<1>1. /\ UNCHANGED <<closePosted, msg, late, srvPc, job>>
      /\ tcpPc = "work"
  BY DEF Work, srvVars
<1>2. /\ pcb \in Alive \cup {"none", "freed"} /\ op \in {"none", "write", "close"}
      /\ srvPc = "waitClose" => job = "none"
      /\ op = "close" => srvPc = "waitClose"
      /\ token => op = "none"
      /\ ~up => pcb = "none" /\ srvPc # "waitClose" /\ job # "delayed"
  BY DEF CoreInv, TypeOK, Jobs, Closing, Ends
<1>3. Cause # "close" => (ClosePending => ClosePending')
  <2>1. Cause # "close" => late \/ msg # "close"
    BY DEF Cause
  <2> QED
    BY <1>1, <2>1 DEF ClosePending
<1> HIDE DEF ClosePending
<1>4. CASE Nothing
  BY <1>1, <1>2, <1>3, <1>4 DEF Nothing, connVars
<1>5. CASE Connect
  BY <1>1, <1>2, <1>3, <1>5 DEF Connect
<1>6. CASE Data
  BY <1>1, <1>2, <1>3, <1>6 DEF Data
<1>7. CASE Fin
  BY <1>1, <1>2, <1>3, <1>7 DEF Fin
<1>8. CASE Abort
  BY <1>1, <1>2, <1>3, <1>8 DEF Abort
<1>9. CASE WriteDone
  BY <1>1, <1>2, <1>3, <1>9 DEF WriteDone
<1>10. CASE CloseDone
  BY <1>1, <1>2, <1>3, <1>10 DEF CloseDone, Closed
<1>11. CASE LastAck
  BY <1>1, <1>2, <1>3, <1>11 DEF LastAck
<1>12. CASE DelConn
  <2>1. srvPc = "waitClose"
    BY <1>1, <1>12 DEF DelConn, Cause, CoreInv, Closing, ClosePending
  <2> QED
    BY <1>1, <1>2, <1>12, <2>1 DEF DelConn, Closed
<1> QED
  BY <1>4, <1>5, <1>6, <1>7, <1>8, <1>9, <1>10, <1>11, <1>12 DEF Work

(* The monitor asks only for what it then waits for.                       *)
LEMMA MonitorKeepsOwed ==
    ASSUME CoreInv, OwedInv, Monitor
    PROVE  OwedInv'
<1> USE DEF OwedInv, Operations, WakeUpIsOwed, Alive
<1>1. UNCHANGED <<msg, late, tcpPc>>
  BY DEF Monitor, Accept, Recv, RecvData, RecvEnd, MonitorLocks, Ask, Write, MonitorComposes,
         MonitorSends, MonitorUnlocks, WriteWaits, MonitorRelocks, Close, CloseWaits, thrVars
<1>2. /\ pcb \in Alive \cup {"none", "freed"} /\ op \in {"none", "write", "close"}
      /\ srvPc \in {"accept", "recv", "fetch", "relock", "waitClose"} => job = "none"
      /\ srvPc \in {"lock", "core", "close"} => job # "delayed"
      /\ op = "close" => srvPc = "waitClose"
      /\ token => op = "none"
  BY DEF CoreInv, TypeOK, Jobs, Closing
<1>3. CASE Accept \/ Recv \/ RecvData \/ RecvEnd \/ MonitorLocks \/ Ask \/ MonitorComposes
             \/ MonitorSends \/ MonitorUnlocks \/ MonitorRelocks
  <2>1. /\ UNCHANGED <<pcb, op, token>>
        /\ srvPc' # "waitClose"
        /\ job' = "delayed" => job = "delayed"
    BY <1>3 DEF Accept, Recv, RecvData, RecvEnd, MonitorLocks, Ask, MayTransmit,
                MonitorComposes, MonitorSends, MonitorUnlocks, MonitorRelocks, connVars, InCore
  <2> QED
    BY <2>1
<1>4. CASE Write
  BY <1>2, <1>4 DEF Write, MayTransmit
<1>5. CASE WriteWaits
  BY <1>2, <1>5 DEF WriteWaits
<1>6. CASE Close
  BY <1>2, <1>6 DEF Close, ClosePending, connVars
<1>7. CASE CloseWaits
  BY <1>2, <1>7 DEF CloseWaits, FreeConn
<1> QED
  BY <1>3, <1>4, <1>5, <1>6, <1>7 DEF Monitor

LEMMA NextOwed == CoreInv /\ OwedInv /\ [Next]_vars => OwedInv'
<1> SUFFICES ASSUME CoreInv, OwedInv, [Next]_vars PROVE OwedInv'
  OBVIOUS
<1>1. late => tcpPc # "fetch"
  BY DEF CoreInv, Locking, InCore
<1>2. CASE Receive \/ Input \/ UNCHANGED vars
  <2>1. UNCHANGED <<connVars, srvVars, closePosted, thrVars>>
    BY <1>2 DEF Receive, Input, vars, netVars
  <2> QED
    BY <2>1 DEF connVars, srvVars, thrVars, OwedInv, Operations, WakeUpIsOwed, ClosePending
<1>3. CASE FetchFrame \/ FetchClose \/ Timeout
  <2>1. UNCHANGED <<connVars, srvVars>>
    BY <1>3 DEF FetchFrame, FetchClose, Timeout, Fetched
  <2>2. ClosePending => ClosePending'
    BY <1>1, <1>3 DEF FetchFrame, FetchClose, Timeout, Fetched, ClosePending
  <2> QED
    BY <2>1, <2>2 DEF connVars, srvVars, OwedInv, Operations, WakeUpIsOwed
<1>4. CASE LockCore \/ LateTimer \/ TcpipComposes \/ TcpipSends \/ TcpipReturns
  <2>1. UNCHANGED <<connVars, srvVars>>
    BY <1>4 DEF LockCore, LateTimer, TcpipComposes, TcpipSends, TcpipReturns
  <2>2. ClosePending => ClosePending'
    BY <1>4 DEF LockCore, LateTimer, TcpipComposes, TcpipSends, TcpipReturns, netVars,
                ClosePending
  <2> QED
    BY <2>1, <2>2 DEF connVars, srvVars, OwedInv, Operations, WakeUpIsOwed
<1> QED
  BY <1>2, <1>3, <1>4, WorkKeepsOwed, MonitorKeepsOwed DEF Next, Tcpip

(* err_tcp, do_writemore, do_close_internal and their timers: none of their *)
(* interleavings takes the wake-up from a monitor that waits.              *)
THEOREM WaitersAreOwed == Spec => []WakeUpIsOwed
<1>1. Init => OwedInv
  BY DEF Init, OwedInv, Operations, WakeUpIsOwed
<1>2. OwedInv => WakeUpIsOwed
  BY DEF OwedInv
<1> QED
  BY <1>1, <1>2, NextOwed, CoreInvariance, PTL DEF Spec

=============================================================================
