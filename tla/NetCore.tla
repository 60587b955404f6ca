------------------------------ MODULE NetCore ------------------------------
(***************************************************************************)
(* How a frame gets from the DM9000 to the network monitor and an answer   *)
(* back: ethernetif.c's task, lwIP's tcpip thread with its mailbox and its *)
(* core lock, and the monitor inside accept, recv, send and close.         *)
(*                                                                         *)
(* What a frame is matters only when the core looks at it: the two queues  *)
(* are counters, and the kind of a frame is chosen when it is processed.   *)
(* TCP reorders and repeats nothing (segments out of order are dropped),   *)
(* and a peer sends no data after its FIN: in recvmbox the ends of file    *)
(* come after the data.  A frame that acknowledges and carries data or a   *)
(* FIN does the one after the other.  One client at a time; NetServer has  *)
(* those that wait.                                                        *)
(***************************************************************************)
EXTENDS Integers

CONSTANTS
    PbufMax,        \* frames that fit in lwIP's heap at most
    MboxLen         \* archMESG_QUEUE_LENGTH, whatever size is asked for

(* 7 and 10: a frame takes 536 bytes of the 4 KB at least.                 *)
ASSUME PbufAssumption == PbufMax \in Nat \ {0}
ASSUME MboxAssumption == MboxLen \in Nat /\ PbufMax + 2 <= MboxLen

VARIABLES
    phyPc,          \* net_phy: "poll", or "deliver" with a frame in its hand
    used,           \* frames in the heap
    queued,         \* frames in the tcpip thread's mailbox
    closePosted,    \* do_delconn is in it
    locked,         \* lock_tcpip_core is taken
    tcpPc,          \* the tcpip thread's next statement
    msg,            \* what it has fetched
    late,           \* it runs a timer while it waits for the core lock
    tx,             \* whose frame is in Tx_Data_Buf
    up,             \* there is a netconn for the client
    pcb,            \* its pcb: ESTABLISHED, CLOSE_WAIT, LAST_ACK, NULL or freed
    op,             \* its state: NETCONN_WRITE, NETCONN_CLOSE or neither
    token,          \* its op_completed is available
    unread,         \* frames in its recvmbox
    ends,           \* NULLs in its recvmbox
    srvPc,          \* the monitor's next statement
    job             \* what it wants from the core, or has got

thrVars  == <<tcpPc, msg, late>>
netVars  == <<phyPc, used, queued, closePosted>>
connVars == <<up, pcb, op, token, unread, ends>>
srvVars  == <<srvPc, job>>
vars     == <<netVars, locked, thrVars, tx, connVars, srvVars>>

InCore == {"compose", "send", "unlock"}
Alive  == {"open", "half", "closing"}

TypeOK ==
    /\ phyPc \in {"poll", "deliver"}
    /\ used \in 0 .. PbufMax
    /\ queued \in 0 .. MboxLen
    /\ closePosted \in BOOLEAN
    /\ locked \in BOOLEAN
    /\ tcpPc \in {"fetch", "lock", "work"} \cup InCore
    /\ msg \in {"none", "frame", "timer", "close"}
    /\ late \in BOOLEAN
    /\ tx \in {"none", "tcpip", "late", "monitor"}
    /\ up \in BOOLEAN
    /\ pcb \in Alive \cup {"none", "freed"}
    /\ op \in {"none", "write", "close"}
    /\ token \in BOOLEAN
    /\ unread \in 0 .. MboxLen
    /\ ends \in 0 .. MboxLen
    /\ srvPc \in {"accept", "recv", "fetch", "lock", "core", "wait", "relock",
                  "close", "waitClose"} \cup InCore
    /\ job \in {"none", "accepted", "refused", "taken", "write", "delayed"}

(* LwIP_Init is done and both tasks wait.                                  *)
Init ==
    /\ phyPc = "poll" /\ used = 0 /\ queued = 0 /\ closePosted = FALSE
    /\ locked = FALSE
    /\ tcpPc = "fetch" /\ msg = "none" /\ late = FALSE
    /\ tx = "none"
    /\ up = FALSE /\ pcb = "none" /\ op = "none" /\ token = FALSE
    /\ unread = 0 /\ ends = 0
    /\ srvPc = "accept" /\ job = "none"

-----------------------------------------------------------------------------
(* net_phy.  Its priority is the lowest.                                   *)

MboxRoom == queued + (IF closePosted THEN 1 ELSE 0) < MboxLen
RecvRoom == unread + ends < MboxLen

TcpipBlocked ==
    \/ tcpPc = "fetch" /\ queued = 0 /\ ~closePosted
    \/ tcpPc = "lock" /\ locked
MonitorBlocked ==
    \/ srvPc = "accept" /\ ~up
    \/ srvPc = "fetch" /\ unread = 0 /\ ends = 0
    \/ srvPc \in {"wait", "waitClose"} /\ ~token
    \/ srvPc \in {"lock", "relock"} /\ locked
PhyRuns(at) == phyPc = at /\ TcpipBlocked /\ MonitorBlocked

(* low_level_input: without a pbuf the frame is lost.                      *)
Receive ==
    /\ PhyRuns("poll")
    /\ used < PbufMax
    /\ used' = used + 1
    /\ phyPc' = "deliver"
    /\ UNCHANGED <<queued, closePosted, locked, thrVars, tx, connVars, srvVars>>

(* Mutant: a frame that cannot be posted is not freed.                     *)
InputLeaks ==
    /\ PhyRuns("deliver")
    /\ \/ MboxRoom /\ queued' = queued + 1
       \/ UNCHANGED queued
    /\ phyPc' = "poll"
    /\ UNCHANGED <<used, closePosted, locked, thrVars, tx, connVars, srvVars>>

(* tcpip_input may find no memory for its message or no place for it.      *)
Input ==
    /\ PhyRuns("deliver")
    /\ \/ MboxRoom /\ queued' = queued + 1 /\ UNCHANGED used
       \/ used' = used - 1 /\ UNCHANGED queued
    /\ phyPc' = "poll"
    /\ UNCHANGED <<closePosted, locked, thrVars, tx, connVars, srvVars>>

-----------------------------------------------------------------------------
(* The tcpip thread: a message or a timeout, then the core lock.           *)

Fetched(m) ==
    /\ tcpPc = "fetch"
    /\ msg' = m
    /\ tcpPc' = "lock"
    /\ UNCHANGED <<phyPc, used, locked, late, tx, connVars, srvVars>>

FetchFrame ==
    /\ queued > 0
    /\ queued' = queued - 1
    /\ Fetched("frame")
    /\ UNCHANGED closePosted

FetchClose ==
    /\ closePosted
    /\ closePosted' = FALSE
    /\ Fetched("close")
    /\ UNCHANGED queued

Timeout == Fetched("timer") /\ UNCHANGED <<queued, closePosted>>

(* Mutant: it goes on although the monitor has the lock.                   *)
LockCoreAnyway ==
    /\ tcpPc = "lock"
    /\ locked' = TRUE
    /\ tcpPc' = "work"
    /\ UNCHANGED <<netVars, msg, late, tx, connVars, srvVars>>

LockCore ==
    /\ tcpPc = "lock" /\ ~locked
    /\ locked' = TRUE
    /\ tcpPc' = "work"
    /\ UNCHANGED <<netVars, msg, late, tx, connVars, srvVars>>

(* sys_sem_wait: a timeout that comes before the lock runs its handler,    *)
(* without the lock.                                                       *)
LateTimer ==
    /\ tcpPc = "lock" /\ locked
    /\ late' = TRUE
    /\ tcpPc' = "work"
    /\ UNCHANGED <<netVars, locked, msg, tx, connVars, srvVars>>

Cause == IF late THEN "timer" ELSE msg

-----------------------------------------------------------------------------
(* What a message or a timer does to the client's connection.              *)

Freed == used' = used - (IF Cause = "frame" THEN 1 ELSE 0)

(* ARP, a segment of no connection, a timer with nothing to do, data the   *)
(* monitor no longer wants, a write or a close that does not succeed yet.  *)
Nothing == Cause # "close" /\ Freed /\ UNCHANGED connVars

(* accept_function, when the handshake is over.                            *)
Connect ==
    /\ Cause = "frame" /\ ~up
    /\ up' = TRUE
    /\ pcb' = "open"
    /\ Freed
    /\ UNCHANGED <<op, token, unread, ends>>

(* Mutant: the frame is freed although it is in recvmbox.                  *)
DataFreed ==
    /\ Cause = "frame" /\ pcb = "open" /\ op # "close" /\ RecvRoom
    /\ unread' = unread + 1
    /\ Freed
    /\ UNCHANGED <<up, pcb, op, token, ends>>

(* recv_tcp: the frame goes to recvmbox.                                   *)
Data ==
    /\ Cause = "frame" /\ pcb = "open" /\ op # "close" /\ RecvRoom
    /\ unread' = unread + 1
    /\ UNCHANGED <<used, up, pcb, op, token, ends>>

(* recv_tcp, which forgets the end of file if recvmbox is full.  When a    *)
(* close has been tried, tcp_recv_null, which closes the pcb or fails.     *)
Fin ==
    /\ Cause = "frame" /\ pcb = "open"
    /\ \/ op # "close" /\ pcb' = "half" /\ ends' = IF RecvRoom THEN ends + 1 ELSE ends
       \/ op = "close" /\ pcb' \in {"half", "closing"} /\ UNCHANGED ends
    /\ Freed
    /\ UNCHANGED <<up, op, token, unread>>

(* Mutant: err_tcp leaves the pcb in the netconn.                          *)
AbortKeepsPcb ==
    /\ Cause \in {"frame", "timer"} /\ pcb \in Alive /\ RecvRoom
    /\ ends' = ends + 1
    /\ op' = "none"
    /\ token' = (token \/ op # "none")
    /\ Freed
    /\ UNCHANGED <<up, pcb, unread>>

(* Mutant: err_tcp wakes nobody.                                           *)
AbortSilently ==
    /\ Cause \in {"frame", "timer"} /\ pcb \in Alive /\ RecvRoom
    /\ pcb' = "none"
    /\ ends' = ends + 1
    /\ op' = "none"
    /\ Freed
    /\ UNCHANGED <<up, token, unread>>

(* err_tcp, for a reset and for a peer that is silent for too long.  It    *)
(* would wait, with the core, for a place in recvmbox.                     *)
Abort ==
    /\ Cause \in {"frame", "timer"} /\ pcb \in Alive /\ RecvRoom
    /\ pcb' = "none"
    /\ ends' = ends + 1
    /\ op' = "none"
    /\ token' = (token \/ op # "none")
    /\ Freed
    /\ UNCHANGED <<up, unread>>

(* do_writemore from sent_tcp or poll_tcp: the rest is written.            *)
WriteDone ==
    /\ Cause \in {"frame", "timer"} /\ pcb \in Alive /\ op = "write"
    /\ op' = "none"
    /\ token' = TRUE
    /\ Freed
    /\ UNCHANGED <<up, pcb, unread, ends>>

Closed ==
    /\ pcb' = "none"
    /\ op' = "none"
    /\ token' = TRUE
    /\ Freed
    /\ UNCHANGED <<up, unread, ends>>

(* do_close_internal again, from sent_tcp or poll_tcp.                     *)
CloseDone ==
    /\ Cause \in {"frame", "timer"} /\ pcb \in Alive /\ op = "close"
    /\ Closed

(* The peer acknowledges the FIN tcp_recv_null has sent: the pcb is freed  *)
(* and nobody is told.                                                     *)
LastAck ==
    /\ Cause = "frame" /\ pcb = "closing"
    /\ pcb' = "freed"
    /\ Freed
    /\ UNCHANGED <<up, op, token, unread, ends>>

(* do_delconn.  tcp_close fails when there is no memory for the FIN.       *)
DelConn ==
    /\ Cause = "close"
    /\ \/ pcb # "none" /\ op' = "close" /\ UNCHANGED <<used, up, pcb, token, unread, ends>>
       \/ Closed

Work ==
    /\ tcpPc = "work"
    /\ \/ Nothing \/ Connect \/ Data \/ Fin \/ Abort
       \/ WriteDone \/ CloseDone \/ LastAck \/ DelConn
    /\ tcpPc' \in {"compose", "unlock"}
    /\ UNCHANGED <<phyPc, queued, closePosted, locked, msg, late, tx, srvVars>>

(* low_level_output: the copy to Tx_Data_Buf, then the critical section.   *)
TcpipComposes ==
    /\ tcpPc = "compose"
    /\ tx' = IF late THEN "late" ELSE "tcpip"
    /\ tcpPc' = "send"
    /\ UNCHANGED <<netVars, locked, msg, late, connVars, srvVars>>

TcpipSends ==
    /\ tcpPc = "send"
    /\ tcpPc' \in {"compose", "unlock"}
    /\ UNCHANGED <<netVars, locked, msg, late, tx, connVars, srvVars>>

(* Back in sys_mbox_fetch, or in sys_sem_wait.                             *)
TcpipReturns ==
    /\ tcpPc = "unlock"
    /\ late' = FALSE
    /\ IF late
       THEN tcpPc' = "lock" /\ UNCHANGED <<locked, msg>>
       ELSE tcpPc' = "fetch" /\ locked' = FALSE /\ msg' = "none"
    /\ UNCHANGED <<netVars, tx, connVars, srvVars>>

-----------------------------------------------------------------------------
(* The network monitor.                                                    *)

(* lwip_accept asks for the peer's address, and deletes a client that has  *)
(* gone.                                                                   *)
Accept ==
    /\ srvPc = "accept" /\ up
    /\ srvPc' = "lock" /\ job' = "accepted"
    /\ UNCHANGED <<netVars, locked, thrVars, tx, connVars>>

(* netconn_recv gives up after a fatal error, which is one with which the  *)
(* pcb went, or without memory for a netbuf.                               *)
Recv ==
    /\ srvPc = "recv"
    /\ srvPc' \in IF pcb = "none" THEN {"close"} ELSE {"fetch", "close"}
    /\ UNCHANGED <<job, netVars, locked, thrVars, tx, connVars>>

RecvData ==
    /\ srvPc = "fetch" /\ unread > 0
    /\ unread' = unread - 1
    /\ srvPc' = "lock" /\ job' = "taken"
    /\ UNCHANGED <<netVars, locked, thrVars, tx, up, pcb, op, token, ends>>

(* recv returns 0, and the monitor closes.                                 *)
RecvEnd ==
    /\ srvPc = "fetch" /\ unread = 0 /\ ends > 0
    /\ ends' = ends - 1
    /\ srvPc' = "close"
    /\ UNCHANGED <<job, netVars, locked, thrVars, tx, up, pcb, op, token, unread>>

MonitorLocks ==
    /\ srvPc = "lock" /\ ~locked
    /\ locked' = TRUE
    /\ srvPc' = "core"
    /\ UNCHANGED <<job, netVars, thrVars, tx, connVars>>

MayTransmit == srvPc' \in IF pcb = "none" THEN {"unlock"} ELSE {"compose", "unlock"}

(* do_getaddr or do_recv.                                                  *)
Ask ==
    /\ srvPc = "core" /\ job \in {"accepted", "taken"}
    /\ job' = IF job = "taken" THEN "taken" ELSE IF pcb = "none" THEN "refused" ELSE "none"
    /\ MayTransmit
    /\ UNCHANGED <<netVars, locked, thrVars, tx, connVars>>

(* do_write: all is written at once, there is nobody to write to, or the   *)
(* write is delayed.                                                       *)
Write ==
    /\ srvPc = "core" /\ job = "write"
    /\ \/ job' = "none" /\ UNCHANGED op
       \/ pcb # "none" /\ job' = "delayed" /\ op' = "write"
    /\ MayTransmit
    /\ UNCHANGED <<netVars, locked, thrVars, tx, up, pcb, token, unread, ends>>

MonitorComposes ==
    /\ srvPc = "compose"
    /\ tx' = "monitor"
    /\ srvPc' = "send"
    /\ UNCHANGED <<job, netVars, locked, thrVars, connVars>>

MonitorSends ==
    /\ srvPc = "send"
    /\ srvPc' = "unlock"
    /\ UNCHANGED <<job, netVars, locked, thrVars, tx, connVars>>

(* Then a request is freed and answered; a delayed write waits.            *)
MonitorUnlocks ==
    /\ srvPc = "unlock"
    /\ locked' = FALSE
    /\ \/ job = "none"    /\ srvPc' = "recv"  /\ UNCHANGED <<job, used>>
       \/ job = "refused" /\ srvPc' = "close" /\ UNCHANGED <<job, used>>
       \/ job = "taken"   /\ srvPc' = "lock"  /\ job' = "write" /\ used' = used - 1
       \/ job = "delayed" /\ srvPc' = "wait"  /\ UNCHANGED <<job, used>>
    /\ UNCHANGED <<phyPc, queued, closePosted, thrVars, tx, connVars>>

WriteWaits ==
    /\ srvPc = "wait" /\ token
    /\ token' = FALSE
    /\ srvPc' = "relock" /\ job' = "none"
    /\ UNCHANGED <<netVars, locked, thrVars, tx, up, pcb, op, unread, ends>>

MonitorRelocks ==
    /\ srvPc = "relock" /\ ~locked
    /\ locked' = TRUE
    /\ srvPc' = "unlock"
    /\ UNCHANGED <<job, netVars, thrVars, tx, connVars>>

FreeConn ==
    /\ up' = FALSE
    /\ pcb' = "none"
    /\ used' = used - unread
    /\ unread' = 0 /\ ends' = 0

(* netconn_delete, by lwip_close or by lwip_accept: post do_delconn ...    *)
Close ==
    /\ srvPc = "close" /\ MboxRoom
    /\ closePosted' = TRUE
    /\ srvPc' = "waitClose" /\ job' = "none"
    /\ UNCHANGED <<phyPc, used, queued, locked, thrVars, tx, connVars>>

(* Mutant: it does not wait for the core.                                  *)
CloseDoesNotWait ==
    /\ srvPc = "waitClose"
    /\ token' = FALSE
    /\ FreeConn
    /\ srvPc' = "accept"
    /\ UNCHANGED <<job, phyPc, queued, closePosted, locked, thrVars, tx, op>>

(* ... and wait, then netconn_free.                                        *)
CloseWaits ==
    /\ srvPc = "waitClose" /\ token
    /\ token' = FALSE
    /\ FreeConn
    /\ srvPc' = "accept"
    /\ UNCHANGED <<job, phyPc, queued, closePosted, locked, thrVars, tx, op>>

-----------------------------------------------------------------------------
Tcpip ==
    \/ FetchFrame \/ FetchClose \/ Timeout \/ LockCore \/ LateTimer
    \/ Work \/ TcpipComposes \/ TcpipSends \/ TcpipReturns

Monitor ==
    \/ Accept \/ Recv \/ RecvData \/ RecvEnd \/ MonitorLocks \/ Ask \/ Write
    \/ MonitorComposes \/ MonitorSends \/ MonitorUnlocks
    \/ WriteWaits \/ MonitorRelocks \/ Close \/ CloseWaits

Next == Receive \/ Input \/ Tcpip \/ Monitor

(* The two tasks are time sliced and take turns at the lock; no handler    *)
(* sends without end.  A message is fetched in its turn and timers run in  *)
(* their time.  A close that poll_tcp tries again and again succeeds when  *)
(* the heap is not full of frames that nobody will read.                   *)
Retry == Work /\ Cause = "timer" /\ unread < PbufMax /\ op = "close" /\ op' = "none"
Fairness ==
    /\ WF_vars(Tcpip) /\ WF_vars(Monitor)
    /\ SF_vars(MonitorLocks \/ MonitorRelocks) /\ SF_vars(LockCore)
    /\ SF_vars(TcpipSends /\ tcpPc' = "unlock")
    /\ SF_vars(FetchClose) /\ SF_vars(Timeout) /\ SF_vars(Retry)

Spec == Init /\ [][Next]_vars /\ Fairness

-----------------------------------------------------------------------------
(* Properties.                                                             *)

(* tcpip_apimsg_lock "has exclusive access to lwIP core code": while the   *)
(* monitor is in the core no message is processed, and the frame either of *)
(* them sends from the one Tx_Data_Buf is its own.  Only a timer that runs *)
(* while the tcpip thread waits for the lock breaks both.                  *)
CoreIsExclusive ==
    /\ ~(tcpPc \in {"work"} \cup InCore /\ ~late /\ srvPc \in {"core"} \cup InCore)
    /\ tcpPc = "send" /\ ~late => tx = "tcpip"
    /\ srvPc = "send" => tx \in {"monitor", "late"}

(* Every frame in the heap is in exactly one place, and is returned on     *)
(* every path: net_phy's hand, the mailbox, the tcpip thread's hand,       *)
(* recvmbox, the monitor's hand.                                           *)
PhyHolds     == IF phyPc = "deliver" THEN 1 ELSE 0
TcpipHolds   == IF msg = "frame" /\ (late \/ tcpPc \in {"lock", "work"}) THEN 1 ELSE 0
MonitorHolds == IF job = "taken" THEN 1 ELSE 0
PbufsAreOwned == used = PhyHolds + queued + TcpipHolds + unread + MonitorHolds

(* The tcpip thread never waits, with the core lock, for a place in        *)
(* recvmbox, which only the monitor can make, and no end of file is lost:  *)
(* while there is a pcb there is room.                                     *)
PostsNeverBlock == pcb \in Alive => RecvRoom

ClosePending ==
    closePosted \/ (msg = "close" /\ (late \/ tcpPc \in {"lock", "work"}))

(* A netconn is freed only when the core has done with it: no message, no  *)
(* operation and no wake-up of the last client is left for the next one,   *)
(* whatever reset, retry or timer raced with the close.                    *)
ConnOutlivesUse ==
    /\ ~up => pcb = "none" /\ unread = 0 /\ ends = 0
    /\ ClosePending \/ op = "close" => srvPc = "waitClose" /\ ~token
    /\ token \/ op = "write" => job = "delayed" \/ srvPc = "waitClose"
    /\ ~(token /\ op # "none")

(* Whoever waits for op_completed is still owed it, whatever reset, FIN or *)
(* timer came first: a delayed write by a pcb that can finish or fail, a   *)
(* close by its message in the mailbox or by an operation of the core.     *)
WakeUpIsOwed ==
    /\ job = "delayed" => token \/ (op = "write" /\ pcb \in {"open", "half"})
    /\ srvPc = "waitClose" =>
          token \/ ClosePending \/ (op = "close" /\ pcb \in Alive \cup {"freed"})

(* No wake-up is lost.  A write that is done lets the monitor go on, and a *)
(* close ends, whether it succeeds at once, later, or the peer is faster:  *)
(* except when nobody will read what fills the heap, or when the pcb is    *)
(* freed by LastAck.                                                       *)
WaitersAreWoken ==
    /\ (srvPc = "wait" /\ op # "write") ~> srvPc = "recv"
    /\ srvPc = "waitClose" ~> (srvPc = "accept" \/ unread = PbufMax \/ pcb = "freed")

=============================================================================
