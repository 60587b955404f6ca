------------------------------ MODULE NetServer ------------------------------
(***************************************************************************)
(* netconfig.c's network monitor, which serves one TCP client after the    *)
(* other with the date and what Climate has measured.  Its priority is     *)
(* above that of the th and the console task: they run only while it waits *)
(* for the network, for a client or for a request, and it finds th_data as *)
(* a copy that it has interrupted has left it.                             *)
(***************************************************************************)
EXTENDS Climate

CONSTANTS
    Backlog,        \* bound: clients lwIP keeps waiting
    MaxRequests     \* bound: requests that wait to be received

ASSUME BacklogAssumption  == Backlog \in Nat \ {0}
ASSUME RequestsAssumption == MaxRequests \in Nat \ {0}

VARIABLES
    srvPc,          \* the monitor's next statement
    listening,      \* server_init has succeeded
    waiting,        \* clients that are connected and not accepted yet
    conn,           \* the accepted client: "none", "open" or "left"
    requests,       \* its requests that are not received yet
    sockets,        \* client sockets in use in lwIP
    sent            \* the values of the last answer

netVars == <<waiting, conn, requests>>
srvVars == <<srvPc, listening, netVars, sockets, sent>>
vars    == <<climateVars, srvVars>>

TypeOK ==
    /\ ClimateTypeOK
    /\ srvPc \in {"network", "setup", "accept", "recv", "answer", "close"}
    /\ listening \in BOOLEAN
    /\ waiting \in 0 .. Backlog
    /\ conn \in {"none", "open", "left"}
    /\ requests \in 0 .. MaxRequests
    /\ sockets \in Nat
    /\ sent \in Values

Init ==
    /\ ClimateInit
    /\ srvPc = "network"
    /\ listening = FALSE
    /\ waiting = 0
    /\ conn = "none"
    /\ requests = 0
    /\ sockets = 0
    /\ sent = ZeroValues

-----------------------------------------------------------------------------
(* The clients.                                                            *)

ClientConnects ==
    /\ listening /\ waiting < Backlog
    /\ waiting' = waiting + 1
    /\ UNCHANGED <<climateVars, srvPc, listening, conn, requests, sockets, sent>>

ClientSends ==
    /\ conn = "open" /\ requests < MaxRequests
    /\ requests' = requests + 1
    /\ UNCHANGED <<climateVars, srvPc, listening, waiting, conn, sockets, sent>>

(* A reset discards what was not received.                                 *)
ClientLeaves ==
    /\ conn = "open"
    /\ conn' = "left"
    /\ requests' \in {0, requests}
    /\ UNCHANGED <<climateVars, srvPc, listening, waiting, sockets, sent>>

-----------------------------------------------------------------------------
(* The network monitor.                                                    *)

NetworkUp ==
    /\ srvPc = "network"
    /\ srvPc' = "setup"
    /\ UNCHANGED <<climateVars, listening, netVars, sockets, sent>>

(* Each of socket, bind and listen may fail, and nobody asks.              *)
ServerInit ==
    /\ srvPc = "setup"
    /\ listening' \in BOOLEAN
    /\ srvPc' = "accept"
    /\ UNCHANGED <<climateVars, netVars, sockets, sent>>

(* Mutant: accept does not wait for a client.                              *)
AcceptAtOnce ==
    /\ srvPc = "accept"
    /\ listening
    /\ waiting' = waiting - 1
    /\ \/ srvPc' = "recv" /\ conn' = "open" /\ sockets' = sockets + 1
       \/ UNCHANGED <<srvPc, conn, sockets>>
    /\ UNCHANGED <<climateVars, listening, requests, sent>>

(* accept fails when the client has gone or lwIP has no socket left.  On a *)
(* socket that does not listen it fails at once, again and again.          *)
Accept ==
    /\ srvPc = "accept"
    /\ listening /\ waiting > 0
    /\ waiting' = waiting - 1
    /\ \/ srvPc' = "recv" /\ conn' = "open" /\ sockets' = sockets + 1
       \/ UNCHANGED <<srvPc, conn, sockets>>
    /\ UNCHANGED <<climateVars, listening, requests, sent>>

(* Mutant: length >= 0, which holds for every U32.                         *)
RecvAnything ==
    /\ srvPc = "recv"
    /\ \/ requests > 0 /\ requests' \in 0 .. requests - 1
       \/ requests = 0 /\ conn = "left" /\ UNCHANGED requests
    /\ srvPc' = "answer"
    /\ UNCHANGED <<climateVars, listening, waiting, conn, sockets, sent>>

(* One recv may take several requests; 0 bytes mean the client has left.   *)
Recv ==
    /\ srvPc = "recv"
    /\ \/ requests > 0 /\ requests' \in 0 .. requests - 1 /\ srvPc' = "answer"
       \/ requests = 0 /\ conn = "left" /\ srvPc' = "close" /\ UNCHANGED requests
    /\ UNCHANGED <<climateVars, listening, waiting, conn, sockets, sent>>

Answer ==
    /\ srvPc = "answer"
    /\ sent' = thData
    /\ srvPc' = "recv"
    /\ UNCHANGED <<climateVars, listening, netVars, sockets>>

(* Mutant: client_fd is forgotten without a close.                         *)
CloseForgets ==
    /\ srvPc = "close"
    /\ conn' = "none"
    /\ srvPc' = "accept"
    /\ UNCHANGED <<climateVars, listening, waiting, requests, sockets, sent>>

Close ==
    /\ srvPc = "close"
    /\ conn' = "none"
    /\ sockets' = sockets - 1
    /\ srvPc' = "accept"
    /\ UNCHANGED <<climateVars, listening, waiting, requests, sent>>

-----------------------------------------------------------------------------
Monitor == NetworkUp \/ ServerInit \/ Accept \/ Recv \/ Answer \/ Close

Blocked ==
    \/ srvPc = "network"
    \/ srvPc = "accept" /\ listening /\ waiting = 0
    \/ srvPc = "recv" /\ requests = 0 /\ conn = "open"

(* The tasks of lower priority.                                            *)
LowerTask == Blocked /\ (ThTask \/ ThReadTemp \/ ThReadHum) /\ UNCHANGED srvVars

Next ==
    \/ LowerTask
    \/ Plug /\ UNCHANGED srvVars
    \/ ClientConnects \/ ClientSends \/ ClientLeaves
    \/ Monitor

(* The monitor runs whenever it can.  The network need not come up.        *)
Fairness == WF_vars(ServerInit \/ Accept \/ Recv \/ Answer \/ Close)

Spec == Init /\ [][Next]_vars /\ Fairness

-----------------------------------------------------------------------------
(* Properties.                                                             *)

(* A failed temperature, unlike a failed humidity, never gets out: what    *)
(* the clock shows and sends as a temperature was measured in a pass whose *)
(* first two measurements succeeded, or is the initial 0.                  *)
OnlyGoodTemperatures == thData.temp >= 0 /\ sent.temp >= 0

(* Over any number of clients exactly the accepted one has a socket: lwIP's *)
(* few sockets do not run out.                                             *)
OneSocket == sockets = IF conn = "none" THEN 0 ELSE 1

(* Clients are served for good: a request is answered, unless the client   *)
(* resets the connection, and a client that leaves makes room for the next *)
(* one.                                                                    *)
RequestsAreAnswered   == requests > 0 ~> (srvPc = "answer" \/ requests = 0)
LeftClientsAreDropped == conn = "left" ~> conn # "left"
ClientsAreServed      == RequestsAreAnswered /\ LeftClientsAreDropped

=============================================================================
