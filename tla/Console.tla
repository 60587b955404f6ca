------------------------------- MODULE Console -------------------------------
(***************************************************************************)
(* The command line on the debug UART: hal_uart.c's two queues and its     *)
(* interrupt, hal_cli.c, mid_dbg.c, and mid_cli.c's console task with its  *)
(* line editing, password and dispatch of commands.                        *)
(*                                                                         *)
(* A string that is sent stands for one character.  What a command does is *)
(* in the modules of the parts it changes; here it gives a number of pages *)
(* of output, one for each call of its handler.                            *)
(***************************************************************************)
EXTENDS Integers, Sequences, FiniteSets, SequencesExt

CONSTANTS
    Letters,        \* printable characters, Space among them
    Space,
    Passwd,         \* the password, a sequence of letters
    Commands,       \* the names of the commands
    Parames,        \* how many parameters a command expects
    Pages,          \* how many pages of output it gives
    VarsSize,       \* cmdMAX_VARS_SIZE, the entries of xargv: 10
    StringSize,     \* cmdMAX_STRING_SIZE, the characters of an entry: 20
    InputSize,      \* cmdMAX_INPUT_SIZE and the range of inputIndex: 256
    QueueSize       \* configCOMMAND_INT_MAX_OUTPUT_SIZE

ASSUME SizeAssumption == InputSize \in Nat \ {0} /\ QueueSize \in Nat \ {0}
ASSUME CommandAssumption ==
    /\ Space \in Letters
    /\ <<>> \notin Commands
    /\ \A c \in Commands : Parames[c] \in Nat /\ Pages[c] \in Nat \ {0}

VARIABLES
    rxed,           \* xRxedChars
    tx,             \* the number of characters in xCharsForTx
    txe,            \* the transmit interrupt is enabled
    out,            \* strings the console task still has to send before it goes on
    putting,        \* its next statement in hal_uart_put_char
    status,         \* its status: 0 input, 2 password, 3 command, LOST
    permission,     \* PASSWD_CORRECT
    inputIndex,
    cInputString,
    cmd,            \* mid_cli_parse_command's static cmd, <<>> for NULL
    page,           \* pages the running command has given
    typed,          \* history: the line as the user sees it
    longLine        \* history: since it was cleared the buffer has been full

uartVars == <<rxed, tx, txe>>
outVars  == <<out, putting>>
lineVars == <<inputIndex, cInputString, typed, longLine>>
cmdVars  == <<cmd, page>>
vars     == <<uartVars, outVars, status, permission, lineVars, cmdVars>>

BS      == "backspace"
NEWLINE == "newline"
CONTROL == "control"      \* any other character, DEL among them
NUL     == "nul"
LOST    == 4              \* behind an undefined write
ASSUME LetterAssumption == NUL \notin Letters

Chars   == Letters \cup {BS, NEWLINE, CONTROL}
Buffer  == 0 .. InputSize - 1
Cleared == [i \in Buffer |-> NUL]

(* The string in cInputString: what comes before the first NUL.  A buffer  *)
(* without one is taken to be followed by one.                             *)
Length == IF \E i \in Buffer : cInputString[i] = NUL
          THEN CHOOSE i \in Buffer :
                 cInputString[i] = NUL /\ \A j \in 0 .. i - 1 : cInputString[j] # NUL
          ELSE InputSize
Text   == [i \in 1 .. Length |-> cInputString[i - 1]]

(* mid_cli_string_split counts the spaces that follow another character,   *)
(* a second space in a row being one.                                      *)
Separators(line) ==
    LET sep[i \in 0 .. Len(line)] ==
          i > 0 /\ line[i] = Space /\ (i = 1 \/ ~sep[i - 1])
    IN  {i \in 1 .. Len(line) : sep[i]}
Split(line) == Cardinality(Separators(line))

(* It writes the i-th character, a separator as a NUL, to dest[num][index]. *)
Before(line, i)   == {j \in Separators(line) : j < i}
WordNum(line, i)  == Cardinality(Before(line, i))
WordStart(line, i) == CHOOSE s \in Before(line, i) \cup {0} : \A j \in Before(line, i) : j <= s
WordIndex(line, i) == i - 1 - WordStart(line, i)

(* It checks neither: does every write stay in its entry of xargv.         *)
Fits(line) ==
    \A i \in 1 .. Len(line) : WordNum(line, i) < VarsSize /\ WordIndex(line, i) < StringSize

(* The command an input names: it is followed by a space or by the end.    *)
Named(line) ==
    {c \in Commands : IsPrefix(c, line) /\ (Len(line) = Len(c) \/ line[Len(c) + 1] = Space)}

TypeOK ==
    /\ rxed \in Seq(Chars) /\ Len(rxed) <= QueueSize
    /\ tx \in 0 .. QueueSize
    /\ txe \in BOOLEAN
    /\ out \in 0 .. 3
    /\ putting \in {"send", "enable"}
    /\ status \in {0, 2, 3, LOST}
    /\ permission \in BOOLEAN
    /\ inputIndex \in Buffer
    /\ cInputString \in [Buffer -> Letters \cup {NUL}]
    /\ cmd \in Commands \cup {<<>>}
    /\ page \in Nat
    /\ typed \in Seq(Letters)
    /\ longLine \in BOOLEAN

Init ==
    /\ rxed = <<>>
    /\ tx = 0
    /\ txe = FALSE
    /\ out = 0
    /\ putting = "send"
    /\ status = 0
    /\ permission = FALSE
    /\ inputIndex = 0
    /\ cInputString = Cleared
    /\ cmd = <<>>
    /\ page = 0
    /\ typed = <<>>
    /\ longLine = FALSE

-----------------------------------------------------------------------------
(* The UART.                                                               *)

(* USART1_IRQHandler, receive: a character that finds the queue full is    *)
(* lost.  One the USART loses while the transmit branch waits never comes. *)
Receive(c) ==
    /\ rxed' = IF Len(rxed) < QueueSize THEN Append(rxed, c) ELSE rxed
    /\ UNCHANGED <<tx, txe, outVars, status, permission, lineVars, cmdVars>>

(* USART1_IRQHandler, transmit: it waits for each character to leave.      *)
Transmit ==
    /\ txe
    /\ tx' = 0
    /\ txe' = FALSE
    /\ UNCHANGED <<rxed, outVars, status, permission, lineVars, cmdVars>>

Queued == IF tx < QueueSize THEN tx + 1 ELSE tx

(* dbg_string by another task: a critical section.                         *)
DbgString ==
    /\ tx' = Queued
    /\ txe' = (txe \/ tx < QueueSize)
    /\ UNCHANGED <<rxed, outVars, status, permission, lineVars, cmdVars>>

(* Mutant: the interrupt is enabled before the character is queued.        *)
PutCharEnableFirst ==
    /\ out > 0
    /\ IF putting = "send"
       THEN txe' = TRUE /\ putting' = "enable" /\ UNCHANGED <<tx, out>>
       ELSE tx' = Queued /\ putting' = "send" /\ out' = out - 1 /\ UNCHANGED txe
    /\ UNCHANGED <<rxed, status, permission, lineVars, cmdVars>>

(* hal_uart_put_char by the console task: the character, then the enable   *)
(* bit.  Without a place in the queue the character is dropped.            *)
PutChar ==
    /\ out > 0
    /\ IF putting = "send"
       THEN /\ tx' = Queued
            /\ IF tx < QueueSize
               THEN putting' = "enable" /\ UNCHANGED out
               ELSE out' = out - 1 /\ UNCHANGED putting
            /\ UNCHANGED txe
       ELSE /\ txe' = TRUE
            /\ putting' = "send"
            /\ out' = out - 1
            /\ UNCHANGED tx
    /\ UNCHANGED <<rxed, status, permission, lineVars, cmdVars>>

-----------------------------------------------------------------------------
(* The console task: input of a line.                                      *)

Ready(s) == out = 0 /\ status = s

(* Strings sent: the echo once the password was given, and one more.       *)
Echo == IF permission THEN 1 ELSE 0

EndOfLine ==
    /\ Ready(0)
    /\ rxed # <<>> /\ Head(rxed) = NEWLINE
    /\ rxed' = Tail(rxed)
    /\ status' = IF permission THEN 3 ELSE 2
    /\ out' = Echo + 1
    /\ UNCHANGED <<tx, txe, putting, permission, lineVars, cmdVars>>

Backspace ==
    /\ Ready(0)
    /\ rxed # <<>> /\ Head(rxed) = BS
    /\ rxed' = Tail(rxed)
    /\ IF inputIndex > 0
       THEN /\ inputIndex' = inputIndex - 1
            /\ cInputString' = [cInputString EXCEPT ![inputIndex'] = NUL]
            /\ typed' = IF typed = <<>> THEN <<>> ELSE Front(typed)
            /\ out' = Echo + 1
       ELSE UNCHANGED <<inputIndex, cInputString, typed, out>>
    /\ UNCHANGED <<tx, txe, putting, status, permission, longLine, cmdVars>>

(* Mutant: an index of more than eight bits, which reaches the buffer's end. *)
NextIndexWide(i) == i + 1

(* inputIndex is a U8: the test against cmdMAX_INPUT_SIZE never fails.     *)
NextIndex(i) == (i + 1) % InputSize

Letter ==
    /\ Ready(0)
    /\ rxed # <<>> /\ Head(rxed) \in Letters
    /\ rxed' = Tail(rxed)
    /\ cInputString' = [cInputString EXCEPT ![inputIndex] = Head(rxed)]
    /\ inputIndex' = NextIndex(inputIndex)
    /\ typed' = IF longLine THEN typed ELSE Append(typed, Head(rxed))
    /\ longLine' = (longLine \/ Len(typed') = InputSize)
    /\ out' = Echo
    /\ UNCHANGED <<tx, txe, putting, status, permission, cmdVars>>

(* Every other character is echoed and ignored.                            *)
Ignore ==
    /\ Ready(0)
    /\ rxed # <<>> /\ Head(rxed) = CONTROL
    /\ rxed' = Tail(rxed)
    /\ out' = Echo
    /\ UNCHANGED <<tx, txe, putting, status, permission, lineVars, cmdVars>>

-----------------------------------------------------------------------------
(* The console task: password and command.                                 *)

ClearLine ==
    /\ cInputString' = Cleared
    /\ inputIndex' = 0
    /\ typed' = <<>>
    /\ longLine' = FALSE

(* Mutant: a wrong password stays in the buffer.                           *)
CheckPasswordKeeps ==
    /\ Ready(2)
    /\ permission' = (Text = Passwd)
    /\ status' = IF permission' THEN 3 ELSE 0
    /\ out' = IF permission' THEN 0 ELSE IF inputIndex = 0 THEN 1 ELSE 2
    /\ inputIndex' = 0 /\ typed' = <<>> /\ longLine' = FALSE
    /\ UNCHANGED <<uartVars, putting, cInputString, cmdVars>>

CheckPassword ==
    /\ Ready(2)
    /\ permission' = (Text = Passwd)
    /\ status' = IF permission' THEN 3 ELSE 0
    /\ out' = IF permission' THEN 0 ELSE IF inputIndex = 0 THEN 1 ELSE 2
    /\ ClearLine
    /\ UNCHANGED <<uartVars, putting, cmdVars>>

(* An empty line: only the prompt.                                         *)
EmptyLine ==
    /\ Ready(3) /\ inputIndex = 0
    /\ status' = 0
    /\ out' = 1
    /\ UNCHANGED <<uartVars, putting, permission, lineVars, cmdVars>>

(* The line is done: its last output and the prompt.                       *)
Prompt ==
    /\ status' = 0
    /\ out' = 2
    /\ ClearLine

(* No command of this name, or not with these parameters.                  *)
RejectLine ==
    /\ Ready(3) /\ inputIndex # 0
    /\ cmd = <<>>
    /\ Named(Text) # {} => Fits(Text)
    /\ \A c \in Named(Text) : Split(Text) # Parames[c]
    /\ Prompt
    /\ UNCHANGED <<uartVars, putting, permission, cmdVars>>

CmdAfter(c, p)  == IF p = 0 THEN <<>> ELSE c

(* Mutant: the handler does not see that its last page is given.           *)
PageAfterEndless(c, p) == (p % Pages[c]) + 1

PageAfter(c, p) == (p + 1) % Pages[c]

(* One call of the handler; page 0 is the state between two commands.      *)
CallHandler ==
    /\ Ready(3) /\ inputIndex # 0
    /\ \E c \in Commands :
        /\ \/ cmd = c
           \/ cmd = <<>> /\ c \in Named(Text) /\ Fits(Text) /\ Split(Text) = Parames[c]
        /\ page' = PageAfter(c, page)
        /\ cmd' = CmdAfter(c, page')
    /\ IF page' = 0
       THEN Prompt
       ELSE out' = 1 /\ UNCHANGED <<status, lineVars>>
    /\ UNCHANGED <<uartVars, putting, permission>>

(* The line of a command has a word too long or words too many: the split  *)
(* writes where it should not, before they are counted.  What comes then   *)
(* is undefined.  Here the console task stops, and no property speaks of   *)
(* it any more.                                                            *)
Overrun ==
    /\ Ready(3) /\ inputIndex # 0
    /\ cmd = <<>> /\ Named(Text) # {} /\ ~Fits(Text)
    /\ status' = LOST
    /\ UNCHANGED <<uartVars, outVars, permission, lineVars, cmdVars>>

-----------------------------------------------------------------------------
ConsoleTask ==
    \/ PutChar \/ EndOfLine \/ Backspace \/ Letter \/ Ignore
    \/ CheckPassword \/ EmptyLine \/ RejectLine \/ CallHandler \/ Overrun

Next ==
    \/ ConsoleTask
    \/ \E c \in Chars : Receive(c)
    \/ Transmit
    \/ DbgString

(* The interrupt is served and the console task is time sliced.  Nobody    *)
(* has to type anything.                                                   *)
Fairness == WF_vars(ConsoleTask) /\ WF_vars(Transmit)

Spec == Init /\ [][Next]_vars /\ Fairness

-----------------------------------------------------------------------------
(* Properties.                                                             *)

(* Until a line fills the buffer, what the console compares and parses is  *)
(* the line the user sees: nothing of an earlier line, of a wrong password *)
(* or of a deleted character is left in the buffer.  And no command is     *)
(* under way while a line is typed, which would be taken for a request for *)
(* that command's next page.                                               *)
LineIsWhatWasTyped ==
    status # LOST =>
        /\ ~longLine => Text = typed
        /\ status # 3 => cmd = <<>> /\ page = 0

(* Every line is answered and the console asks for the next one, through   *)
(* all pages of a command and also when the transmit queue is full, unless *)
(* the words of a command's line do not fit xargv.                         *)
LinesAreAnswered == status # 0 ~> ((status = 0 /\ out = 0) \/ status = LOST)

(* Whatever waits in the queue, the transmit interrupt is enabled or the    *)
(* console task is about to enable it, however tasks and interrupt meet.   *)
QueueIsAttended ==
    status # LOST /\ tx > 0 => txe \/ (putting = "enable" /\ out > 0)

(* What is queued is sent: no order of the tasks that write and of the     *)
(* interrupt leaves characters behind with the interrupt disabled.         *)
QueuedIsSent == tx > 0 ~> (tx = 0 \/ status = LOST)

=============================================================================
