--------------------------- MODULE Console_proofs ---------------------------
(***************************************************************************)
(* Safety of the command line for every alphabet, set of commands, size of *)
(* the line and size of the queues.                                        *)
(***************************************************************************)
EXTENDS Console, SequenceTheorems, TLAPS

(* As long as the line has not filled the buffer, the buffer holds what    *)
(* was typed, followed by NULs to its end.                                 *)
LineInv ==
    ~longLine =>
        /\ Len(typed) = inputIndex
        /\ \A i \in Buffer :
              cInputString[i] = IF i < inputIndex THEN typed[i + 1] ELSE NUL

(* A command is under way only in a line that is not empty and between two *)
(* of its pages.                                                           *)
CmdInv ==
    /\ status # 3 \/ inputIndex = 0 => cmd = <<>>
    /\ cmd = <<>> => page = 0
    /\ cmd # <<>> => page \in 1 .. Pages[cmd] - 1

(* The console task enables the interrupt only after a character.          *)
Attended == tx > 0 => txe \/ (putting = "enable" /\ out > 0)
UartInv  == Attended /\ (putting = "enable" => out > 0)

ConsoleInv == TypeOK /\ LineInv /\ CmdInv /\ UartInv

LEMMA InitConsoleInv == Init => ConsoleInv
<1> SUFFICES ASSUME Init PROVE ConsoleInv
  OBVIOUS
<1> USE SizeAssumption DEF Init
<1>1. TypeOK
  <2>1. <<>> \in Seq(Chars) /\ <<>> \in Seq(Letters) /\ Len(<<>>) = 0
    BY EmptySeq
  <2>2. 0 \in Buffer /\ Cleared \in [Buffer -> Letters \cup {NUL}]
    BY DEF Buffer, Cleared
  <2> QED
    BY <2>1, <2>2 DEF TypeOK
<1>2. LineInv
  BY DEF LineInv, Cleared, Buffer
<1>3. CmdInv
  BY DEF CmdInv
<1>4. UartInv
  BY DEF UartInv, Attended
<1> QED
  BY <1>1, <1>2, <1>3, <1>4 DEF ConsoleInv

-----------------------------------------------------------------------------
(* Types.                                                                  *)

(* Taking a character from the queue.                                      *)
LEMMA TakeOne ==
  ASSUME TypeOK, rxed # <<>>
  PROVE  Tail(rxed) \in Seq(Chars) /\ Len(Tail(rxed)) <= QueueSize
<1>1. Tail(rxed) \in Seq(Chars) /\ Len(Tail(rxed)) = Len(rxed) - 1 /\ Len(rxed) \in Nat
  BY HeadTailProperties, LenProperties DEF TypeOK
<1> QED
  BY <1>1, SizeAssumption DEF TypeOK

(* Deleting the last letter of what was typed.                             *)
LEMMA FrontOfTyped ==
  ASSUME NEW line \in Seq(Letters), line # <<>>
  PROVE  /\ Front(line) \in Seq(Letters)
         /\ Len(Front(line)) = Len(line) - 1
         /\ \A i \in 1 .. Len(line) - 1 : Front(line)[i] = line[i]
<1>1. Len(line) \in Nat \ {0}
  BY EmptySeq
<1>2. \A i \in 1 .. Len(line) - 1 : line[i] \in Letters
  BY <1>1, ElementOfSeq
<1> DEFINE n == Len(line) - 1
<1> HIDE DEF n
<1>3. n \in Nat
  BY <1>1 DEF n
<1>4. /\ SubSeq(line, 1, n) \in Seq(Letters)
      /\ Len(SubSeq(line, 1, n)) = IF 1 <= n THEN n - 1 + 1 ELSE 0
      /\ \A i \in 1 .. n - 1 + 1 : SubSeq(line, 1, n)[i] = line[1 + i - 1]
  BY <1>2, <1>3, SubSeqProperties DEF n
<1>5. \A i \in 1 .. n : SubSeq(line, 1, n)[i] = line[i]
  BY <1>3, <1>4
<1>6. Len(SubSeq(line, 1, n)) = n
  BY <1>3, <1>4
<1> QED
  BY <1>4, <1>5, <1>6 DEF Front, n

(* The UART and another task's output.                                     *)
LEMMA UartKeepsTypes ==
  ASSUME TypeOK, (\E c \in Chars : Receive(c)) \/ Transmit \/ DbgString
  PROVE  TypeOK'
<1> USE SizeAssumption
<1>1. ASSUME NEW c \in Chars, Receive(c) PROVE TypeOK'
  <2>1. Append(rxed, c) \in Seq(Chars) /\ Len(Append(rxed, c)) = Len(rxed) + 1
    BY AppendProperties DEF TypeOK
  <2>2. Len(rxed) \in Nat
    BY LenProperties DEF TypeOK
  <2>3. rxed' \in Seq(Chars) /\ Len(rxed') <= QueueSize
    BY <1>1, <2>1, <2>2 DEF Receive, TypeOK
  <2> QED
    BY <1>1, <2>3 DEF Receive, TypeOK, outVars, lineVars, cmdVars
<1>2. CASE Transmit
  <2>1. tx' = 0 /\ txe' = FALSE
    BY <1>2 DEF Transmit
  <2>2. tx' \in 0 .. QueueSize
    BY <2>1
  <2>3. txe' \in BOOLEAN
    BY <2>1
  <2> QED
    BY <1>2, <2>2, <2>3 DEF Transmit, TypeOK, outVars, lineVars, cmdVars
<1>3. CASE DbgString
  <2>1. Queued \in 0 .. QueueSize
    BY DEF Queued, TypeOK
  <2>2. txe' \in BOOLEAN
    BY <1>3 DEF DbgString
  <2> QED
    BY <1>3, <2>1, <2>2 DEF DbgString, TypeOK, outVars, lineVars, cmdVars
<1> QED
  BY <1>1, <1>2, <1>3

(* The line editor.                                                        *)
LEMMA EditorKeepsTypes ==
  ASSUME TypeOK, EndOfLine \/ Backspace \/ Letter \/ Ignore
  PROVE  TypeOK'
<1> USE SizeAssumption
<1>1. rxed # <<>> /\ rxed' = Tail(rxed)
  BY DEF EndOfLine, Backspace, Letter, Ignore
<1>2. rxed' \in Seq(Chars) /\ Len(rxed') <= QueueSize
  BY <1>1, TakeOne
<1>3. Echo \in 0 .. 1
  BY DEF Echo
<1>4. CASE EndOfLine
  BY <1>2, <1>3, <1>4 DEF EndOfLine, TypeOK, lineVars, cmdVars
<1>5. CASE Backspace
  <2>1. CASE inputIndex > 0
    <3>1. inputIndex' \in Buffer /\ out' \in 0 .. 3
      BY <1>3, <1>5, <2>1 DEF Backspace, TypeOK, Buffer
    <3>2. cInputString' \in [Buffer -> Letters \cup {NUL}]
      BY <1>5, <2>1 DEF Backspace, TypeOK
    <3>3. typed' \in Seq(Letters)
      BY <1>5, <2>1, FrontOfTyped DEF Backspace, TypeOK
    <3> QED
      BY <1>2, <1>5, <3>1, <3>2, <3>3 DEF Backspace, TypeOK, cmdVars
  <2>2. CASE ~(inputIndex > 0)
    BY <1>2, <1>5, <2>2 DEF Backspace, TypeOK, cmdVars
  <2> QED
    BY <2>1, <2>2
<1>6. CASE Letter
  <2>1. inputIndex' \in Buffer
    BY <1>6 DEF Letter, NextIndex, TypeOK, Buffer
  <2>2. cInputString' \in [Buffer -> Letters \cup {NUL}]
    BY <1>6 DEF Letter, TypeOK
  <2>3. typed' \in Seq(Letters)
    BY <1>6, AppendProperties DEF Letter, TypeOK
  <2>4. longLine' \in BOOLEAN
    BY <1>6 DEF Letter
  <2> QED
    BY <1>2, <1>3, <1>6, <2>1, <2>2, <2>3, <2>4 DEF Letter, TypeOK, cmdVars
<1>7. CASE Ignore
  BY <1>2, <1>3, <1>7 DEF Ignore, TypeOK, lineVars, cmdVars
<1> QED
  BY <1>4, <1>5, <1>6, <1>7

(* A line that is cleared.                                                 *)
LEMMA ClearKeepsTypes ==
  ASSUME ClearLine
  PROVE  /\ cInputString' \in [Buffer -> Letters \cup {NUL}]
         /\ inputIndex' \in Buffer
         /\ typed' \in Seq(Letters)
         /\ longLine' \in BOOLEAN
<1>1. cInputString' \in [Buffer -> Letters \cup {NUL}]
  BY DEF ClearLine, Cleared
<1>2. inputIndex' \in Buffer
  BY SizeAssumption DEF ClearLine, Buffer
<1>3. typed' \in Seq(Letters) /\ longLine' \in BOOLEAN
  BY EmptySeq DEF ClearLine
<1> QED
  BY <1>1, <1>2, <1>3

(* The page a handler gives is one of its command's.                       *)
LEMMA PagesAreCounted ==
  ASSUME NEW c \in Commands, NEW p \in Nat
  PROVE  PageAfter(c, p) \in 0 .. Pages[c] - 1
<1>1. Pages[c] \in Nat \ {0}
  BY CommandAssumption
<1> DEFINE n == Pages[c]
<1> HIDE DEF n
<1>2. (p + 1) % n \in 0 .. n - 1
  BY <1>1 DEF n
<1> QED
  BY <1>2 DEF PageAfter, n

(* Output, password and commands.                                          *)
LEMMA ConsoleKeepsTypes ==
  ASSUME TypeOK,
         PutChar \/ CheckPassword \/ EmptyLine \/ RejectLine \/ CallHandler \/ Overrun
  PROVE  TypeOK'
<1> USE SizeAssumption
<1>1. CASE PutChar
  <2>1. Queued \in 0 .. QueueSize /\ out - 1 \in 0 .. 3
    BY <1>1 DEF PutChar, Queued, TypeOK
  <2>2. tx' \in 0 .. QueueSize /\ out' \in 0 .. 3
    BY <1>1, <2>1 DEF PutChar, TypeOK
  <2>3. txe' \in BOOLEAN /\ putting' \in {"send", "enable"}
    BY <1>1 DEF PutChar, TypeOK
  <2> QED
    BY <1>1, <2>2, <2>3 DEF PutChar, TypeOK, lineVars, cmdVars
<1>2. CASE CheckPassword
  <2>1. permission' \in BOOLEAN /\ status' \in {0, 2, 3} /\ out' \in 0 .. 3
    BY <1>2 DEF CheckPassword
  <2> QED
    BY <1>2, <2>1, ClearKeepsTypes DEF CheckPassword, TypeOK, uartVars, cmdVars
<1>3. CASE EmptyLine
  BY <1>3 DEF EmptyLine, TypeOK, uartVars, lineVars, cmdVars
<1>4. CASE RejectLine
  BY <1>4, ClearKeepsTypes DEF RejectLine, Prompt, TypeOK, uartVars, cmdVars
<1>5. CASE CallHandler
  <2>1. PICK c \in Commands : page' = PageAfter(c, page) /\ cmd' = CmdAfter(c, page')
    BY <1>5 DEF CallHandler
  <2>2. page' \in Nat /\ cmd' \in Commands \cup {<<>>}
    <3>1. page' \in 0 .. Pages[c] - 1 /\ Pages[c] \in Nat
      BY <2>1, PagesAreCounted, CommandAssumption DEF TypeOK
    <3> QED
      BY <2>1, <3>1 DEF CmdAfter
  <2>3. CASE page' = 0
    BY <1>5, <2>2, <2>3, ClearKeepsTypes DEF CallHandler, Prompt, TypeOK, uartVars
  <2>4. CASE page' # 0
    BY <1>5, <2>2, <2>4 DEF CallHandler, TypeOK, uartVars, lineVars
  <2> QED
    BY <2>3, <2>4
<1>6. CASE Overrun
  BY <1>6 DEF Overrun, TypeOK, uartVars, outVars, lineVars, cmdVars
<1> QED
  BY <1>1, <1>2, <1>3, <1>4, <1>5, <1>6

LEMMA NextTypeOK == TypeOK /\ [Next]_vars => TypeOK'
<1>1. TypeOK /\ UNCHANGED vars => TypeOK'
  BY DEF TypeOK, vars, uartVars, outVars, lineVars, cmdVars
<1> QED
  BY <1>1, UartKeepsTypes, EditorKeepsTypes, ConsoleKeepsTypes DEF Next, ConsoleTask
-----------------------------------------------------------------------------
(* The line, the command and the queue.                                    *)

(* A cleared line is an empty one.                                         *)
LEMMA ClearedLine == ASSUME ClearLine PROVE LineInv'
<1>1. inputIndex' = 0 /\ Len(typed') = 0
  BY EmptySeq DEF ClearLine
<1>2. \A i \in Buffer : cInputString'[i] = NUL /\ ~(i < inputIndex')
  BY <1>1, SizeAssumption DEF ClearLine, Cleared, Buffer
<1> QED
  BY <1>1, <1>2 DEF LineInv

(* A backspace deletes the same letter from the buffer and from the line.  *)
LEMMA BackspaceKeepsLine ==
  ASSUME TypeOK, LineInv, Backspace
  PROVE  LineInv'
<1>1. CASE ~(inputIndex > 0)
  BY <1>1 DEF Backspace, LineInv
<1>2. CASE inputIndex > 0
  <2> SUFFICES ASSUME ~longLine PROVE LineInv'
    BY DEF Backspace, LineInv
  <2>1. Len(typed) = inputIndex /\ inputIndex \in 0 .. InputSize - 1
    BY DEF LineInv, TypeOK, Buffer
  <2>2. typed # <<>> /\ typed \in Seq(Letters)
    BY <1>2, <2>1, EmptySeq DEF TypeOK
  <2>3. inputIndex' = inputIndex - 1 /\ typed' = Front(typed)
    BY <1>2, <2>2 DEF Backspace
  <2>4. Len(typed') = inputIndex'
    BY <2>1, <2>2, <2>3, FrontOfTyped
  <2>5. ASSUME NEW i \in Buffer
        PROVE  cInputString'[i] = IF i < inputIndex' THEN typed'[i + 1] ELSE NUL
    <3>1. cInputString'[i] = IF i = inputIndex' THEN NUL ELSE cInputString[i]
      BY <1>2 DEF Backspace, TypeOK
    <3>2. cInputString[i] = IF i < inputIndex THEN typed[i + 1] ELSE NUL
      BY DEF LineInv
    <3>3. i \in Nat
      BY SizeAssumption DEF Buffer
    <3>4. CASE i < inputIndex'
      <4>1. i + 1 \in 1 .. Len(typed) - 1
        BY <2>1, <2>3, <3>3, <3>4
      <4>2. typed'[i + 1] = typed[i + 1]
        BY <2>2, <2>3, <4>1, FrontOfTyped
      <4> QED
        BY <2>1, <2>3, <3>1, <3>2, <3>3, <3>4, <4>2
    <3>5. CASE ~(i < inputIndex')
      BY <2>1, <2>3, <3>1, <3>2, <3>3, <3>5
    <3> QED
      BY <3>4, <3>5
  <2> QED
    BY <2>4, <2>5 DEF LineInv
<1> QED
  BY <1>1, <1>2

(* A letter goes to the same place in both, until they are full.           *)
LEMMA LetterKeepsLine ==
  ASSUME TypeOK, LineInv, Letter
  PROVE  LineInv'
<1> SUFFICES ASSUME ~longLine' PROVE LineInv'
  BY DEF LineInv
<1> DEFINE c == Head(rxed)
<1>1. ~longLine /\ Len(typed') # InputSize /\ typed' = Append(typed, c) /\ c \in Letters
  BY DEF Letter
<1>2. inputIndex \in 0 .. InputSize - 1 /\ Len(typed) = inputIndex
  BY <1>1 DEF LineInv, TypeOK, Buffer
<1>3. /\ Len(typed') = inputIndex + 1
      /\ \A i \in 1 .. inputIndex : typed'[i] = typed[i]
      /\ typed'[inputIndex + 1] = c
  BY <1>1, <1>2, AppendProperties DEF TypeOK
<1>4. inputIndex + 1 < InputSize
  BY <1>1, <1>2, <1>3, SizeAssumption
<1>5. inputIndex' = inputIndex + 1
  <2>1. inputIndex' = (inputIndex + 1) % InputSize
    BY DEF Letter, NextIndex
  <2>2. ASSUME NEW n \in Nat, NEW m \in Nat, n < m PROVE n % m = n
    BY <2>2
  <2>3. inputIndex + 1 \in Nat /\ InputSize \in Nat
    BY <1>2, SizeAssumption
  <2> QED
    BY <1>4, <2>1, <2>2, <2>3
<1>6. ASSUME NEW i \in Buffer
      PROVE  cInputString'[i] = IF i < inputIndex' THEN typed'[i + 1] ELSE NUL
  <2>1. cInputString'[i] = IF i = inputIndex THEN c ELSE cInputString[i]
    BY DEF Letter, TypeOK
  <2>2. cInputString[i] = IF i < inputIndex THEN typed[i + 1] ELSE NUL
    BY <1>1 DEF LineInv
  <2>3. i \in Nat
    BY SizeAssumption DEF Buffer
  <2> HIDE DEF c
  <2>4. CASE i < inputIndex
    <3>1. i + 1 \in 1 .. inputIndex
      BY <1>2, <2>3, <2>4
    <3> QED
      BY <1>2, <1>3, <1>5, <2>1, <2>2, <2>3, <2>4, <3>1
  <2>5. CASE i = inputIndex
    BY <1>2, <1>3, <1>5, <2>1, <2>5
  <2>6. CASE i > inputIndex
    BY <1>2, <1>5, <2>1, <2>2, <2>3, <2>6
  <2> QED
    BY <1>2, <2>3, <2>4, <2>5, <2>6
<1> QED
  BY <1>3, <1>5, <1>6 DEF LineInv

LEMMA NextLineInv == TypeOK /\ LineInv /\ [Next]_vars => LineInv'
<1> SUFFICES ASSUME TypeOK, LineInv, [Next]_vars PROVE LineInv'
  OBVIOUS
<1>1. CASE UNCHANGED lineVars
  BY <1>1 DEF lineVars, LineInv
<1>2. (\E c \in Chars : Receive(c)) \/ Transmit \/ DbgString \/ UNCHANGED vars
        => UNCHANGED lineVars
  BY DEF Receive, Transmit, DbgString, vars
<1>3. PutChar \/ EndOfLine \/ Ignore \/ EmptyLine \/ Overrun => UNCHANGED lineVars
  BY DEF PutChar, EndOfLine, Ignore, EmptyLine, Overrun
<1>4. CASE CheckPassword \/ RejectLine
  BY <1>4, ClearedLine DEF CheckPassword, RejectLine, Prompt
<1>5. CASE CallHandler
  BY <1>1, <1>5, ClearedLine DEF CallHandler, Prompt
<1> QED
  BY <1>1, <1>2, <1>3, <1>4, <1>5, BackspaceKeepsLine, LetterKeepsLine
     DEF Next, ConsoleTask

(* A command ends with its last page, and its line with it.                *)
LEMMA NextCmdInv == TypeOK /\ CmdInv /\ [Next]_vars => CmdInv'
<1> SUFFICES ASSUME TypeOK, CmdInv, [Next]_vars PROVE CmdInv'
  OBVIOUS
<1>1. CASE UNCHANGED <<status, inputIndex, cmdVars>>
  BY <1>1 DEF CmdInv, cmdVars
<1>2. (\E c \in Chars : Receive(c)) \/ Transmit \/ DbgString \/ PutChar \/ Ignore
        \/ UNCHANGED vars => UNCHANGED <<status, inputIndex, cmdVars>>
  BY DEF Receive, Transmit, DbgString, PutChar, Ignore, lineVars, vars
<1>3. CASE EndOfLine \/ Backspace \/ Letter \/ CheckPassword
  <2>1. status # 3 /\ UNCHANGED cmdVars
    BY <1>3 DEF EndOfLine, Backspace, Letter, CheckPassword, Ready
  <2> QED
    BY <2>1 DEF CmdInv, cmdVars
<1>4. CASE EmptyLine \/ RejectLine \/ Overrun
  <2>1. cmd = <<>> /\ UNCHANGED cmdVars
    BY <1>4 DEF EmptyLine, RejectLine, Overrun, CmdInv
  <2> QED
    BY <2>1 DEF CmdInv, cmdVars
<1>5. CASE CallHandler
  <2>1. PICK c \in Commands : page' = PageAfter(c, page) /\ cmd' = CmdAfter(c, page')
    BY <1>5 DEF CallHandler
  <2>2. page' \in 0 .. Pages[c] - 1 /\ Pages[c] \in Nat \ {0} /\ c # <<>>
    BY <2>1, PagesAreCounted, CommandAssumption DEF TypeOK
  <2>3. CASE page' = 0
    BY <2>1, <2>3 DEF CmdAfter, CmdInv
  <2>4. CASE page' # 0
    <3>1. cmd' = c /\ page' \in 1 .. Pages[c] - 1
      BY <2>1, <2>2, <2>4 DEF CmdAfter
    <3>2. status' = 3 /\ inputIndex' # 0
      BY <1>5, <2>4 DEF CallHandler, Ready, lineVars
    <3> QED
      BY <2>2, <3>1, <3>2 DEF CmdInv
  <2> QED
    BY <2>3, <2>4
<1> QED
  BY <1>1, <1>2, <1>3, <1>4, <1>5 DEF Next, ConsoleTask

(* A character is queued before the interrupt is enabled, and the task     *)
(* goes on only when it is.                                                *)
LEMMA NextUartInv == TypeOK /\ UartInv /\ [Next]_vars => UartInv'
<1> SUFFICES ASSUME TypeOK, UartInv, [Next]_vars PROVE UartInv'
  OBVIOUS
<1> USE SizeAssumption DEF UartInv, Attended
<1>1. ASSUME NEW c \in Chars, Receive(c) PROVE UartInv'
  BY <1>1 DEF Receive, outVars
<1>2. CASE Transmit
  BY <1>2 DEF Transmit, outVars
<1>3. CASE DbgString
  BY <1>3 DEF DbgString, Queued, TypeOK, outVars
<1>4. CASE PutChar
  BY <1>4 DEF PutChar, Queued, TypeOK
<1>5. CASE EndOfLine \/ Backspace \/ Letter \/ Ignore \/ CheckPassword
             \/ EmptyLine \/ RejectLine \/ CallHandler \/ Overrun
  <2>1. out = 0 /\ UNCHANGED <<tx, txe, putting>>
    BY <1>5 DEF EndOfLine, Backspace, Letter, Ignore, CheckPassword,
                EmptyLine, RejectLine, CallHandler, Overrun, Ready, uartVars, outVars
  <2> QED
    BY <2>1
<1>6. CASE UNCHANGED vars
  BY <1>6 DEF vars, uartVars, outVars
<1> QED
  BY <1>1, <1>2, <1>3, <1>4, <1>5, <1>6 DEF Next, ConsoleTask

LEMMA ConsoleInvariance == Spec => []ConsoleInv
<1>1. ConsoleInv /\ [Next]_vars => ConsoleInv'
  BY NextTypeOK, NextLineInv, NextCmdInv, NextUartInv DEF ConsoleInv
<1> QED
  BY <1>1, InitConsoleInv, PTL DEF Spec

-----------------------------------------------------------------------------
(* The theorems.                                                           *)

(* mid_cli.c and hal_uart.c: no index leaves the line's buffer and no      *)
(* queue holds more than its size.                                         *)
THEOREM ConsoleTyped == Spec => []TypeOK
<1>1. ConsoleInv => TypeOK
  BY DEF ConsoleInv
<1> QED
  BY <1>1, ConsoleInvariance, PTL

(* What strcmp and mid_cli_parse_command read as a string is the line.     *)
LEMMA TextIsTyped ==
  ASSUME TypeOK, LineInv, ~longLine
  PROVE  Text = typed
<1>1. /\ typed \in Seq(Letters) /\ Len(typed) = inputIndex
      /\ inputIndex \in 0 .. InputSize - 1 /\ inputIndex \in Buffer
  BY DEF TypeOK, LineInv, Buffer
<1>2. ASSUME NEW i \in 0 .. inputIndex - 1
      PROVE  i \in Buffer /\ cInputString[i] = typed[i + 1] /\ cInputString[i] # NUL
  <2>1. i \in Buffer /\ i < inputIndex /\ i + 1 \in 1 .. Len(typed)
    BY <1>1, SizeAssumption DEF Buffer
  <2>2. cInputString[i] = typed[i + 1]
    BY <2>1 DEF LineInv
  <2>3. typed[i + 1] \in Letters
    BY <1>1, <2>1, ElementOfSeq
  <2> QED
    BY <2>1, <2>2, <2>3, LetterAssumption
<1>3. cInputString[inputIndex] = NUL
  BY <1>1 DEF LineInv
<1>4. Length = inputIndex
  <2> DEFINE First(i) == cInputString[i] = NUL /\ \A j \in 0 .. i - 1 : cInputString[j] # NUL
  <2>1. First(inputIndex)
    BY <1>2, <1>3
  <2>2. ASSUME NEW i \in Buffer, First(i) PROVE i = inputIndex
    <3>1. i \in Nat /\ inputIndex \in Nat
      BY <1>1, SizeAssumption DEF Buffer
    <3>2. ~(i < inputIndex)
      BY <1>2, <2>2, <3>1
    <3>3. ~(inputIndex < i)
      BY <1>3, <2>2, <3>1
    <3> QED
      BY <3>1, <3>2, <3>3
  <2>3. Length = CHOOSE i \in Buffer : First(i)
    BY <1>1, <1>3 DEF Length
  <2> HIDE DEF First
  <2> QED
    BY <1>1, <2>1, <2>2, <2>3
<1>5. Text = [i \in 1 .. inputIndex |-> typed[i]]
  <2>1. ASSUME NEW i \in 1 .. inputIndex PROVE cInputString[i - 1] = typed[i]
    <3>1. i - 1 \in 0 .. inputIndex - 1 /\ i - 1 + 1 = i
      BY <1>1
    <3> QED
      BY <1>2, <3>1
  <2> QED
    BY <1>4, <2>1 DEF Text
<1>6. typed = [i \in 1 .. Len(typed) |-> typed[i]]
  BY <1>1, LenProperties
<1> QED
  BY <1>1, <1>5, <1>6

(* mid_cli.c: until a line fills the buffer, the string that is compared   *)
(* and parsed is the line the user sees, and no command is under way       *)
(* outside of its line.                                                    *)
THEOREM TypedIsParsed == Spec => []LineIsWhatWasTyped
<1>1. ConsoleInv => LineIsWhatWasTyped
  BY TextIsTyped DEF ConsoleInv, CmdInv, LineIsWhatWasTyped
<1> QED
  BY <1>1, ConsoleInvariance, PTL

(* hal_uart.c: no character waits in the transmit queue with the interrupt *)
(* disabled and nobody about to enable it.                                 *)
THEOREM NoCharacterForgotten == Spec => []QueueIsAttended
<1>1. ConsoleInv => QueueIsAttended
  BY DEF ConsoleInv, UartInv, Attended, QueueIsAttended
<1> QED
  BY <1>1, ConsoleInvariance, PTL

=============================================================================
