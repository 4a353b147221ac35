---------------------------- MODULE MCTerminals ----------------------------
(***************************************************************************)
(* The way of a key to a command and of the answer to the screen, module   *)
(* by module: keyboard, terminals, screen, the shell's line editor and     *)
(* words, and formatted output.  They share no variable, so a behaviour    *)
(* picks one of them and the rest stay as they began.                      *)
(***************************************************************************)
EXTENDS Keyboard, Tty, Console, ShellLine, ShellWords, Format

VARIABLE part      \* the module whose behaviour this is

\* What $?, $$ and $! stand for, and a value with characters that mean something.
MCSpecial == [c \in {"?", "$", "!"} |-> <<"1", "2", "7">>]
MCValue == <<"=", "$", "a">>

Numbers(convs, values) ==
  {[conv |-> c, width |-> w, zero |-> z, value |-> v] :
     c \in convs, w \in {0, 3}, z \in BOOLEAN, v \in values}

\* Characters, strings that are empty, short and long, and numbers of one to
\* three digits, padded and not.
MCItems ==
  {[conv |-> c, ch |-> "k"] : c \in {"lit", "c", "other"}}
    \cup {[conv |-> "s", str |-> s] : s \in {<<>>, <<"q", "r">>}}
    \cup {[conv |-> c] : c \in {"%", "null"}}
    \cup Numbers({"d"}, {-10, -7, 0, 105})
    \cup Numbers({"u", "x"}, {0, 9, 171})
    \cup {[conv |-> "p", value |-> 17]}

shellTextVars == <<lineVars, text>>
mcVars == <<part, keyboardVars, ttyVars, consoleVars, shellTextVars, formatVars>>

Init ==
  /\ part \in {"keyboard", "tty", "console", "line", "words", "format"}
  /\ KeyboardInit /\ TtyInit /\ ConsoleInit /\ LineInit /\ WordsInit
  /\ FormatInit /\ (part = "format" \/ size = CHOOSE s \in Sizes : TRUE)

\* The line has its bound; the text is there.
Stopped ==
  /\ (part = "words" /\ Len(text) = LineBound) \/ (part = "format" /\ done)
  /\ UNCHANGED mcVars

Next ==
  \/ /\ part = "keyboard" /\ KeyboardNext
     /\ UNCHANGED <<part, ttyVars, consoleVars, shellTextVars, formatVars>>
  \/ /\ part = "tty" /\ TtyNext
     /\ UNCHANGED <<part, keyboardVars, consoleVars, shellTextVars, formatVars>>
  \/ /\ part = "console" /\ ConsoleNext
     /\ UNCHANGED <<part, keyboardVars, ttyVars, shellTextVars, formatVars>>
  \/ /\ part = "line" /\ LineNext
     /\ UNCHANGED <<part, keyboardVars, ttyVars, consoleVars, text, formatVars>>
  \/ /\ part = "words" /\ WordsNext
     /\ UNCHANGED <<part, keyboardVars, ttyVars, consoleVars, lineVars, formatVars>>
  \/ /\ part = "format" /\ FormatNext
     /\ UNCHANGED <<part, keyboardVars, ttyVars, consoleVars, shellTextVars>>
  \/ Stopped

Spec == Init /\ [][Next]_mcVars

(* Outside an escape sequence nobody reads the parameters of the last one, *)
(* and of the lines entered only as many matter as the history has room    *)
(* for, and their number.                                                  *)
LastEntered ==
  <<Len(entered), SubSeq(entered, Len(entered) - Len(history) + 1, Len(entered))>>
View ==
  <<part, keyboardVars, ttyVars, text, formatVars, paper,
    IF con.esc = "csi" THEN con ELSE [con EXCEPT !.params = <<>>],
    line, shown, history, history_pos, escape, edited, LastEntered>>
=============================================================================
