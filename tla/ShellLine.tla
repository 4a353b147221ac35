----------------------------- MODULE ShellLine -----------------------------
(***************************************************************************)
(* The line editor and the history of the shell (bin/sh.c): the loop of    *)
(* main over the characters it reads, arrow keys, backspace and the        *)
(* history buffer.  The characters come in any order: the terminal drops   *)
(* characters when it is full, also out of the middle of an arrow key.     *)
(***************************************************************************)
EXTENDS Integers, Sequences, SequencesExt

CONSTANTS
  LINE_MAX,      \* bytes of a line, its NUL included (128)
  HISTORY_MAX,   \* lines in the history (30)
  Chars,         \* characters that can be part of a line
  EnteredMax     \* bound: lines entered

ASSUME LineAssumption ==
  /\ LINE_MAX \in Nat \ {0, 1} /\ HISTORY_MAX \in Nat \ {0} /\ EnteredMax \in Nat
  /\ {"[", "A", "B"} \subseteq Chars

VARIABLES
  line,          \* the first len characters of line
  shown,         \* what the terminal shows after the prompt
  history, history_pos,
  escape,        \* the characters of an escape sequence read so far
  entered,       \* the lines handed to process_command so far
  edited         \* the line was typed at since it was last replaced

lineVars == <<line, shown, history, history_pos, escape, entered, edited>>

ESCAPE == "esc"
RUBOUT == "bs"
ENTER == "nl"

\* STATE_PROMPT, with the history as it is after history_add.
Prompt(h) ==
  /\ line' = <<>> /\ shown' = <<>> /\ edited' = FALSE
  /\ history_pos' = Len(h)

LineInit ==
  /\ line = <<>> /\ shown = <<>> /\ edited = FALSE
  /\ history = <<>> /\ history_pos = 0
  /\ escape = <<>>
  /\ entered = <<>>
-----------------------------------------------------------------------------

history_add(l) ==
  IF Len(history) < HISTORY_MAX THEN Append(history, l)
  ELSE Append(Tail(history), l)

\* "\b \b" for every character of the old line.
erase(s, n) == SubSeq(s, 1, Len(s) - n)

load_history_entry(index) ==
  LET new == IF index = Len(history) THEN <<>> ELSE history[index + 1]
  IN  /\ shown' = erase(shown, Len(line)) \o new
      /\ line' = new
      /\ edited' = FALSE

HistoryUp ==
  IF history # <<>> /\ history_pos > 0
  THEN history_pos' = history_pos - 1 /\ load_history_entry(history_pos - 1)
  ELSE UNCHANGED <<line, shown, history_pos, edited>>

HistoryDown ==
  IF history # <<>> /\ history_pos < Len(history)
  THEN history_pos' = history_pos + 1 /\ load_history_entry(history_pos + 1)
  ELSE UNCHANGED <<line, shown, history_pos, edited>>

\* Faulty variant of Escaped: moves in the history without loading the line.
Escaped_no_load(c) ==
  /\ escape # <<>>
  /\ escape' = IF Len(escape) = 1 THEN Append(escape, c) ELSE <<>>
  /\ history_pos' = IF Len(escape) = 2 /\ escape[2] = "[" /\ c = "A" /\ history_pos > 0
                    THEN history_pos - 1 ELSE history_pos
  /\ UNCHANGED <<line, shown, edited, history, entered>>

(* handle_escape_sequence: the two characters after ESC, whatever they are, *)
(* are not part of the line.                                               *)
Escaped(c) ==
  /\ escape # <<>>
  /\ IF Len(escape) = 1
     THEN escape' = Append(escape, c) /\ UNCHANGED <<line, shown, history_pos, edited>>
     ELSE /\ escape' = <<>>
          /\ IF escape[2] = "[" /\ c = "A" THEN HistoryUp
             ELSE IF escape[2] = "[" /\ c = "B" THEN HistoryDown
             ELSE UNCHANGED <<line, shown, history_pos, edited>>
  /\ UNCHANGED <<history, entered>>

BeginEscape(c) ==
  /\ escape = <<>> /\ c = ESCAPE
  /\ escape' = <<ESCAPE>>
  /\ UNCHANGED <<line, shown, history, history_pos, entered, edited>>

\* STATE_PARSE; process_command itself is in module Shell.
Enter(c) ==
  /\ escape = <<>> /\ c = ENTER
  /\ Len(entered) < EnteredMax
  /\ history' = IF line = <<>> THEN history ELSE history_add(line)
  /\ entered' = IF line = <<>> THEN entered ELSE Append(entered, line)
  /\ Prompt(history')
  /\ UNCHANGED escape

EraseLast(c) ==
  /\ escape = <<>> /\ c = RUBOUT
  /\ IF line = <<>> THEN UNCHANGED <<line, shown, edited>>
     ELSE line' = Front(line) /\ shown' = erase(shown, 1) /\ edited' = TRUE
  /\ UNCHANGED <<history, history_pos, escape, entered>>

Insert(c) ==
  /\ escape = <<>> /\ c \in Chars
  /\ IF Len(line) < LINE_MAX - 1
     THEN line' = Append(line, c) /\ shown' = Append(shown, c) /\ edited' = TRUE
     ELSE UNCHANGED <<line, shown, edited>>
  /\ UNCHANGED <<history, history_pos, escape, entered>>

LineNext ==
  \E c \in Chars \cup {ESCAPE, RUBOUT, ENTER} :
    Escaped(c) \/ BeginEscape(c) \/ Enter(c) \/ EraseLast(c) \/ Insert(c)

LineSpec == LineInit /\ [][LineNext]_lineVars
-----------------------------------------------------------------------------
(* Types: every line ends inside its buffer, closing NUL included, and the *)
(* position is one of the history's lines or the end.                      *)
ShellLineTypeOK ==
  /\ Len(line) < LINE_MAX
  /\ Len(history) <= HISTORY_MAX
  /\ \A i \in DOMAIN history : Len(history[i]) \in 1 .. LINE_MAX - 1
  /\ history_pos \in 0 .. Len(history)
  /\ Len(escape) \in 0 .. 2

(* What the terminal shows after the prompt is the line that enter will    *)
(* run, whatever was typed, erased, recalled or lost on the way.           *)
ScreenIsLine == shown = line

(* The history holds the last lines entered, oldest first.                 *)
HistoryIsTail ==
  history = SubSeq(entered, Len(entered) - Len(history) + 1, Len(entered))
    /\ (Len(history) < HISTORY_MAX => Len(history) = Len(entered))

(* Unless it was typed at since, the line is the one at the position of    *)
(* the history, and empty at its end: arrows never lose their place, over  *)
(* prompts and broken arrow keys too.                                      *)
LineIsRecalled ==
  ~edited => line = IF history_pos = Len(history) THEN <<>>
                    ELSE history[history_pos + 1]

(* The line editor: the screen shows the line that enter will run, the     *)
(* history has the last lines, and arrows never lose their place, broken   *)
(* arrow keys included.                                                    *)
LineCorrect ==
  /\ ShellLineTypeOK
  /\ ScreenIsLine
  /\ HistoryIsTail
  /\ LineIsRecalled
=============================================================================
