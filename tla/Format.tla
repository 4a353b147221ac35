------------------------------- MODULE Format -------------------------------
(***************************************************************************)
(* Formatting into a buffer: vsnprintf and printf (libs/libc.c) and their  *)
(* copies in the kernel (kernel/core/kutils.c). A format is a sequence of  *)
(* items, an ordinary character or a complete directive with its argument; *)
(* a step is a turn of the loop over the format. Floating point is left    *)
(* out, and so is a format that ends inside a directive.                   *)
(***************************************************************************)
EXTENDS Integers, Sequences, FiniteSetsExt

CONSTANTS
  Sizes,        \* sizes of the buffer
  Items,        \* records: conv, and ch, str or width, zero, value
  PTR_DIGITS,   \* hexadecimal digits of a pointer (8)
  VALUE_MAX,    \* bound: the largest magnitude of a number
  BEYOND        \* bound: text that is followed after the buffer is full

\* A character or a complete directive with its argument.
IsItem(it) ==
  /\ it.conv \in {"lit", "c", "%", "s", "null", "d", "u", "x", "p", "other"}
  /\ it.conv = "s" =>
       Len(it.str) \in Nat /\ it.str = [k \in 1 .. Len(it.str) |-> it.str[k]]
  /\ it.conv \in {"d", "u", "x"} => it.width \in Nat /\ it.zero \in BOOLEAN
  /\ it.conv = "d" => it.value \in -VALUE_MAX .. VALUE_MAX
  /\ it.conv \in {"u", "x", "p"} => it.value \in 0 .. VALUE_MAX

ASSUME FormatAssumption ==
  /\ Sizes \subseteq Nat \ {0}
  /\ {PTR_DIGITS, VALUE_MAX, BEYOND} \subseteq Nat
  /\ IsFiniteSet(Items) /\ Items # {} /\ \A it \in Items : IsItem(it)

VARIABLES
  size,         \* of the buffer
  buf,          \* the buffer and what lies after it
  pos,          \* characters so far, also those that did not fit
  done,         \* the function has returned pos
  full          \* history: the whole text of the format

formatVars == <<size, buf, pos, done, full>>

NUL == "NUL"
Junk == "junk"

Digit(k) ==
  <<"0", "1", "2", "3", "4", "5", "6", "7", "8", "9", "a", "b", "c", "d", "e", "f">>[k + 1]

\* The digits of a number, taken from its end and put in reverse.
DigitsOf(v, base) ==
  LET f[k \in 0 .. VALUE_MAX] ==
        IF k < base THEN <<Digit(k)>> ELSE Append(f[k \div base], Digit(k % base))
  IN  f[v]

Pad(it, len) ==
  [k \in 1 .. (IF it.width > len THEN it.width - len ELSE 0) |-> IF it.zero THEN "0" ELSE " "]

\* %d: the sign goes before the padding, spaces too.
Signed(it) ==
  LET digits == DigitsOf(IF it.value < 0 THEN -it.value ELSE it.value, 10)
      sign == IF it.value < 0 THEN <<"-">> ELSE <<>>
  IN  sign \o Pad(it, Len(sign \o digits)) \o digits

Unsigned(it, base) ==
  LET digits == DigitsOf(it.value, base) IN Pad(it, Len(digits)) \o digits

\* %p: always the same number of digits.
Pointer(it) ==
  <<"0", "x">> \o Unsigned([width |-> PTR_DIGITS, zero |-> TRUE, value |-> it.value], 16)

\* The characters that an item puts out.
Text(it) ==
  CASE it.conv \in {"lit", "c"} -> <<it.ch>>
    [] it.conv = "%" -> <<"%">>
    [] it.conv = "s" -> it.str
    [] it.conv = "null" -> <<"(", "n", "u", "l", "l", ")">>
    [] it.conv = "d" -> Signed(it)
    [] it.conv = "u" -> Unsigned(it, 10)
    [] it.conv = "x" -> Unsigned(it, 16)
    [] it.conv = "p" -> Pointer(it)
    [] it.conv = "other" -> <<"%", it.ch>>

\* Whether the character at position k is stored.
PUT_CHAR(k) == k < size - 1

Longest == Max({Len(Text(it)) : it \in Items})

FormatInit ==
  /\ size \in Sizes
  /\ buf = [k \in 0 .. size + Longest |-> Junk]
  /\ pos = 0 /\ done = FALSE /\ full = <<>>

\* A turn of the loop, which goes on while there is room.
Item(it) ==
  /\ ~done /\ pos < size - 1
  /\ LET text == Text(it)
     IN  /\ buf' = [k \in DOMAIN buf |-> IF PUT_CHAR(k) /\ k \in pos .. pos + Len(text) - 1
                                         THEN text[k - pos + 1] ELSE buf[k]]
         /\ pos' = pos + Len(text)
         /\ full' = full \o text
  /\ UNCHANGED <<size, done>>

FormatReturn ==
  /\ ~done
  /\ buf' = [buf EXCEPT ![IF pos < size THEN pos ELSE size - 1] = NUL]
  /\ done' = TRUE
  /\ UNCHANGED <<size, pos, full>>

\* The rest of a format whose text no longer fits is not looked at.
Unread(it) ==
  /\ done /\ pos >= size - 1 /\ Len(full) < pos + BEYOND
  /\ full' = full \o Text(it)
  /\ UNCHANGED <<size, buf, pos, done>>

FormatNext == FormatReturn \/ \E it \in Items : Item(it) \/ Unread(it)
FormatSpec == FormatInit /\ [][FormatNext]_formatVars

\* Faulty variant of to_write: as many characters as vsnprintf returned.
to_write_all == pos

\* What printf passes to write.
to_write == IF pos < size THEN pos ELSE size - 1

Decimal == {Digit(d) : d \in 0 .. 9}
DecimalValue(c) == CHOOSE d \in 0 .. 9 : Digit(d) = c

\* The first position from k on that has no character of S, or the end.
SkipFrom(text, k, S) ==
  Min({i \in k .. Len(text) + 1 : i > Len(text) \/ text[i] \notin S})

\* The number that n digits make.
NumberAt(text, start, n) ==
  LET sum[i \in 0 .. n] ==
        IF i = 0 THEN 0 ELSE sum[i - 1] * 10 + DecimalValue(text[start + i - 1])
  IN  sum[n]

White == {" ", "TAB", "NL"}

\* The number a text begins with: white space, a sign, digits.
atoi(text) ==
  LET first == SkipFrom(text, 1, White)
      sign == IF first <= Len(text) THEN text[first] ELSE NUL
      start == IF sign \in {"-", "+"} THEN first + 1 ELSE first
      sum == NumberAt(text, start, SkipFrom(text, start, Decimal) - start)
  IN  IF sign = "-" THEN -sum ELSE sum
-----------------------------------------------------------------------------
(* Nothing is stored outside the buffer, however long the text is.         *)
OwnBytesOnly == \A k \in DOMAIN buf : k >= size => buf[k] = Junk

(* The buffer ends up with the longest part of the text that fits, and     *)
(* always with a terminator.                                               *)
TextIsCut ==
  done => LET len == Min({Len(full), size - 1})
          IN  /\ \A k \in 0 .. len - 1 : buf[k] = full[k + 1]
              /\ buf[len] = NUL

(* printf writes the text that is in its buffer, no more and no less,      *)
(* though vsnprintf returns neither its length nor that of the whole text  *)
(* when it is cut.                                                         *)
PrintfWritesText ==
  done => to_write = Min({Len(full), size - 1})

\* The text is the number, or a negative number with spaces after its sign.
ReadsBack(it, text) ==
  \/ atoi(text) = it.value
  \/ it.conv = "d" /\ it.value < 0 /\ ~it.zero /\ text[2] = " "

(* A decimal number that is put out is read back by atoi as the number it  *)
(* was, padded or not; a negative number with spaces after its sign is the *)
(* exception.                                                              *)
NumbersReadBack ==
  [][full' # full => \A it \in Items : (it.conv \in {"d", "u"} /\ Item(it)) =>
       ReadsBack(it, SubSeq(full', Len(full) + 1, Len(full')))]_formatVars

(* Formatted output stays in its buffer, is cut at its end and terminated, *)
(* is written as it was stored, and its numbers are read back.             *)
FormatCorrect ==
  /\ [](OwnBytesOnly /\ TextIsCut /\ PrintfWritesText)
  /\ NumbersReadBack
=============================================================================
