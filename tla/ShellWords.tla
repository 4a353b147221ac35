----------------------------- MODULE ShellWords -----------------------------
(***************************************************************************)
(* What the shell makes of the characters of a line (bin/sh.c): words and  *)
(* quotes, assignments, the expansion of variables, and the strings        *)
(* NAME=VALUE by which a shell hands variables to a shell it starts.  All  *)
(* of them cut what does not fit their buffers, so they are modelled       *)
(* character by character, with buffers of a few characters.               *)
(***************************************************************************)
EXTENDS ShellVars, FiniteSetsExt

CONSTANTS
  ARG_MAX,           \* LINE_MAX: bytes of a line and of an argument (128)
  MAX_ARGS,          \* words of a line (15)
  MAX_VAR_NAME,      \* bytes of a name (64)
  MAX_VAR_VALUE,     \* bytes of a value (256)
  Letters, NameDigits,   \* characters of names
  Special,           \* $?, $$ and $!: the text of each
  Value,             \* the value of the variable in the table
  LineBound          \* bound: characters of a line

BLANK == " "
QUOTE == "q"

(* Letters, digits and the characters that mean something are different;   *)
(* the value in the table fits its buffer.                                 *)
ASSUME WordsAssumption ==
  /\ {ARG_MAX, MAX_ARGS, MAX_VAR_NAME, MAX_VAR_VALUE} \subseteq Nat \ {0, 1}
  /\ LineBound \in 0 .. ARG_MAX - 1
  /\ Letters # {} /\ Letters \cap NameDigits = {}
  /\ (Letters \cup NameDigits) \cap {BLANK, QUOTE, "$", "=", "?", "!"} = {}
  /\ Special \in [{"?", "$", "!"} -> Seq(STRING)]
  /\ Value \in Seq(STRING) /\ Len(Value) < MAX_VAR_VALUE

Alphabet == Letters \cup NameDigits \cup {BLANK, QUOTE, "$", "=", "?"}
Ident == Letters \cup NameDigits

VARIABLE text

WordsInit == text = <<>>
TypeChar(c) == Len(text) < LineBound /\ text' = Append(text, c)
WordsNext == \E c \in Alphabet : TypeChar(c)
WordsSpec == WordsInit /\ [][WordsNext]_text
-----------------------------------------------------------------------------
Cut(s, size) == SubSeq(s, 1, Min({Len(s), size - 1}))

\* One character of a word.
WordChar(r, c) ==
  IF c = QUOTE THEN [r EXCEPT !.in_quotes = ~@]
  ELSE IF ~r.in_quotes /\ c = BLANK
  THEN [argv |-> Append(r.argv, r.word), word |-> <<>>, open |-> FALSE, in_quotes |-> FALSE]
  ELSE [r EXCEPT !.word = Append(@, c)]

(* The loops of parse_arguments as one pass over the characters: open says *)
(* whether a word has begun.  After max_args words the rest is ignored.    *)
ParseChar(r, c, max_args) ==
  IF r.open THEN WordChar(r, c)
  ELSE IF c = BLANK \/ Len(r.argv) >= max_args THEN r
  ELSE WordChar([r EXCEPT !.open = TRUE], c)

parse_arguments(s, max_args) ==
  LET after[n \in 0 .. Len(s)] ==
        IF n = 0 THEN [argv |-> <<>>, word |-> <<>>, open |-> FALSE, in_quotes |-> FALSE]
        ELSE ParseChar(after[n - 1], s[n], max_args)
      end == after[Len(s)]
  IN  IF end.open THEN Append(end.argv, end.word) ELSE end.argv

\* strchr(s, '='), 0 for NULL.
FirstEquals(s) == SelectInSeq(s, LAMBDA c : c = "=")

\* The two parts of NAME=VALUE, cut to their buffers.
Split(s, eq) ==
  [name |-> Cut(SubSeq(s, 1, eq - 1), MAX_VAR_NAME),
   value |-> Cut(SubSeq(s, eq + 1, Len(s)), MAX_VAR_VALUE)]

\* Whether the argument is an assignment; Split gives its parts.
parse_assignment(s) ==
  LET eq == FirstEquals(s)
  IN  /\ eq > 1
      /\ \A i \in 1 .. eq - 1 : s[i] \in Ident
      /\ s[1] \notin NameDigits

\* load_environment(envp): every entry that has a name becomes exported.
LoadEntry(vs, e) ==
  IF Len(vs) >= MAX_VARS \/ FirstEquals(e) <= 1 THEN vs
  ELSE LET v == Split(e, FirstEquals(e)) IN set_variable(vs, v.name, v.value, TRUE)

load_environment(envp) ==
  LET after[n \in 0 .. Len(envp)] ==
        IF n = 0 THEN <<>> ELSE LoadEntry(after[n - 1], envp[n])
  IN  after[Len(envp)]

\* One string of build_environment; envp_strings has two bytes to spare.
EnvString(v) == Cut(v.name \o <<"=">> \o v.value, MAX_VAR_NAME + MAX_VAR_VALUE + 1)

\* build_environment: one string of every exported variable.
NextEntry(envp, v) == IF v.exported THEN Append(envp, EnvString(v)) ELSE envp

build_environment(vs) ==
  LET after[n \in 0 .. Len(vs)] ==
        IF n = 0 THEN <<>> ELSE NextEntry(after[n - 1], vs[n])
  IN  after[Len(vs)]

\* elf_load never says where a program has its environ.
environ_off == 0

\* environ in a program executed with these strings, <<>> for NULL: the kernel
\* copies them to the heap, and sets environ only if its place is known.
environ(envp) == IF environ_off # 0 THEN envp ELSE <<>>

\* The end of the name that begins at i.
NameEnd(s, i) ==
  Max({i - 1} \cup {j \in i .. Len(s) : \A k \in i .. j : s[k] \in Ident})

\* Faulty variant of Piece: the name is not cut to the buffer names are kept in.
Piece_whole_name(s, i, vs) ==
  IF s[i] # "$" \/ i = Len(s) THEN <<SubSeq(s, i, i), i + 1>>
  ELSE IF s[i + 1] \in DOMAIN Special THEN <<Special[s[i + 1]], i + 2>>
  ELSE IF s[i + 1] \in Letters
  THEN LET e == NameEnd(s, i + 1)
       IN  <<get_variable(vs, SubSeq(s, i + 1, e), <<>>), e + 1>>
  ELSE <<SubSeq(s, i, i), i + 1>>

\* What stands at place i and where the next piece begins.
Piece(s, i, vs) ==
  IF s[i] # "$" \/ i = Len(s) THEN <<SubSeq(s, i, i), i + 1>>
  ELSE IF s[i + 1] \in DOMAIN Special THEN <<Special[s[i + 1]], i + 2>>
  ELSE IF s[i + 1] \in Letters
  THEN LET e == NameEnd(s, i + 1)
       IN  <<get_variable(vs, Cut(SubSeq(s, i + 1, e), MAX_VAR_NAME), <<>>), e + 1>>
  ELSE <<SubSeq(s, i, i), i + 1>>

\* Characters that still fit in buf.
Room(out) == ARG_MAX - 1 - Len(out)

(* expand_variables: piece by piece while there is room.                   *)
NextPiece(s, vs, r) ==
  IF r.i > Len(s) \/ Room(r.out) <= 0 THEN r
  ELSE LET p == Piece(s, r.i, vs)
       IN  [out |-> r.out \o SubSeq(p[1], 1, Min({Len(p[1]), Room(r.out)})), i |-> p[2]]

expand_variables(s, vs) ==
  LET after[n \in 0 .. Len(s)] ==
        IF n = 0 THEN [out |-> <<>>, i |-> 1] ELSE NextPiece(s, vs, after[n - 1])
  IN  after[Len(s)].out
-----------------------------------------------------------------------------
(* Reference definitions.                                                  *)

\* A place separates words when it holds a space outside quotes.
Outside(s, i) == Cardinality({j \in 1 .. i - 1 : s[j] = QUOTE}) % 2 = 0
Separates(s, i) == s[i] = BLANK /\ Outside(s, i)

\* Where words start, and how many have at a place.
Starts(s) == {i \in DOMAIN s : ~Separates(s, i) /\ (i = 1 \/ Separates(s, i - 1))}
Count(s, i) == Cardinality({j \in Starts(s) : j <= i})

\* The characters of s at some places, in their order.
At(s, places) ==
  [k \in 1 .. Cardinality(places) |->
     s[Min({i \in places : Cardinality({j \in places : j <= i}) = k})]]

\* The words are the longest runs without separators, less their quotes.
Letter(s, k) == {i \in DOMAIN s : ~Separates(s, i) /\ s[i] # QUOTE /\ Count(s, i) = k}
Words(s) == [k \in 1 .. Cardinality(Starts(s)) |-> At(s, Letter(s, k))]

\* Expansion without a limit, from the end of the string.
Expansion(s, vs) ==
  LET from[i \in 1 .. Len(s) + 1] ==
        IF i > Len(s) THEN <<>>
        ELSE Piece(s, i, vs)[1] \o from[Piece(s, i, vs)[2]]
  IN  from[1]

OneVariable == <<[name |-> <<CHOOSE a \in Letters : TRUE>>, value |-> Value, exported |-> TRUE]>>
-----------------------------------------------------------------------------
(* Quotes keep spaces in a word and nothing else splits or joins words;    *)
(* the words past the limit are dropped whole (parse_arguments).           *)
WordsAreWords ==
  parse_arguments(text, MAX_ARGS)
    = SubSeq(Words(text), 1, Min({MAX_ARGS, Len(Words(text))}))

(* Expansion is the expansion of every piece, cut at the end of the        *)
(* buffer, and always fits it (expand_variables).                          *)
ExpansionIsCut ==
  /\ expand_variables(text, OneVariable) = Cut(Expansion(text, OneVariable), ARG_MAX)
  /\ Len(expand_variables(text, OneVariable)) < ARG_MAX

(* What an assignment sets is what $NAME gives, names too long for their   *)
(* buffer included (parse_assignment, set_variable, expand_variables).     *)
AssignedIsExpanded ==
  parse_assignment(text) =>
    LET eq == FirstEquals(text)
        v == Split(text, eq)
    IN  expand_variables(<<"$">> \o SubSeq(text, 1, eq - 1),
                         set_variable(<<>>, v.name, v.value, FALSE))
          = Cut(v.value, ARG_MAX)

(* load_environment reads back the exported variables build_environment     *)
(* wrote, also values with '=' in them and names and values that fill      *)
(* their buffers, and no others.                                           *)
EnvironmentArrives ==
  parse_assignment(text) =>
    LET eq == FirstEquals(text)
        v == Split(text, eq)
        exported == set_variable(OneVariable, v.name, v.value, TRUE)
        assigned == set_variable(OneVariable, v.name, v.value, FALSE)
    IN  /\ load_environment(build_environment(exported)) = exported
        /\ load_environment(build_environment(assigned))
             = IF v.name = OneVariable[1].name THEN assigned ELSE OneVariable

(* "load environment variables from parent" (main): a shell started from   *)
(* this one has the variables this one exports.                            *)
VariablesInherited ==
  parse_assignment(text) =>
    LET v == Split(text, FirstEquals(text))
        vs == set_variable(<<>>, v.name, v.value, TRUE)
    IN  load_environment(environ(build_environment(vs))) = vs

(* Words, expansion and environment: what was quoted stays together, and   *)
(* what is too long is cut where the buffer ends and nowhere else.         *)
WordsCorrect ==
  /\ WordsAreWords
  /\ ExpansionIsCut
  /\ AssignedIsExpanded
  /\ EnvironmentArrives
=============================================================================
