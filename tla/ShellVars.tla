----------------------------- MODULE ShellVars -----------------------------
(***************************************************************************)
(* The shell's table of variables (bin/sh.c) as a sequence of records,     *)
(* variables[0 .. var_count - 1].  A name or a value is whatever the       *)
(* module that uses this one takes it for, already cut to its buffer.      *)
(***************************************************************************)
EXTENDS Integers, Sequences, SequencesExt

CONSTANT MAX_VARS       \* entries in the table (64)

ASSUME VarsAssumption == MAX_VARS \in Nat \ {0}

\* The first entry of that name, 0 for none.
find_variable(vars, name) == SelectInSeq(vars, LAMBDA v : v.name = name)

\* Faulty variant of set_variable: an assignment takes the export mark away.
set_variable_unexports(vars, name, value, exported) ==
  LET i == find_variable(vars, name)
      entry == [name |-> name, value |-> value, exported |-> exported]
  IN  IF i > 0 THEN [vars EXCEPT ![i] = entry]
      ELSE IF Len(vars) >= MAX_VARS THEN vars ELSE Append(vars, entry)

\* An old variable keeps its export mark; a new one needs a free entry.
set_variable(vars, name, value, exported) ==
  LET i == find_variable(vars, name)
  IN  IF i > 0 THEN [vars EXCEPT ![i].value = value,
                                 ![i].exported = @ \/ exported]
      ELSE IF Len(vars) >= MAX_VARS THEN vars
      ELSE Append(vars, [name |-> name, value |-> value, exported |-> exported])

get_variable(vars, name, default) ==
  LET i == find_variable(vars, name) IN IF i > 0 THEN vars[i].value ELSE default

unset_variable(vars, name) ==
  LET i == find_variable(vars, name) IN IF i > 0 THEN RemoveAt(vars, i) ELSE vars

export_variable(vars, name) ==
  LET i == find_variable(vars, name)
  IN  IF i > 0 THEN [vars EXCEPT ![i].exported = TRUE] ELSE vars
=============================================================================
