------------------------------ MODULE ShellEnv ------------------------------
(***************************************************************************)
(* What the shell's variables promise: a map of at most MAX_VARS names to  *)
(* a value and an export mark, which only an unset takes away.             *)
(***************************************************************************)
EXTENDS Integers, FiniteSets

CONSTANTS MAX_VARS, Names, Values

VARIABLE env     \* a function on the names that are set

Entry == [value : Values, exported : BOOLEAN]

\* One name gets a value, if there is room for it.
Put(e, n, v, x) ==
  IF n \in DOMAIN e
  THEN [e EXCEPT ![n] = [value |-> v, exported |-> @.exported \/ x]]
  ELSE IF Cardinality(DOMAIN e) >= MAX_VARS THEN e
  ELSE [m \in DOMAIN e \cup {n} |-> IF m = n THEN [value |-> v, exported |-> x] ELSE e[m]]

Assign(n, v, x) == env' = Put(env, n, v, x)

Mark(n) == n \in DOMAIN env /\ env' = [env EXCEPT ![n].exported = TRUE]

Unset(n) == n \in DOMAIN env /\ env' = [m \in DOMAIN env \ {n} |-> env[m]]

Init == env \in UNION {[S -> Entry] : S \in {T \in SUBSET Names : Cardinality(T) <= MAX_VARS}}
Next == \E n \in Names : Unset(n) \/ Mark(n) \/ \E v \in Values, x \in BOOLEAN : Assign(n, v, x)
Spec == Init /\ [][Next]_env
=============================================================================
