---------------------------- MODULE RuntimeVars ----------------------------
(***************************************************************************)
(* The variable table of the runtime script language (kernel.c,            *)
(* runtime_vars / runtime_var_count) and the int32_t arithmetic its        *)
(* instructions apply.  A table is the sequence of the runtime_var_count   *)
(* entries in use: entries past the count keep old bytes, which no lookup  *)
(* reads and which creation overwrites.                                    *)
(***************************************************************************)
EXTENDS Integers, Sequences

CONSTANTS
  Word,       \* the words of a command line, already in upper case (str_icmp)
  MaxVars,    \* entries of runtime_vars (16)
  HalfRange,  \* int32_t holds -HalfRange .. HalfRange - 1 (2^31)
  IntOf,      \* the decimal value of each word that is a number
  Stored      \* what copy_text keeps of a word in the 16 bytes of a name

ASSUME MaxVarsAssumption == MaxVars \in Nat \ {0}
ASSUME HalfRangeAssumption == HalfRange \in Nat \ {0}
ASSUME WordAssumption ==
  /\ DOMAIN IntOf \subseteq Word
  /\ \A w \in DOMAIN IntOf : IntOf[w] \in Int
  /\ Stored \in [Word -> Word]

Int32 == -HalfRange .. HalfRange - 1

Entry == [name : Word, value : Int32]
VarTable == {t \in Seq(Entry) : Len(t) <= MaxVars}

\* Two's complement: what the low bits of an exact result read as.
Wrap(x) == ((x + HalfRange) % (2 * HalfRange)) - HalfRange

\* parse_int32 accepts the argument only when it is one word of digits with an
\* optional minus; the accumulation in uint32_t wraps without a check.
IsInt32(args) == Len(args) = 1 /\ args[1] \in DOMAIN IntOf
ParseInt32(args) == Wrap(IntOf[args[1]])

\* C division truncates towards zero.
Magnitude(x) == IF x < 0 THEN -x ELSE x
Quotient(a, b) ==
  IF (a < 0) = (b < 0) THEN Magnitude(a) \div Magnitude(b)
                       ELSE -(Magnitude(a) \div Magnitude(b))

\* idiv raises #DE when the quotient does not fit: INT32_MIN / -1.
Traps(a, b) == a = -HalfRange /\ b = -1

\* find_runtime_var: the first entry whose stored name equals the word.
Entries(table, name) == {i \in 1 .. Len(table) : table[i].name = name}
Known(table, name) == Entries(table, name) # {}
FindVar(table, name) ==
  CHOOSE i \in Entries(table, name) : \A j \in Entries(table, name) : i <= j

ValueOf(table, name) == table[FindVar(table, name)].value

\* get_or_create_runtime_var fails only when the name is new and the table full.
CanSet(table, name) == Known(table, name) \/ Len(table) < MaxVars

\* Mutant: every SET takes a fresh entry.
AppendVar(table, name, v) == Append(table, [name |-> Stored[name], value |-> v])

\* Mutant: a name's first SET only creates its entry.
CreateOnly(table, name, v) ==
  IF Known(table, name)
  THEN [table EXCEPT ![FindVar(table, name)].value = v]
  ELSE Append(table, [name |-> Stored[name], value |-> 0])

\* SET: get_or_create_runtime_var, then var->value = v.
SetVar(table, name, v) ==
  IF Known(table, name)
  THEN [table EXCEPT ![FindVar(table, name)].value = v]
  ELSE Append(table, [name |-> Stored[name], value |-> v])

\* ADD, SUB, MUL and DIV on the entry of a known name.  Signed overflow is
\* undefined in C; the x86-64 build computes the wrapped result.
Applied(op, a, b) ==
  CASE op = "ADD" -> Wrap(a + b)
    [] op = "SUB" -> Wrap(a - b)
    [] op = "MUL" -> Wrap(a * b)
    [] op = "DIV" -> Wrap(Quotient(a, b))

ApplyVar(table, op, name, v) ==
  [table EXCEPT ![FindVar(table, name)].value = Applied(op, @, v)]
=============================================================================
