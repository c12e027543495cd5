------------------------------- MODULE ArgTable -------------------------------
(***************************************************************************)
(* A table of options, AvenArgSlice in include/aven/arg.h, and the         *)
(* functions that read it.  An option has a value if the type of the value *)
(* is its own: a value that was never set has type 0, BOOL.  A string is   *)
(* the sequence of the words that spaces separate in it.                   *)
(***************************************************************************)
EXTENDS Integers, Sequences

ArgType == {"BOOL", "INT", "STRING"}
Value(type, data) == [type |-> type, data |-> data]

First(S) == CHOOSE j \in S : \A k \in S : j <= k
Places(table, name) == {j \in 1..Len(table) : table[j].name = name}

HasData(arg) == arg.type = arg.value.type

aven_arg_get(table, name) == table[First(Places(table, name))]
aven_arg_has_arg(table, name) ==
    Places(table, name) # {} /\ HasData(aven_arg_get(table, name))

\* What the asserts of aven_arg_get_bool, _int and _str demand, and their result.
Readable(table, name, type) ==
    aven_arg_has_arg(table, name) /\ aven_arg_get(table, name).type = type
Data(table, name) == aven_arg_get(table, name).value.data

\* A table of an option each: a string has words, and a value that is not of
\* the type of its option was never set.
IsOption(arg) ==
    /\ arg = [name |-> arg.name, optional |-> arg.optional, type |-> arg.type,
              value |-> Value(arg.value.type, arg.value.data)]
    /\ arg.optional \in BOOLEAN /\ arg.type \in ArgType
    /\ arg.value.type \in {arg.type, "BOOL"}
    /\ arg.value.type = "STRING" => arg.value.data \in Seq(STRING)
IsTable(table) ==
    /\ Len(table) \in Nat /\ table = [j \in 1..Len(table) |-> table[j]]
    /\ \A j \in 1..Len(table) : IsOption(table[j])
=============================================================================
