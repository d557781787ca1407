----------------------------- MODULE EnumFlags -----------------------------
(***************************************************************************)
(* The values of enumerations and flags: from Python (gi/pygi-type.c), to  *)
(* Python (gi/pygenum.c and gi/pygflags.c) and as the arguments and the    *)
(* results of C functions (gi/pygi-cache-enum.c).                          *)
(***************************************************************************)
EXTENDS BasicTypes

CONSTANT Enums    \* [flags, values, names, storage] of the GTypes of this kind

\* An enumeration has gints; a typelib stores its values in an integer.
ASSUME EnumsAssumption ==
    \A t \in DOMAIN Enums :
        /\ Enums[t].flags \in BOOLEAN /\ Enums[t].storage \in IntegerTags
        /\ Enums[t].flags \/ Enums[t].values \subseteq -(2 ^ (Bits.int - 1)) .. 2 ^ (Bits.int - 1) - 1

Member(t, n) == [is |-> "member", of |-> t, n |-> n]
Tuple(items) == [is |-> "tuple", items |-> items]
Instance(t, o) == o.is = "member" /\ o.of = t

\* g_enum_get_value_by_name, and by nick.
Named(t, o) ==
    IF o.is = "str" /\ AsUTF8(o.s).ok /\ Strdup(o.s) \in DOMAIN Enums[t].names
    THEN Ok(Num(Enums[t].names[Strdup(o.s)])) ELSE Refused("TypeError")

pyg_enum_get_value(t, o) ==
    IF IsNumber(o) THEN pygi_gint_from_py(o) ELSE Named(t, o)

Union(t, items) ==
    LET n == {Named(t, items[i]).v.num : i \in DOMAIN items}
    IN  CHOOSE u \in 0 .. Highest("uint") :
            \A b \in 0 .. Width("uint") - 1 :
                ((u \div 2 ^ b) % 2 = 1) <=> \E k \in n : (k \div 2 ^ b) % 2 = 1
pyg_flags_get_value(t, o) ==
    IF IsNumber(o) THEN pygi_guint_from_py(o)
    ELSE IF o.is # "tuple" THEN Named(t, o)
    ELSE IF \E i \in DOMAIN o.items : ~Named(t, o.items[i]).ok THEN Refused("TypeError")
    ELSE Ok(Num(Union(t, o.items)))

\* What the class makes of a number: flags keep the bits they do not know, an
\* enumeration has no member for a value it does not know.
pyg_enum_val_new(t, n) == IF n \in Enums[t].values THEN Member(t, n) ELSE PyInt(n)
pyg_flags_val_new(t, n) == Member(t, n)
pyg_enum_from_gtype(t, v) == pyg_enum_val_new(t, v.num)
pyg_flags_from_gtype(t, v) == pyg_flags_val_new(t, v.num)

(***************************************************************************)
(* Arguments of C functions have the storage type of the typelib.          *)
(***************************************************************************)
gi_argument_from_c_long(n, tag) ==
    IF tag \in IntegerTags \cup {"unichar"} THEN Ok(Store(tag, Num(n))) ELSE Refused("TypeError")

gi_argument_to_c_long(arg, tag) ==
    IF tag \notin IntegerTags \cup {"unichar"} THEN Refused("TypeError")
    ELSE LET n == Load(tag, arg).num
         IN  IF tag \in {"int64", "uint64"} /\ ~InRange("long", n) THEN Refused("TypeError")
             ELSE Ok(Num(Cast("long", n)))

\* Fault: a number is taken for a member of any enumeration.
AnyInteger(t, o) ==
    Then(pyg_enum_get_value(t, o),
         LAMBDA v : gi_argument_from_c_long(v.num, Enums[t].storage))
from_py_interface_enum(t, o) ==
    Then(pyg_enum_get_value(t, o),
         LAMBDA v : Then(gi_argument_from_c_long(v.num, Enums[t].storage),
             LAMBDA arg : IF Instance(t, o) \/ v.num \in Enums[t].values
                          THEN Ok(arg) ELSE Refused("TypeError")))
from_py_interface_flags(t, o) ==
    Then(pyg_flags_get_value(t, o),
         LAMBDA v : gi_argument_from_c_long(Cast("long", v.num), Enums[t].storage))
to_py_interface_enum(t, arg) ==
    Then(gi_argument_to_c_long(arg, Enums[t].storage),
         LAMBDA v : IF InRange("int", v.num) THEN Ok(pyg_enum_val_new(t, v.num))
                    ELSE Refused("OverflowError"))
to_py_interface_flags(t, arg) ==
    Then(gi_argument_to_c_long(arg, Enums[t].storage),
         LAMBDA v : Ok(pyg_flags_val_new(t, Cast("uint", v.num))))
=============================================================================
