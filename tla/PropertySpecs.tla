--------------------------- MODULE PropertySpecs ----------------------------
(***************************************************************************)
(* The GParamSpec that the declaration of a property in Python makes: with *)
(* GObject.Property (gi/_propertyhelper.py) or as an entry of              *)
(* __gproperties__ (create_property in gi/pygobject-class.c).              *)
(***************************************************************************)
EXTENDS GValues

CTypes == [INT |-> "int", LONG |-> "long", INT64 |-> "longlong", UINT |-> "uint", ULONG |-> "ulong",
           UINT64 |-> "ulonglong", CHAR |-> "int8", UCHAR |-> "uint8"]
Integral == {"INT", "LONG", "INT64", "UINT", "ULONG", "UINT64"}
Unsigned == {"UINT", "ULONG", "UINT64"}
Ranged == Integral \cup {"CHAR", "UCHAR", "FLOAT", "DOUBLE"}
Numeric == Integral \cup {"FLOAT", "DOUBLE"}

\* PyArg_ParseTuple with the format for t: "c", "i", "l", "L", or "I", "k", "K",
\* which take what fits of any integer, or "f", "d", "z".
Parsed(t, o) ==
    CASE t \in {"CHAR", "UCHAR"} ->
           IF o.is = "bytes" /\ Len(o.bytes) = 1 THEN Ok(Num(Cast(CTypes[t], o.bytes[1]))) ELSE Refused("TypeError")
      [] t \in Integral \cup {"BOOLEAN"} ->
           LET c == IF t = "BOOLEAN" THEN "int" ELSE CTypes[t]
           IN  IF o.is \notin {"int", "bool", "member"} THEN Refused("TypeError")
               ELSE IF t \notin Unsigned /\ ~InRange(c, Halves(o) \div 2) THEN Refused("OverflowError")
               ELSE Ok(Num(Cast(c, Halves(o) \div 2)))
      [] t \in {"FLOAT", "DOUBLE"} ->
           IF ~IsNumber(o) THEN Refused("TypeError")
           ELSE Ok(Num(IF t = "FLOAT" THEN Nearest(Halves(o)) ELSE Halves(o)))
      [] t = "STRING" ->
           IF o.is = "None" THEN Ok(NULL)
           ELSE IF o.is = "str" /\ AsUTF8(o.s).ok /\ Strdup(o.s) = o.s THEN Ok(CString(o.s)) ELSE Refused("TypeError")

\* g_param_spec_enum and g_param_spec_flags know the values of the type.
HasValue(t, n) ==
    IF Enums[t].flags
    THEN \A b \in 0 .. Width("uint") - 1 :
             (n \div 2 ^ b) % 2 = 1 => \E k \in Enums[t].values : (k \div 2 ^ b) % 2 = 1
    ELSE n \in Enums[t].values

create_property(t, d) ==
    IF t \in Ranged
    THEN Then(Parsed(t, d.minimum), LAMBDA lo : Then(Parsed(t, d.maximum), LAMBDA hi : Then(Parsed(t, d.default),
             LAMBDA v : IF lo.num <= v.num /\ v.num <= hi.num
                        THEN Ok([minimum |-> lo.num, maximum |-> hi.num, default |-> v]) ELSE Refused("TypeError"))))
    ELSE IF t \in DOMAIN Enums
    THEN Then(IF Enums[t].flags THEN pyg_flags_get_value(t, d.default) ELSE pyg_enum_get_value(t, d.default),
             LAMBDA v : IF HasValue(t, v.num) THEN Ok([default |-> v]) ELSE Refused("TypeError"))
    ELSE IF t \in {"BOOLEAN", "STRING"} THEN Then(Parsed(t, d.default), LAMBDA v : Ok([default |-> v]))
    ELSE Ok([default |-> NULL])

(***************************************************************************)
(* GObject.Property.                                                       *)
(***************************************************************************)
\* In the unit of Halves.
Least(t) == IF t = "FLOAT" THEN -MaxFloat ELSE IF t = "DOUBLE" THEN -MaxDouble ELSE 2 * Lowest(CTypes[t])
Most(t) == IF t = "FLOAT" THEN MaxFloat ELSE IF t = "DOUBLE" THEN MaxDouble ELSE 2 * Highest(CTypes[t])
InPython(t, h) == IF t \in {"FLOAT", "DOUBLE"} THEN PyFloat(h) ELSE PyInt(h \div 2)

_get_default(t, o) ==
    IF o.is # "None" THEN o
    ELSE IF t \in Numeric THEN InPython(t, 0) ELSE IF t = "STRING" THEN Str(<<>>) ELSE o
_check_default(t, o) ==
    CASE t = "BOOLEAN" -> IsNumber(o) /\ Halves(o) \in {0, 2}
      [] t \in DOMAIN Enums -> Instance(t, o)
      [] OTHER -> TRUE

\* Fault: the upper bound is not compared with that of the type.
AnyMaximum(t, d) ==
    LET default == _get_default(t, d.default) IN
    IF ~_check_default(t, default) THEN Refused("TypeError")
    ELSE IF t \notin Numeric
    THEN IF d.minimum.is # "None" \/ d.maximum.is # "None" THEN Refused("TypeError")
         ELSE IF t \in {"CHAR", "UCHAR"} THEN Refused("NotImplementedError")
         ELSE create_property(t, [d EXCEPT !.default = default])
    ELSE IF d.minimum.is # "None" /\ Halves(d.minimum) < Least(t) THEN Refused("TypeError")
    ELSE create_property(t, [minimum |-> IF d.minimum.is = "None" THEN InPython(t, Least(t)) ELSE d.minimum,
                             maximum |-> IF d.maximum.is = "None" THEN InPython(t, Most(t)) ELSE d.maximum,
                             default |-> default])
Property__init__(t, d) ==
    LET default == _get_default(t, d.default) IN
    IF ~_check_default(t, default) THEN Refused("TypeError")
    ELSE IF t \notin Numeric
    THEN IF d.minimum.is # "None" \/ d.maximum.is # "None" THEN Refused("TypeError")
         ELSE IF t \in {"CHAR", "UCHAR"} THEN Refused("NotImplementedError")
         ELSE create_property(t, [d EXCEPT !.default = default])
    ELSE IF \/ d.minimum.is # "None" /\ Halves(d.minimum) < Least(t)
            \/ d.maximum.is # "None" /\ Halves(d.maximum) > Most(t) THEN Refused("TypeError")
    ELSE create_property(t, [minimum |-> IF d.minimum.is = "None" THEN InPython(t, Least(t)) ELSE d.minimum,
                             maximum |-> IF d.maximum.is = "None" THEN InPython(t, Most(t)) ELSE d.maximum,
                             default |-> default])
=============================================================================
