------------------------------ MODULE Values -------------------------------
(***************************************************************************)
(* A value on its way from Python to C and back: a GObject.Value, a        *)
(* property of an object, the argument of a function that returns it, or   *)
(* an entry of a hash table (gi/pygi-value.c, gi/pygi-property.c,          *)
(* gi/pygi-argument.c, gi/pygobject-class.c).  Each behaviour has one such *)
(* place, on one platform.                                                 *)
(***************************************************************************)
EXTENDS PropertySpecs

CONSTANTS
    Declarations,    \* [kind, type, unichar] of the places there may be
    Objects,         \* Python objects
    Bounds,          \* [minimum, maximum, default] that a property may be declared with
    CValues          \* what C code may set a property of each type to

VARIABLES
    decl,      \* the declaration
    held,      \* what C holds: a GValue, a GIArgument or a pointer of a hash table
    attr,      \* the attribute behind a property that is defined in Python
    given,     \* the object it was last set to
    did        \* the last operation and how it ended
vars == <<longbits, decl, held, attr, given, did>>

Platforms == {5, 6}
Nothing == [is |-> "nothing"]

Init ==
    /\ longbits \in Platforms
    /\ decl \in Declarations
    /\ held = IF decl.kind \in {"argument", "hash", "declared"} THEN Nothing ELSE NewGV(decl.type)
    /\ attr = Nothing
    /\ given = Nothing
    /\ did = [op |-> "none"]

Did(op, o, r) == did' = [op |-> op, o |-> o, r |-> r]
Outcome(r) == IF r.ok THEN Ok(Nothing) ELSE Refused(r.exc)

\* The tag a typelib has for the type.
Tags == [BOOLEAN |-> "boolean", CHAR |-> "int8", UCHAR |-> "uint8", INT16 |-> "int16",
         UINT16 |-> "uint16", INT |-> "int32", UINT |-> "uint32", INT64 |-> "int64",
         UINT64 |-> "uint64", FLOAT |-> "float", DOUBLE |-> "double", STRING |-> "utf8",
         FILENAME |-> "filename", GTYPE |-> "gtype", POINTER |-> "void", WIDGET |-> "object"]

\* Each GType has a name of its own, a gunichar is a guint to GObject, which has
\* no types of 16 bits or of file names; and a class of enumeration members has
\* those of its GType.
ASSUME PlacesAssumption ==
    /\ DOMAIN Enums \cap (DOMAIN Tags \cup {Tags[t] : t \in DOMAIN Tags} \cup {"LONG", "ULONG", "unichar"}) = {}
    /\ \A d \in Declarations :
           /\ d.unichar \in BOOLEAN /\ (d.unichar => d.type = "UINT")
           /\ d.type \in {"INT16", "UINT16", "FILENAME"} => d.kind \in {"argument", "hash"}
    /\ \A o \in Objects : o.is = "member" =>
           o.of \in DOMAIN Enums /\ (Enums[o.of].flags \/ o.n \in Enums[o.of].values)

\* Python objects that are numbers, or none at all; bounds are finite.
Sound(o) ==
    /\ o.is \in {"int", "member"} => o.n \in Int
    /\ o.is = "bool" => o.b \in BOOLEAN
    /\ o.is = "float" /\ "k" \notin DOMAIN o => o.h \in Int
ASSUME ObjectsAssumption ==
    /\ \A o \in Objects : Sound(o)
    /\ \A p \in Declarations : p.kind = "declared" =>
           \A d \in Bounds[p.type] : \A o \in {d.minimum, d.maximum, d.default} :
               Sound(o) /\ (o.is = "float" => "k" \notin DOMAIN o)

Tagged(t) == t \in DOMAIN Tags \cup DOMAIN Enums \cup {"LONG", "ULONG"}
TagOf(d) ==
    CASE d.unichar -> "unichar"
      [] d.type = "LONG" -> IF Windows THEN "int32" ELSE "int64"
      [] d.type = "ULONG" -> IF Windows THEN "uint32" ELSE "uint64"
      [] d.type \in DOMAIN Enums -> d.type
      [] d.type \in DOMAIN Tags /\ ~d.unichar -> Tags[d.type]

(***************************************************************************)
(* An argument: pygi_argument_from_py and pygi_argument_to_py.             *)
(***************************************************************************)
pygi_argument_from_py(tag, o) ==
    IF tag \in DOMAIN Enums
    THEN IF Enums[tag].flags THEN from_py_interface_flags(tag, o) ELSE from_py_interface_enum(tag, o)
    ELSE IF tag # "object" THEN pygi_marshal_from_py_basic_type(o, tag)
    ELSE IF o.is = "None" THEN Ok(NULL)
    ELSE IF o.is = "gobject" THEN Ok(Holding(o)) ELSE Refused("TypeError")
pygi_argument_to_py(tag, arg) ==
    IF tag \in DOMAIN Enums
    THEN IF Enums[tag].flags THEN to_py_interface_flags(tag, arg) ELSE to_py_interface_enum(tag, arg)
    ELSE IF tag = "object" THEN Ok(PointerOf("WIDGET", arg))
    ELSE IF tag = "void" THEN Ok(PyInt(Load("pointer", arg).num))
    ELSE pygi_marshal_to_py_basic_type(arg, tag)

Accept(op, o, r) ==
    /\ Did(op, o, Outcome(r))
    /\ held' = IF r.ok THEN r.v ELSE held
    /\ given' = IF r.ok THEN o ELSE given
    /\ UNCHANGED <<longbits, decl, attr>>
PassArgument(o) ==
    /\ decl.kind = "argument"
    /\ Accept("pass", o, pygi_argument_from_py(TagOf(decl), o))

ReturnArgument ==
    /\ decl.kind = "argument" /\ held # Nothing
    /\ Did("return", given, pygi_argument_to_py(TagOf(decl), held))
    /\ UNCHANGED <<longbits, decl, held, attr, given>>

InsertInHash(o) ==
    /\ decl.kind = "hash"
    /\ Accept("insert", o, Then(pygi_argument_from_py(TagOf(decl), o),
                               LAMBDA arg : Ok(arg_to_hash_pointer(arg, TagOf(decl)))))

LookUpInHash ==
    /\ decl.kind = "hash" /\ held # Nothing
    /\ LET tag == TagOf(decl)
       IN  Did("lookup", given, pygi_argument_to_py(tag, hash_pointer_to_arg(held, tag)))
    /\ UNCHANGED <<longbits, decl, held, attr, given>>

(***************************************************************************)
(* A GObject.Value, which may also be the parameter of a signal.           *)
(***************************************************************************)
Become(o, r) ==
    /\ Did("set", o, Outcome(r))
    /\ held' = r.gv
    /\ given' = IF r.ok THEN o ELSE IF r.gv = held THEN given ELSE Nothing
pyg__gvalue_set(o) ==
    /\ decl.kind = "value"
    /\ Become(o, pyg_value_from_pyobject_with_error(held, o))
    /\ UNCHANGED <<longbits, decl, attr>>

pyg__gvalue_get ==
    /\ decl.kind = "value"
    /\ Did("get", given, pyg_value_to_pyobject(held))
    /\ UNCHANGED <<longbits, decl, held, attr, given>>

SignalParameter ==
    /\ decl.kind = "value" /\ held.type = decl.type /\ Tagged(held.type)
    /\ LET tag == TagOf(decl)
       IN  Did("signal", given, pygi_argument_to_py(tag, argument_from_g_value(held, tag)))
    /\ UNCHANGED <<longbits, decl, held, attr, given>>

(***************************************************************************)
(* Properties.  They are introspected, or only known as a GParamSpec, or   *)
(* defined by a class of Python.                                           *)
(***************************************************************************)
Property == decl.kind \in {"introspected", "plain", "custom"}

pyg_param_gvalue_from_pyobject(gv, o) ==
    IF decl.unichar THEN By(gv, pygi_gunichar_from_py(o))
    ELSE IF gv.type = "VALUE_ARRAY" /\ IsSequence(o) THEN value_array_from_pyobject(gv, o, decl.element)
    ELSE pyg_value_from_pyobject(gv, o)

\* Fault: all of the union is taken.
WholeArgument(tag, t, arg) ==
    IF tag \in IntegerTags \cup DOMAIN Enums \cup {"boolean", "unichar"} THEN Num(arg.bits) ELSE arg
\* The member of the argument that is given to the GValue of type t.
ArgumentFor(tag, t, arg) ==
    CASE tag \in DOMAIN Enums -> Load(IF Enums[tag].flags THEN "uint" ELSE "int", arg)
      [] tag = "boolean" -> Load("int", arg)
      [] tag \in {"int8", "uint8"} -> Load(tag, arg)
      [] tag \in {"int16", "int32"} -> Load(IF t = "LONG" THEN "long" ELSE "int", arg)
      [] tag = "int64" -> Load(IF t = "LONG" THEN "long" ELSE "int64", arg)
      [] tag \in {"uint16", "uint32", "unichar"} -> Load(IF t = "ULONG" THEN "ulong" ELSE "uint", arg)
      [] tag = "uint64" -> Load(IF t = "ULONG" THEN "ulong" ELSE "uint64", arg)
      [] OTHER -> arg
set_gvalue_from_property_info(gv, o) ==
    LET tag == TagOf(decl)
    IN  By(gv, Then(pygi_argument_from_py(tag, o),
                    LAMBDA arg : IF tag = "void" THEN Refused("NotImplementedError")
                                 ELSE Ok(ArgumentFor(tag, gv.type, arg))))

pygi_set_gvalue_for_pspec(gv, o) ==
    IF decl.kind = "introspected" THEN set_gvalue_from_property_info(gv, o)
    ELSE pyg_param_gvalue_from_pyobject(gv, o)

\* pyg_object_set_property, which the class of Python has for g_object_set_property:
\* the object it makes is not looked at before it is released.  The method may
\* raise, which is only printed.
do_set_property(op, o, r, raises) ==
    /\ Did(op, o, IF r.ok THEN Ok(Nothing) ELSE Refused("NULL"))
    /\ attr' = IF r.ok /\ ~raises THEN r.v ELSE attr
    /\ given' = IF r.ok /\ ~raises THEN o ELSE given
    /\ UNCHANGED held

Give(o, special, raises) ==
    IF ~special.ok
    THEN /\ Did("set", o, Refused(IF special.exc = "none" /\ ~decl.unichar THEN "TypeError" ELSE special.exc))
         /\ UNCHANGED <<held, attr, given>>
    ELSE IF decl.kind # "custom"
    THEN Did("set", o, Ok(Nothing)) /\ held' = special.gv /\ given' = o /\ UNCHANGED attr
    ELSE do_set_property("set", o, pyg_value_to_pyobject(special.gv), raises)
SetProperty(o, raises) ==
    /\ Property /\ (raises => decl.kind = "custom")
    /\ Give(o, IF decl.unichar THEN By(held, pygi_gunichar_from_py(o))
               ELSE pygi_set_gvalue_for_pspec(NewGV(decl.type), o), raises)
    /\ UNCHANGED <<longbits, decl>>

\* pygi_get_property_value.
Marshalled ==
    IF decl.unichar THEN pygi_gunichar_to_py(held.v)
    ELSE Unless(pygi_value_to_py_basic_type(held),
                IF decl.kind = "introspected"
                THEN pygi_argument_to_py(TagOf(decl), argument_from_g_value(held, TagOf(decl)))
                ELSE pyg_value_to_pyobject(held))
GetProperty ==
    /\ Property
    /\ IF decl.kind = "custom" THEN attr # Nothing /\ Did("get", given, Ok(attr))
       ELSE Did("get", given, Marshalled)
    /\ UNCHANGED <<longbits, decl, held, attr, given>>

\* g_object_get_property by C code, through pyg_object_get_property.
ReadBack(r) == IF r.ok THEN pyg_value_to_pyobject(r.gv) ELSE Refused(r.exc)
GetFromC ==
    /\ decl.kind = "custom" /\ attr # Nothing
    /\ Did("get from C", given, ReadBack(pyg_value_from_pyobject(NewGV(decl.type), attr)))
    /\ UNCHANGED <<longbits, decl, held, attr, given>>

\* g_object_set_property by C code.
SetFromC(v, raises) ==
    /\ Property /\ (raises => decl.kind = "custom")
    /\ IF decl.kind = "custom"
       THEN do_set_property("set from C", Nothing, pyg_value_to_pyobject(GV(decl.type, v)), raises)
       ELSE /\ Did("set from C", Nothing, Ok(Nothing))
            /\ held' = GV(decl.type, v) /\ given' = Nothing /\ UNCHANGED attr
    /\ UNCHANGED <<longbits, decl>>

\* The class statement that declares a property, once.
Declared(op, d, r) == Did(op, d, Outcome(r)) /\ held' = IF r.ok THEN r.v ELSE held
DeclareProperty(helper, d) ==
    /\ decl.kind = "declared" /\ did.op = "none"
    /\ LET r == IF helper THEN Property__init__(decl.type, d) ELSE create_property(decl.type, d)
           op == IF helper THEN "declare" ELSE "declare in __gproperties__"
       IN  Declared(op, d, r)
    /\ UNCHANGED <<longbits, decl, attr, given>>

\* What a capsule points to is not followed: none is offered for a container.
Offered == {o \in Objects : o.is = "capsule" => decl.type \notin Containers}
Next ==
    \/ \E o \in Offered : \/ PassArgument(o) \/ InsertInHash(o) \/ pyg__gvalue_set(o)
                          \/ \E raises \in BOOLEAN : SetProperty(o, raises)
    \/ ReturnArgument \/ LookUpInHash
    \/ pyg__gvalue_get \/ SignalParameter
    \/ GetProperty \/ GetFromC
    \/ \E helper \in BOOLEAN, d \in Bounds[decl.type] : DeclareProperty(helper, d)
    \/ \E v \in CValues[decl.type], raises \in BOOLEAN : SetFromC(v, raises)

Spec == Init /\ [][Next]_vars

(***************************************************************************)
(* Properties.                                                             *)
(***************************************************************************)
Finite(o) == IsNumber(o) /\ "k" \notin DOMAIN o
Whole(o) == IF Halves(o) < 0 THEN -((-Halves(o)) \div 2) ELSE Halves(o) \div 2
IntegerOf == [CHAR |-> "int8", UCHAR |-> "uint8", INT16 |-> "int16", UINT16 |-> "uint16",
              INT |-> "int", UINT |-> "uint", LONG |-> "long", ULONG |-> "ulong",
              INT64 |-> "int64", UINT64 |-> "uint64"]

\* The number that a character, a byte or a number stands for.
Code(o) ==
    CASE o.is = "str" /\ Len(o.s) = 1 -> {o.s[1]}
      [] o.is = "bytes" /\ Len(o.bytes) = 1 -> {Cast(IntegerOf[decl.type], o.bytes[1])}
      [] Finite(o) -> {Whole(o)}
      [] OTHER -> {}

AsItem(o) == IF o.is = "str" THEN Str(Strdup(o.s)) ELSE IF decl.element = "STRING" THEN [is |-> "text", of |-> o] ELSE o
Address(o) == IF o.is = "gpointer" THEN Ok(o.p) ELSE pygi_gpointer_from_py(o)

\* The Python object out is what o means as a value of the declared type.
StandsFor(o, out) ==
    LET t == decl.type
        number == IF t = "DOUBLE" THEN Halves(o) ELSE IF t = "FLOAT" THEN Nearest(Halves(o)) ELSE 2 * Whole(o)
    IN  \/ out = o
        \/ t = "BOOLEAN" /\ out = PyBool(IsTrue(o))
        \/ Finite(o) /\ Finite(out) /\ t # "BOOLEAN" /\ Halves(out) = number
        \/ t \in {"CHAR", "UCHAR"} /\ Code(o) # {} /\ Code(o) = Code(out)
        \/ t \in DOMAIN Enums /\ o.is \in {"str", "tuple"} /\ out.is = "member"
               /\ out.n = (IF o.is = "str" THEN Named(t, o).v.num ELSE Union(t, o.items))
        \/ o.is = "str" /\ out = Str(Strdup(o.s))
        \/ t = "STRING" /\ out = [is |-> "text", of |-> o]
        \/ t = "FILENAME" /\ o.is = "path" /\ out = Str(o.path)
        \/ t = "FILENAME" /\ o.is = "bytes"
               /\ out = Str([i \in DOMAIN o.bytes |-> IF Ascii(o.bytes[i]) THEN o.bytes[i] ELSE Escape(o.bytes[i])])
        \/ t = "GTYPE" /\ o.is = "capsule" /\ out = GType(o.p)
        \/ t = "GTYPE" /\ out.is = "GType" /\ pyg_type_from_object_strict(o) = Ok(out.id)
        \/ t = "GTYPE" /\ o.is = "None" /\ out = GType(TypeId("INVALID"))
        \/ t \in {"POINTER", "RECT"} /\ Address(out).ok /\ Address(out) = Address(o)
        \/ t \in Containers /\ o.is = "None" /\ out = List(<<>>)
        \/ t \in Containers /\ IsSequence(o)
               /\ LET items == [i \in DOMAIN ItemsOf(o) |-> AsItem(ItemsOf(o)[i])]
                  IN  \/ out = List(items)
                      \/ t = "ARRAY" /\ out.is = "gpointer" /\ Items(out.p.values) = items

\* What is known not to come back: a character beyond ASCII as a string, a
\* letter as the parameter of a signal, a negative number that is no value of an
\* unsigned enumeration as one, None from a GValue in a GValue, and what is wider
\* than 32 bits from a hash table.
Undecodable == did.op = "get" /\ decl.kind = "value" /\ decl.type = "CHAR" /\ ~Ascii(held.v.num)
MisreadLetter == did.op = "signal" /\ decl.unichar
NoMember == did.op = "signal" /\ storage_type(TagOf(decl)) = "uint32" /\ held.v.num < 0
NoNested == did.op = "get" /\ held = GV("VALUE", NULL)
CutByHash ==
    /\ did.op = "lookup" /\ storage_type(TagOf(decl)) \in {"int64", "uint64"}
    /\ ~InRange(ViaInt(storage_type(TagOf(decl))), Whole(given))

\* What Python gave comes back as what it means for the declared type, by
\* whichever way it went and on every platform: the conversions of each pair of
\* routes (gi/pygi-basictype.c, pygi-value.c, pygi-property.c, pygi-argument.c,
\* pygi-cache-enum.c) agree on width, sign and encoding.
ComesBack ==
    did.op \in {"return", "lookup", "get", "signal", "get from C"} /\ given # Nothing =>
        \/ did.r.ok /\ StandsFor(given, did.r.v)
        \/ Undecodable \/ MisreadLetter \/ NoMember \/ NoNested \/ CutByHash

\* A number is taken exactly if the declared type has it on this platform, and
\* as the value of an enumeration only if it has a member for it.
Counts(n) ==
    LET t == decl.type
    IN  IF t \in DOMAIN IntegerOf THEN InRange(IntegerOf[t], n)
        ELSE IF Enums[t].flags THEN InRange("uint", n)
        ELSE n \in Enums[t].values
TakesItsRange ==
    (/\ did.op \in {"pass", "insert", "set"} /\ Finite(did.o)
     /\ did.r.ok \/ did.r.exc # "NULL"
     /\ \/ decl.type \in DOMAIN IntegerOf /\ ~decl.unichar
        \/ decl.type \in DOMAIN Enums /\ decl.kind \in {"argument", "hash", "introspected"})
    => (did.r.ok <=> Counts(Whole(did.o)))

\* A property has the range and the default that it was declared with, or is
\* refused, if its default is within the range.  A range in __gproperties__ is
\* cut to the width of an unsigned type: create_property does not look, while
\* GObject.Property does (gi/_propertyhelper.py).
Number(o, otherwise) ==
    IF o.is = "None" THEN otherwise
    ELSE IF o.is = "bytes" THEN 2 * Cast(CTypes[decl.type], o.bytes[1])
    ELSE IF decl.type = "FLOAT" THEN Nearest(Halves(o)) ELSE Halves(o)
SpecAsDeclared ==
    (/\ did.op \in {"declare", "declare in __gproperties__"} /\ did.r.ok /\ decl.type \in Ranged
     /\ did.op = "declare" \/ decl.type \notin Unsigned)
    => LET t == decl.type
           unit == IF t \in {"FLOAT", "DOUBLE"} THEN 1 ELSE 2
           lo == Number(did.o.minimum, Least(t))
           hi == Number(did.o.maximum, Most(t))
           v == Number(did.o.default, 0)
       IN  lo <= v /\ v <= hi => /\ unit * held.minimum = lo /\ unit * held.maximum = hi
                                 /\ unit * held.default.num = v

\* A conversion that is refused changes nothing, or leaves a GValue unset: never
\* another value, half of one, or the attribute of a property.
RefusedLeavesAlone ==
    [][ (did'.op \in {"pass", "insert", "set", "set from C"} /\ ~did'.r.ok) =>
            /\ attr' = attr
            /\ held' \in {held, Unset} \/ decl.type = "VALUE" ]_vars

\* Python reads the attribute of a property of its own directly, C code through
\* a GValue of the declared type: what C reads is the attribute.
AttributeAsC == did.op = "get from C" => did.r = Ok(attr)

\* A value keeps its meaning on every way there and back.
ValuesKept == ComesBack /\ AttributeAsC
=============================================================================
