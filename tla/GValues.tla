------------------------------ MODULE GValues ------------------------------
(***************************************************************************)
(* GValues from and to Python objects, and as arguments (gi/pygi-value.c,  *)
(* gi/pygi-type.c, gi/pygi-argument.c).  A GValue has a type and a value;  *)
(* a conversion yields the GValue it leaves behind and, when it fails, the *)
(* exception it raised: "none" where the code raises none.                 *)
(***************************************************************************)
EXTENDS EnumFlags

GV(t, v) == [type |-> t, v |-> v]
NewGV(t) == GV(t, IF t \in {"FLOAT", "DOUBLE"} THEN CFloat(0) ELSE NULL)   \* g_value_init
Unset == GV("INVALID", NULL)

Took(gv, v) == [ok |-> TRUE, exc |-> "none", gv |-> GV(gv.type, v)]
Kept(gv, exc) == [ok |-> FALSE, exc |-> exc, gv |-> gv]
By(gv, r) == IF r.ok THEN Took(gv, r.v) ELSE Kept(gv, r.exc)

\* An error of these is found after the value was given: it is unset.
Lost(exc) == [ok |-> FALSE, exc |-> exc, gv |-> Unset]
OrLost(gv, r) == IF r.ok THEN Took(gv, r.v) ELSE Lost(r.exc)

(***************************************************************************)
(* The types: a class WIDGET of objects with an interface, boxed types and *)
(* a fundamental type of a library, besides the basic ones.                *)
(***************************************************************************)
Fundamental(t) ==
    CASE t \in DOMAIN Enums -> IF Enums[t].flags THEN "FLAGS" ELSE "ENUM"
      [] t = "GTYPE" -> "POINTER"
      [] t = "WIDGET" -> "OBJECT"
      [] t = "ORPHAN" -> "INTERFACE"     \* of more than objects
      [] t \in {"PYOBJECT", "VALUE", "VALUE_ARRAY", "ARRAY", "STRV", "RECT"} -> "BOXED"
      [] OTHER -> t
IsA(t, u) == t = u \/ (t = "WIDGET" /\ u \in {"OBJECT", "INTERFACE"})
Wrapper(t) == [is |-> "gobject", type |-> t]             \* of an object of class t
Boxed(t) == [is |-> "boxed", type |-> t]
Fundament(t) == [is |-> "fundamental", type |-> t]
List(items) == [is |-> "list", items |-> items]
IsSequence(o) == o.is \in {"list", "tuple", "str", "bytes"}
Holding(o) == [holds |-> o]                              \* a pointer to what o wraps

(***************************************************************************)
(* pyg_value_from_pyobject_with_error, by fundamental type.                *)
(***************************************************************************)
SetInterface(gv, o) ==
    IF gv.type = "ORPHAN" THEN Kept(gv, "TypeError")
    ELSE IF o.is = "None" THEN Took(gv, NULL)
    ELSE IF o.is # "gobject" \/ ~IsA(o.type, gv.type) THEN Kept(gv, "TypeError")
    ELSE Took(gv, Holding(o))

SetChar(gv, o) ==
    By(gv, IF gv.type = "CHAR" THEN pygi_gschar_from_py(o) ELSE pygi_guchar_from_py(o))

SetInteger(gv, o) ==
    By(gv, CASE gv.type = "BOOLEAN" -> pygi_gboolean_from_py(o)
             [] gv.type = "INT" -> pygi_gint_from_py(o)
             [] gv.type = "UINT" -> pygi_guint_from_py(o)
             [] gv.type = "LONG" -> pygi_glong_from_py(o)
             [] gv.type = "ULONG" -> pygi_gulong_from_py(o)
             [] gv.type = "INT64" -> pygi_gint64_from_py(o)
             [] gv.type = "UINT64" -> pygi_guint64_from_py(o))

SetEnum(gv, o) ==
    By(gv, IF Enums[gv.type].flags THEN pyg_flags_get_value(gv.type, o)
           ELSE pyg_enum_get_value(gv.type, o))

SetFloat(gv, o) ==
    By(gv, IF gv.type = "FLOAT" THEN pygi_gfloat_from_py(o) ELSE pygi_gdouble_from_py(o))

\* Anything that has a __str__ will do.
SetString(gv, o) ==
    By(gv, IF o.is \in {"None", "str", "text"} THEN pygi_utf8_from_py(o) ELSE Ok(TextOf(o)))

SetPointer(gv, o) ==
    IF o.is = "None" THEN Took(gv, NULL)
    ELSE IF o.is = "gpointer" /\ o.type = gv.type THEN Took(gv, o.p)
    ELSE IF o.is = "capsule" THEN (IF o.p = NULL THEN Lost("ValueError") ELSE Took(gv, o.p))
    ELSE IF gv.type # "GTYPE" THEN Kept(gv, "TypeError")
    ELSE OrLost(gv, pyg_type_from_object_strict(o))

SetObject(gv, o) ==
    IF o.is = "None" THEN Took(gv, NULL)
    ELSE IF o.is = "gobject" /\ IsA(o.type, gv.type) THEN Took(gv, Holding(o))
    ELSE Kept(gv, "TypeError")

SetVariant(gv, o) ==
    IF o.is = "None" THEN Took(gv, NULL)
    ELSE IF o = Boxed("VARIANT") THEN Took(gv, Holding(o)) ELSE Kept(gv, "TypeError")

\* No converter is registered for a fundamental type; the library may have no
\* function that sets one.
SetFundamental(gv, o) ==
    IF o.is # "fundamental" \/ gv.type = "INVALID" THEN Kept(gv, "TypeError")
    ELSE IF o.type # gv.type THEN Kept(gv, "TypeError")
    ELSE IF gv.type = "SETTERLESS" THEN Lost("TypeError") ELSE Took(gv, Holding(o))

SetBoxed(gv, o) ==
    IF o.is = "None" THEN Took(gv, NULL)
    ELSE IF gv.type = "PYOBJECT" \/ o = Boxed(gv.type) THEN Took(gv, Holding(o))
    ELSE IF o.is # "capsule" THEN Kept(gv, "TypeError")
    ELSE IF o.p = NULL THEN Lost("ValueError") ELSE Took(gv, o.p)

\* What is no container of other values.
SetBasic(gv, o) ==
    LET f == Fundamental(gv.type)
    IN  CASE f = "INTERFACE" -> SetInterface(gv, o)
          [] f \in {"CHAR", "UCHAR"} -> SetChar(gv, o)
          [] f \in {"BOOLEAN", "INT", "UINT", "LONG", "ULONG", "INT64", "UINT64"} ->
                 SetInteger(gv, o)
          [] f \in {"ENUM", "FLAGS"} -> SetEnum(gv, o)
          [] f \in {"FLOAT", "DOUBLE"} -> SetFloat(gv, o)
          [] f = "STRING" -> SetString(gv, o)
          [] f = "POINTER" -> SetPointer(gv, o)
          [] f = "OBJECT" -> SetObject(gv, o)
          [] f = "VARIANT" -> SetVariant(gv, o)
          [] f = "BOXED" -> SetBoxed(gv, o)
          [] OTHER -> SetFundamental(gv, o)

(***************************************************************************)
(* Arrays of GValues: each item has the GType of its Python class.         *)
(***************************************************************************)
TypeOfItem(o) ==
    CASE o.is = "None" -> "POINTER"
      [] o.is = "int" -> "INT"
      [] o.is = "bool" -> "BOOLEAN"
      [] o.is = "float" -> "DOUBLE"
      [] o.is = "str" -> "STRING"
      [] o.is = "object" -> "PYOBJECT"
      [] o.is \in {"gobject", "boxed", "gpointer"} -> o.type
      [] o.is = "member" -> o.of
      [] OTHER -> "INVALID"
ItemsOf(o) ==
    CASE o.is = "str" -> [i \in DOMAIN o.s |-> Str(<<o.s[i]>>)]
      [] o.is = "bytes" -> [i \in DOMAIN o.bytes |-> PyInt(o.bytes[i])]
      [] OTHER -> o.items

\* pyg_value_array_from_pyobject (with the type of the elements of a property,
\* or "INVALID") and pyg_array_from_pyobject: a failure raises nothing.
ItemSet(t, item) == IF t = "INVALID" THEN Kept(Unset, "none") ELSE SetBasic(NewGV(t), item)
Gathered(gv, r) ==
    IF \A i \in DOMAIN r : r[i].ok THEN Took(gv, [values |-> [i \in DOMAIN r |-> r[i].gv]])
    ELSE Kept(gv, "none")
value_array_from_pyobject(gv, o, element) ==
    LET items == ItemsOf(o)
    IN  Gathered(gv, [i \in DOMAIN items |->
            ItemSet(IF element # "INVALID" THEN element ELSE TypeOfItem(items[i]), items[i])])
array_from_pyobject(gv, o) == value_array_from_pyobject(gv, o, "INVALID")

\* What all conversions of a list yield, or the first that fails.
FirstBad(r, bad) == IF bad = 0 THEN Ok([i \in DOMAIN r |-> r[i].v]) ELSE Refused(r[bad].exc)
AllOf(r) == FirstBad(r, SelectInSeq(r, LAMBDA s : ~s.ok))

\* strv_to_gvalue, strv_from_gvalue: the marshaller pyg_type_lookup finds.
\* Fault: the GValue takes the strings before all of them are converted.
TakesTheFirst(gv, o) ==
    IF o.is \notin {"list", "tuple"} THEN Kept(gv, "none")
    ELSE By(GV(gv.type, [strv |-> <<>>]),
            Then(AllOf([i \in DOMAIN o.items |-> pygi_utf8_from_py(o.items[i])]),
                 LAMBDA v : Ok([strv |-> v])))
strv_to_gvalue(gv, o) ==
    IF o.is \notin {"list", "tuple"} THEN Kept(gv, "none")
    ELSE By(gv, Then(AllOf([i \in DOMAIN o.items |-> pygi_utf8_from_py(o.items[i])]),
                     LAMBDA v : Ok([strv |-> v])))
UpToNULL(strv) ==
    LET null == SelectInSeq(strv, LAMBDA v : v = NULL)
    IN  IF null = 0 THEN strv ELSE SubSeq(strv, 1, null - 1)
strv_from_gvalue(v) ==
    IF v = NULL THEN Ok(List(<<>>))
    ELSE Then(AllOf([i \in DOMAIN UpToNULL(v.strv) |-> pygi_utf8_to_py(v.strv[i])]),
              LAMBDA items : Ok(List(items)))

\* A GValue in a GValue takes the GType of the object's class.
Nest(gv, inner) == [inner EXCEPT !.gv = GV(gv.type, [nested |-> inner.gv])]
SetNested(gv, o) ==
    IF TypeOfItem(o) = "INVALID" THEN Kept(gv, "TypeError")
    ELSE Nest(gv, SetBasic(NewGV(TypeOfItem(o)), o))
Containers == {"VALUE", "VALUE_ARRAY", "ARRAY", "STRV"}
pyg_value_from_pyobject_with_error(gv, o) ==
    IF gv.type \notin Containers \/ o.is = "None" \/ o = Boxed(gv.type) THEN SetBasic(gv, o)
    ELSE IF gv.type = "VALUE" THEN SetNested(gv, o)
    ELSE IF IsSequence(o) /\ gv.type \in {"VALUE_ARRAY", "ARRAY"} THEN array_from_pyobject(gv, o)
    ELSE IF gv.type = "STRV" THEN strv_to_gvalue(gv, o)
    ELSE SetBoxed(gv, o)
pyg_value_from_pyobject(gv, o) == [pyg_value_from_pyobject_with_error(gv, o) EXCEPT !.exc = "none"]

(***************************************************************************)
(* To Python.                                                              *)
(***************************************************************************)
pygi_value_to_py_basic_type(gv) ==
    LET f == Fundamental(gv.type)
    IN  CASE f \in {"CHAR", "UCHAR"} -> Ok(PyInt(gv.v.num))
          [] f = "BOOLEAN" -> Ok(pygi_gboolean_to_py(gv.v))
          [] f = "INT" -> Ok(pygi_gint_to_py(gv.v))
          [] f = "UINT" -> Ok(pygi_guint_to_py(gv.v))
          [] f = "LONG" -> Ok(pygi_glong_to_py(gv.v))
          [] f = "ULONG" -> Ok(pygi_gulong_to_py(gv.v))
          [] f = "INT64" -> Ok(pygi_gint64_to_py(gv.v))
          [] f = "UINT64" -> Ok(pygi_guint64_to_py(gv.v))
          [] f = "ENUM" -> Ok(pyg_enum_from_gtype(gv.type, gv.v))
          [] f = "FLAGS" -> Ok(pyg_flags_from_gtype(gv.type, gv.v))
          [] f = "FLOAT" -> Ok(pygi_gfloat_to_py(gv.v))
          [] f = "DOUBLE" -> Ok(pygi_gdouble_to_py(gv.v))
          [] f = "STRING" -> pygi_utf8_to_py(gv.v)
          [] OTHER -> Refused("none")

\* HACK: characters are strings and bytes.
CharToPy(gv) ==
    IF gv.type = "UCHAR" THEN Ok(Bytes(<<gv.v.num>>))
    ELSE IF Ascii(gv.v.num) THEN Ok(Str(<<gv.v.num>>)) ELSE Refused("UnicodeError")

\* None, the Python object that is held, or a wrapper of the pointer.
PointerOf(t, v) ==
    IF v = NULL THEN None
    ELSE IF "holds" \in DOMAIN v THEN v.holds ELSE [is |-> "gpointer", type |-> t, p |-> v]
value_to_py_structured_type(gv) ==
    IF gv.type \in {"ORPHAN", "INVALID"} THEN Refused("TypeError")
    ELSE IF gv.type = "GTYPE" THEN Ok(TypeOf(gv.v))
    ELSE Ok(PointerOf(gv.type, gv.v))

Unless(r, otherwise) == IF r.ok \/ r.exc # "none" THEN r ELSE otherwise
BasicToPy(gv) ==
    IF gv.type \in {"CHAR", "UCHAR"} THEN CharToPy(gv)
    ELSE Unless(pygi_value_to_py_basic_type(gv), value_to_py_structured_type(gv))

\* What is in a container; nothing looks whether there is a GValue in a GValue,
\* nor whether an item of a list could be converted.
OrNULL(r) == IF r.ok THEN r.v ELSE [is |-> "NULL"]
Items(values) == [i \in DOMAIN values |-> OrNULL(BasicToPy(values[i]))]
ContainerToPy(gv) ==
    CASE gv.type = "VALUE" ->
             IF gv.v = NULL THEN Refused("NULL") ELSE BasicToPy(gv.v.nested)
      [] gv.type = "VALUE_ARRAY" -> Ok(List(IF gv.v = NULL THEN <<>> ELSE Items(gv.v.values)))
      [] gv.type = "STRV" -> strv_from_gvalue(gv.v)
      [] gv.type = "ARRAY" -> Ok(PointerOf(gv.type, gv.v))

pyg_value_to_pyobject(gv) ==
    IF gv.type \in Containers THEN ContainerToPy(gv) ELSE BasicToPy(gv)

(***************************************************************************)
(* As the argument of a callback, by the tag of its type.  A GValue of     *)
(* another type than the one asked for gives 0.                            *)
(***************************************************************************)
Get(gv, types) == IF gv.type \in types THEN gv.v ELSE NULL
LongOr(gv, long, t) == IF gv.type = long THEN gv.v ELSE Get(gv, {t})

argument_from_g_value(gv, tag) ==
    CASE tag = "boolean" -> Store("int32", Get(gv, {"BOOLEAN"}))
      [] tag \in {"int8", "uint8"} -> Store(tag, Get(gv, {IF tag = "int8" THEN "CHAR" ELSE "UCHAR"}))
      [] tag \in {"int16", "int32"} -> Store("int32", LongOr(gv, "LONG", "INT"))
      [] tag = "int64" -> Store("int64", LongOr(gv, "LONG", "INT64"))
      [] tag \in {"uint16", "uint32"} -> Store("uint32", LongOr(gv, "ULONG", "UINT"))
      [] tag = "uint64" -> Store("uint64", LongOr(gv, "ULONG", "UINT64"))
      [] tag = "unichar" -> Store("uint32", Get(gv, {"CHAR"}))
      [] tag = "gtype" -> Get(gv, {"GTYPE"})
      [] tag = "float" -> Get(gv, {"FLOAT"})
      [] tag = "double" -> Get(gv, {"DOUBLE"})
      [] tag \in {"utf8", "filename"} -> Get(gv, {"STRING"})
      [] tag \in DOMAIN Enums -> Store(IF Enums[tag].flags THEN "uint32" ELSE "int32", Get(gv, {tag}))
      [] tag = "void" -> Store("pointer", gv.v)
      [] OTHER -> gv.v

(***************************************************************************)
(* As a key or a value of a GHashTable, which holds pointers: through an   *)
(* int of 32 bits, whatever the width.                                     *)
(***************************************************************************)
storage_type(tag) == IF tag \in DOMAIN Enums THEN Enums[tag].storage ELSE tag
ViaInt(t) == IF t \in Signed THEN "int" ELSE "uint"
arg_to_hash_pointer(arg, tag) ==
    LET t == storage_type(tag)
    IN  IF t \in IntegerTags THEN Store("pointer", Num(Cast(ViaInt(t), Load(t, arg).num)))
        ELSE IF t = "unichar" THEN Store("pointer", Load("uint32", arg)) ELSE arg
hash_pointer_to_arg(arg, tag) ==
    LET t == storage_type(tag)
    IN  IF t \in IntegerTags
        THEN [bits |-> Cast(t, Cast(ViaInt(t), arg.bits)) % 2 ^ Width("pointer")] ELSE arg

\* The length of an array; a size_t is 64 bits.
pygi_argument_to_gsize(arg, tag) ==
    IF tag \in IntegerTags \cup {"unichar"}
    THEN Ok(Num(Load(tag, arg).num % 2 ^ Width("pointer"))) ELSE Refused("TypeError")
=============================================================================
