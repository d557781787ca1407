---------------------------- MODULE BasicTypes -----------------------------
(***************************************************************************)
(* The conversions between Python objects and C values of the basic types  *)
(* (gi/pygi-basictype.c).                                                  *)
(*                                                                         *)
(* Widths are scaled: a byte has 3 bits and 16, 32 and 64 bits are 4, 5    *)
(* and 6, so that each type is still strictly wider than the one before.   *)
(* A C long has the width of a 64 bit integer, except on Windows.  A float *)
(* is a number of halves; a double holds each of them up to MaxDouble and  *)
(* a float only whole numbers up to MaxFloat.  A C value is a record whose *)
(* field says what it is, and a C string is a sequence: c >= 0 stands for  *)
(* the UTF-8 of the code point c and -b for a byte b that is part of none. *)
(***************************************************************************)
EXTENDS Integers, Sequences, SequencesExt

CONSTANTS MaxFloat, MaxDouble

ASSUME FloatsAreNarrower ==
    MaxFloat \in Nat /\ MaxDouble \in Nat /\ MaxFloat < MaxDouble /\ MaxFloat % 2 = 0

VARIABLE longbits      \* the width of a long: 5 is Windows, 6 anything else

Windows == longbits = 5

(***************************************************************************)
(* Integers.                                                               *)
(***************************************************************************)
Bits == [int8 |-> 3, uint8 |-> 3, int16 |-> 4, uint16 |-> 4, int32 |-> 5,
         uint32 |-> 5, int |-> 5, uint |-> 5, int64 |-> 6, uint64 |-> 6,
         longlong |-> 6, ulonglong |-> 6, pointer |-> 6, unichar |-> 5]
Width(t) == IF t \in {"long", "ulong"} THEN longbits ELSE Bits[t]
Signed == {"int8", "int16", "int32", "int", "int64", "long", "longlong"}

Span(t) == 2 ^ Width(t)
Lowest(t) == IF t \in Signed THEN -(Span(t) \div 2) ELSE 0
Highest(t) == Lowest(t) + Span(t) - 1

\* The conversion of n to the type t in C.
Wrap(n, low, span) == ((n - low) % span) + low
Cast(t, n) == Wrap(n, Lowest(t), Span(t))
InRange(t, n) == Cast(t, n) = n

(***************************************************************************)
(* Python objects, C values and the result of a conversion.                *)
(***************************************************************************)
PyInt(n) == [is |-> "int", n |-> n]
PyBool(b) == [is |-> "bool", b |-> b]
PyFloat(h) == [is |-> "float", h |-> h]
NotFinite(k) == [is |-> "float", k |-> k]               \* "inf" or "nan"
Str(s) == [is |-> "str", s |-> s]
Bytes(b) == [is |-> "bytes", bytes |-> b]
None == [is |-> "None"]
Capsule(p) == [is |-> "capsule", p |-> p]
GType(id) == [is |-> "GType", id |-> id]

Num(n) == [num |-> n]
CFloat(h) == [flo |-> h]
CString(s) == [str |-> s]
TextOf(o) == [text |-> o]              \* what str() makes of o
TypeId(t) == [gtype |-> t]
NULL == [num |-> 0]

TypeOf(v) == GType(IF v = NULL THEN TypeId("INVALID") ELSE v)

Ok(v) == [ok |-> TRUE, v |-> v]
Refused(exc) == [ok |-> FALSE, exc |-> exc]
Then(r, Convert(_)) == IF r.ok THEN Convert(r.v) ELSE r

\* PyNumber_Check, PyObject_IsTrue
IsNumber(o) == o.is \in {"int", "bool", "float", "member"}
IsTrue(o) ==
    CASE o.is = "None" -> FALSE
      [] o.is \in {"int", "member"} -> o.n # 0
      [] o.is = "bool" -> o.b
      [] o.is = "float" -> "k" \in DOMAIN o \/ o.h # 0
      [] o.is = "str" -> o.s # <<>>
      [] o.is = "bytes" -> o.bytes # <<>>
      [] o.is \in {"list", "tuple"} -> o.items # <<>>
      [] OTHER -> TRUE

Halves(o) ==
    CASE o.is = "float" -> o.h [] o.is = "bool" -> IF o.b THEN 2 ELSE 0 [] OTHER -> 2 * o.n

Truncated(h) == IF h < 0 THEN -((-h) \div 2) ELSE h \div 2
base_number_checks(o) ==
    IF ~IsNumber(o) \/ "k" \in DOMAIN o THEN Refused("TypeError") ELSE Ok(Num(Truncated(Halves(o))))

\* A Python number to the integer type t.  What PyLong_AsLong and its like have
\* no room for is not in the range of t either.
Integer(t, o) ==
    Then(base_number_checks(o),
         LAMBDA v : IF InRange(t, v.num) THEN Ok(v) ELSE Refused("OverflowError"))

pygi_gint_from_py(o) == Integer("int", o)
pygi_guint_from_py(o) == Integer("uint", o)
pygi_glong_from_py(o) == Integer("long", o)
pygi_gulong_from_py(o) == Integer("ulong", o)
pygi_gint16_from_py(o) == Integer("int16", o)
pygi_guint16_from_py(o) == Integer("uint16", o)
pygi_gint32_from_py(o) == Integer("int32", o)

pygi_guint32_from_py(o) == Integer("uint32", o)
pygi_gint64_from_py(o) == Integer("int64", o)
pygi_guint64_from_py(o) == Integer("uint64", o)

pygi_gint_to_py(v) == PyInt(v.num)
pygi_guint_to_py(v) == PyInt(v.num)
pygi_glong_to_py(v) == PyInt(v.num)
pygi_gulong_to_py(v) == PyInt(v.num)
pygi_gint8_to_py(v) == PyInt(v.num)
pygi_guint8_to_py(v) == PyInt(v.num)
pygi_gint16_to_py(v) == PyInt(v.num)
pygi_guint16_to_py(v) == PyInt(v.num)
pygi_gint32_to_py(v) == PyInt(v.num)
pygi_guint32_to_py(v) == PyInt(v.num)
pygi_gint64_to_py(v) == PyInt(v.num)
pygi_guint64_to_py(v) == PyInt(v.num)

pygi_gboolean_from_py(o) == Ok(Num(IF IsTrue(o) THEN 1 ELSE 0))
pygi_gboolean_to_py(v) == PyBool(v.num # 0)

(***************************************************************************)
(* Characters and strings.  Code points up to 3 are ASCII, 4 to 7 have a   *)
(* byte in Latin-1, 16 to 23 are surrogates, of which 20 to 23 are what    *)
(* surrogateescape makes of the bytes 4 to 7, and there are none after 27. *)
(***************************************************************************)
Ascii(c) == c \in 0 .. 3
Surrogate(c) == c \in 16 .. 23
ValidChar(c) == c \in 0 .. 27 /\ ~Surrogate(c)
Escape(byte) == byte + 16

\* PyUnicode_AsUTF8String, and g_strdup of what it returns.
AsUTF8(s) == IF \E i \in DOMAIN s : Surrogate(s[i]) THEN Refused("UnicodeError") ELSE Ok(CString(s))
Strdup(s) ==
    LET nul == SelectInSeq(s, LAMBDA c : c = 0)
    IN  IF nul = 0 THEN s ELSE SubSeq(s, 1, nul - 1)

pygi_gint8_from_py_converted(o) ==
    IF o.is # "bytes" THEN Integer("int8", o)
    ELSE IF Len(o.bytes) # 1 THEN Refused("TypeError")
    ELSE Ok(Num(Cast("int8", o.bytes[1])))
pygi_guint8_from_py_converted(o) ==
    IF o.is # "bytes" THEN Integer("uint8", o)
    ELSE IF Len(o.bytes) # 1 THEN Refused("TypeError") ELSE Ok(Num(o.bytes[1]))

\* The bytes of a string: more than one for each character beyond ASCII.
InBytes(s) == Bytes(IF \A i \in DOMAIN s : Ascii(s[i]) THEN s ELSE s \o <<0, 0>>)
Encoded(o) ==
    IF o.is # "str" THEN Ok(o) ELSE IF AsUTF8(o.s).ok THEN Ok(InBytes(o.s)) ELSE Refused("TypeError")
pygi_gint8_from_py(o) == Then(Encoded(o), pygi_gint8_from_py_converted)
pygi_guint8_from_py(o) == Then(Encoded(o), pygi_guint8_from_py_converted)

\* None is refused without an exception.
pygi_gunichar_from_py(o) ==
    IF o.is = "None" THEN Refused("none")
    ELSE IF o.is # "str" THEN Refused("TypeError")
    ELSE Then(AsUTF8(o.s),
              LAMBDA v : IF Len(v.str) = 1 THEN Ok(Num(v.str[1])) ELSE Refused("TypeError"))
pygi_gunichar_to_py(v) ==
    IF v.num = 0 THEN Ok(Str(<<>>))
    ELSE IF ValidChar(v.num) THEN Ok(Str(<<v.num>>)) ELSE Refused("TypeError")

\* A string is the number of its only character; that has to fit a signed
\* character, whatever the type.
CharNumber(o) ==
    IF o.is # "str" THEN Ok(o) ELSE Then(pygi_gunichar_from_py(o), LAMBDA v : Ok(PyInt(v.num)))
pygi_gschar_from_py(o) == Then(CharNumber(o), pygi_gint8_from_py)
pygi_guchar_from_py(o) ==
    IF o.is # "str" THEN pygi_guint8_from_py(o)
    ELSE Then(pygi_gschar_from_py(o), LAMBDA c : Ok(Num(Cast("uint8", c.num))))

pygi_utf8_from_py(o) ==
    IF o.is = "None" THEN Ok(NULL)
    ELSE IF o.is = "text" THEN Ok(TextOf(o.of))
    ELSE IF o.is # "str" THEN Refused("TypeError")
    ELSE Then(AsUTF8(o.s), LAMBDA v : Ok(CString(Strdup(v.str))))
pygi_utf8_to_py(v) ==
    IF v = NULL THEN Ok(None)
    ELSE IF "text" \in DOMAIN v THEN Ok([is |-> "text", of |-> v.text])
    ELSE IF \A i \in DOMAIN v.str : ValidChar(v.str[i]) THEN Ok(Str(v.str))
    ELSE Refused("UnicodeError")

\* A file name is bytes on Unix and a string on Windows.
NoNul(s) == IF 0 \in ToSet(s) THEN Refused("ValueError") ELSE Ok(CString(s))
Stray(b) == IF Ascii(b) THEN b ELSE -b
Unescape(c) == IF c \in 20 .. 23 THEN -(c - 16) ELSE c

filename_from_py_unix(o) ==
    IF o.is = "bytes" THEN NoNul([i \in DOMAIN o.bytes |-> Stray(o.bytes[i])])
    ELSE IF o.is # "str" THEN Refused("TypeError")
    ELSE IF 16 \in ToSet(o.s) THEN Refused("UnicodeError")
    ELSE NoNul([i \in DOMAIN o.s |-> Unescape(o.s[i])])
filename_from_py_win32(o) ==
    IF o.is = "bytes"
    THEN IF \A i \in DOMAIN o.bytes : Ascii(o.bytes[i])
         THEN NoNul(o.bytes) ELSE Refused("UnicodeError")
    ELSE IF o.is = "str" THEN NoNul(o.s) ELSE Refused("TypeError")
FromPath(path) == IF Windows THEN filename_from_py_win32(path) ELSE filename_from_py_unix(path)
pygi_filename_from_py(o) ==
    IF o.is = "None" THEN Ok(NULL) ELSE FromPath(IF o.is = "path" THEN Str(o.path) ELSE o)
pygi_filename_to_py(v) ==
    IF v = NULL THEN Ok(None)
    ELSE IF Windows THEN Ok(Str(v.str))
    ELSE Ok(Str([i \in DOMAIN v.str |-> IF v.str[i] < 0 THEN Escape(-v.str[i]) ELSE v.str[i]]))

(***************************************************************************)
(* Floats, pointers and types.                                             *)
(***************************************************************************)
base_float_checks(o) ==
    IF ~IsNumber(o) THEN Refused("TypeError")
    ELSE IF "k" \in DOMAIN o THEN Ok([special |-> o.k])
    ELSE IF Halves(o) \in -MaxDouble .. MaxDouble THEN Ok(CFloat(Halves(o)))
    ELSE Refused("OverflowError")

pygi_gdouble_from_py(o) == base_float_checks(o)
pygi_gdouble_to_py(v) == IF "special" \in DOMAIN v THEN NotFinite(v.special) ELSE PyFloat(v.flo)

\* To the nearest whole number, and to an even one from halfway.
Nearest(h) == IF h % 2 = 0 THEN h ELSE IF (h + 1) % 4 = 0 THEN h + 1 ELSE h - 1
pygi_gfloat_from_py(o) ==
    Then(base_float_checks(o),
         LAMBDA v : IF "special" \in DOMAIN v THEN Ok(v)
                    ELSE IF v.flo \in -MaxFloat .. MaxFloat THEN Ok(CFloat(Nearest(v.flo)))
                    ELSE Refused("OverflowError"))
pygi_gfloat_to_py(v) == pygi_gdouble_to_py(v)

pygi_gpointer_from_py(o) ==
    CASE o.is = "None" -> Ok(NULL)
      [] o.is = "capsule" -> IF o.p = NULL THEN Refused("ValueError") ELSE Ok(o.p)
      [] o.is \in {"int", "member"} ->
             IF InRange("longlong", o.n) \/ InRange("ulonglong", o.n)
             THEN Ok(Num(Cast("pointer", o.n))) ELSE Refused("OverflowError")
      [] o.is = "bool" -> pygi_gboolean_from_py(o)
      [] OTHER -> Refused("ValueError")

\* pyg_type_from_object_strict with strict set: a GType, or what has one.
pyg_type_from_object_strict(o) ==
    CASE o.is = "None" -> Ok(TypeId("NONE"))
      [] o.is = "GType" -> Ok(o.id)
      [] o.is \in {"gobject", "boxed", "gpointer"} -> Ok(TypeId(o.type))
      [] o.is = "member" -> Ok(TypeId(o.of))
      [] OTHER -> Refused("TypeError")
pygi_gtype_from_py(o) ==
    Then(pyg_type_from_object_strict(o),
         LAMBDA id : IF id = TypeId("INVALID") THEN Refused("ValueError") ELSE Ok(id))

(***************************************************************************)
(* GIArgument is a union: what has a width is its lowest bits.             *)
(***************************************************************************)
Store(t, v) == [bits |-> v.num % 2 ^ Width(t)]       \* PYGI_ARG_INIT is 0
Load(t, arg) == Num(Cast(t, arg.bits))
IntegerTags == {"int8", "uint8", "int16", "uint16", "int32", "uint32", "int64", "uint64"}

\* What has a width, and the member of the union it is in.
MemberOf(tag) ==
    CASE tag = "void" -> "pointer" [] tag = "boolean" -> "int32" [] tag = "unichar" -> "uint32"
      [] OTHER -> tag
IntegerFromPy(o, tag) ==
    CASE tag = "void" -> pygi_gpointer_from_py(o)
      [] tag = "int8" -> pygi_gint8_from_py(o)
      [] tag = "uint8" -> pygi_guint8_from_py(o)
      [] tag = "int16" -> pygi_gint16_from_py(o)
      [] tag = "uint16" -> pygi_guint16_from_py(o)
      [] tag = "int32" -> pygi_gint32_from_py(o)
      [] tag = "uint32" -> pygi_guint32_from_py(o)
      [] tag = "int64" -> pygi_gint64_from_py(o)
      [] tag = "uint64" -> pygi_guint64_from_py(o)
      [] tag = "boolean" -> pygi_gboolean_from_py(o)
      [] tag = "unichar" -> pygi_gunichar_from_py(o)
      [] OTHER -> Refused("TypeError")
FromPyBasicType(o, tag) ==
    CASE tag = "float" -> pygi_gfloat_from_py(o)
      [] tag = "double" -> pygi_gdouble_from_py(o)
      [] tag = "gtype" -> pygi_gtype_from_py(o)
      [] tag = "utf8" -> pygi_utf8_from_py(o)
      [] tag = "filename" -> pygi_filename_from_py(o)
      [] OTHER -> Then(IntegerFromPy(o, tag), LAMBDA v : Ok(Store(MemberOf(tag), v)))

Raised(r) == IF ~r.ok /\ r.exc = "none" THEN Refused("TypeError") ELSE r
pygi_marshal_from_py_basic_type(o, tag) == Raised(FromPyBasicType(o, tag))

IntegerToPy(v, tag) ==
    CASE tag = "boolean" -> Ok(pygi_gboolean_to_py(v))
      [] tag = "int8" -> Ok(pygi_gint8_to_py(v))
      [] tag = "uint8" -> Ok(pygi_guint8_to_py(v))
      [] tag = "int16" -> Ok(pygi_gint16_to_py(v))
      [] tag = "uint16" -> Ok(pygi_guint16_to_py(v))
      [] tag = "int32" -> Ok(pygi_gint32_to_py(v))
      [] tag = "uint32" -> Ok(pygi_guint32_to_py(v))
      [] tag = "int64" -> Ok(pygi_gint64_to_py(v))
      [] tag = "uint64" -> Ok(pygi_guint64_to_py(v))
      [] tag = "unichar" -> pygi_gunichar_to_py(v)
      [] OTHER -> Refused("TypeError")
pygi_marshal_to_py_basic_type(arg, tag) ==
    CASE tag = "float" -> Ok(pygi_gfloat_to_py(arg))
      [] tag = "double" -> Ok(pygi_gdouble_to_py(arg))
      [] tag = "gtype" -> Ok(TypeOf(arg))
      [] tag = "utf8" -> pygi_utf8_to_py(arg)
      [] tag = "filename" -> pygi_filename_to_py(arg)
      [] OTHER -> IntegerToPy(Load(MemberOf(tag), arg), tag)
=============================================================================
