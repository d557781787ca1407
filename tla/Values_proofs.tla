--------------------------- MODULE Values_proofs ---------------------------
(***************************************************************************)
(* What the conversions promise, for any places, Python objects, bounds    *)
(* and values of C: a refused conversion changes nothing, a type takes the *)
(* numbers it has, a property is declared as asked or not at all, and an   *)
(* integer comes back as what it was by every route.                       *)
(***************************************************************************)
EXTENDS Values, TLAPS

(***************************************************************************)
(* What a conversion into a GValue may leave behind.                       *)
(***************************************************************************)

\* What a conversion into gv may leave behind.
Leaves(gv, r) ==
    /\ r.ok \in BOOLEAN
    /\ r.gv.type \in {gv.type, "INVALID"}
    /\ r.ok \/ r.gv \in {gv, Unset}

LEMMA LeavesCases ==
    ASSUME NEW gv
    PROVE  /\ \A v : Leaves(gv, Took(gv, v))
           /\ \A exc : Leaves(gv, Kept(gv, exc)) /\ Leaves(gv, Lost(exc))
           /\ \A r : Leaves(gv, By(gv, r)) /\ Leaves(gv, OrLost(gv, r))
<1>1. \A v : Leaves(gv, Took(gv, v))
  BY DEF Leaves, Took, GV
<1>2. \A exc : Leaves(gv, Kept(gv, exc)) /\ Leaves(gv, Lost(exc))
  BY DEF Leaves, Kept, Lost, GV, Unset
<1> QED BY <1>1, <1>2 DEF By, OrLost

LEMMA BasicLeaves ==
    ASSUME NEW gv, NEW o
    PROVE  Leaves(gv, SetBasic(gv, o))
<1> DEFINE r == SetBasic(gv, o)
           f == Fundamental(gv.type)
<1>1. CASE f = "INTERFACE"
  <2>1. r = SetInterface(gv, o) BY <1>1 DEF SetBasic
  <2> QED BY <2>1, LeavesCases DEF SetInterface
<1>2. CASE f \in {"CHAR", "UCHAR"}
  <2>1. r = SetChar(gv, o) BY <1>2 DEF SetBasic
  <2> QED BY <2>1, LeavesCases DEF SetChar
<1>3. CASE f \in {"BOOLEAN", "INT", "UINT", "LONG", "ULONG", "INT64", "UINT64"}
  <2>1. r = SetInteger(gv, o) BY <1>3 DEF SetBasic
  <2> QED BY <2>1, LeavesCases, Zenon DEF SetInteger
<1>4. CASE f \in {"ENUM", "FLAGS"}
  <2>1. r = SetEnum(gv, o) BY <1>4 DEF SetBasic
  <2> QED BY <2>1, LeavesCases DEF SetEnum
<1>5. CASE f \in {"FLOAT", "DOUBLE"}
  <2>1. r = SetFloat(gv, o) BY <1>5 DEF SetBasic
  <2> QED BY <2>1, LeavesCases DEF SetFloat
<1>6. CASE f = "STRING"
  <2>1. r = SetString(gv, o) BY <1>6 DEF SetBasic
  <2> QED BY <2>1, LeavesCases DEF SetString
<1>7. CASE f = "POINTER"
  <2>1. r = SetPointer(gv, o) BY <1>7 DEF SetBasic
  <2> QED BY <2>1, LeavesCases DEF SetPointer
<1>8. CASE f = "OBJECT"
  <2>1. r = SetObject(gv, o) BY <1>8 DEF SetBasic
  <2> QED BY <2>1, LeavesCases DEF SetObject
<1>9. CASE f = "VARIANT"
  <2>1. r = SetVariant(gv, o) BY <1>9 DEF SetBasic
  <2> QED BY <2>1, LeavesCases DEF SetVariant
<1>10. CASE f = "BOXED"
  <2>1. r = SetBoxed(gv, o) BY <1>10 DEF SetBasic
  <2> QED BY <2>1, LeavesCases DEF SetBoxed
<1>11. CASE f \notin {"INTERFACE", "CHAR", "UCHAR", "BOOLEAN", "INT", "UINT", "LONG", "ULONG", "INT64",
                      "UINT64", "ENUM", "FLAGS", "FLOAT", "DOUBLE", "STRING", "POINTER", "OBJECT",
                      "VARIANT", "BOXED"}
  <2>1. r = SetFundamental(gv, o) BY <1>11 DEF SetBasic
  <2> QED BY <2>1, LeavesCases DEF SetFundamental
<1> QED BY <1>1, <1>2, <1>3, <1>4, <1>5, <1>6, <1>7, <1>8, <1>9, <1>10, <1>11

LEMMA ConversionLeaves ==
    ASSUME NEW gv, NEW o
    PROVE  LET r == pyg_value_from_pyobject_with_error(gv, o)
           IN  /\ gv.type # "VALUE" => Leaves(gv, r)
               /\ r.gv.type \in {gv.type, "INVALID"}
<1> DEFINE r == pyg_value_from_pyobject_with_error(gv, o)
<1>1. CASE gv.type \notin Containers \/ o.is = "None" \/ o = Boxed(gv.type)
  <2>1. r = SetBasic(gv, o) BY <1>1 DEF pyg_value_from_pyobject_with_error
  <2> QED BY <2>1, BasicLeaves DEF Leaves
<1>2. CASE /\ ~(gv.type \notin Containers \/ o.is = "None" \/ o = Boxed(gv.type))
           /\ gv.type = "VALUE"
  <2>1. r = SetNested(gv, o) BY <1>2 DEF pyg_value_from_pyobject_with_error
  <2>2. CASE TypeOfItem(o) = "INVALID"
    BY <2>1, <2>2, <1>2 DEF SetNested, Kept
  <2>3. CASE TypeOfItem(o) # "INVALID"
    <3> DEFINE inner == SetBasic(NewGV(TypeOfItem(o)), o)
    <3>1. r = Nest(gv, inner) BY <2>1, <2>3 DEF SetNested
    <3> QED BY <3>1, <1>2 DEF Nest, GV
  <2> QED BY <2>2, <2>3
<1>3. CASE /\ ~(gv.type \notin Containers \/ o.is = "None" \/ o = Boxed(gv.type))
           /\ gv.type # "VALUE"
  <2>1. \A s : Leaves(gv, Gathered(gv, s)) BY LeavesCases DEF Gathered
  <2>2. Leaves(gv, array_from_pyobject(gv, o))
    BY <2>1 DEF array_from_pyobject, value_array_from_pyobject
  <2>3. Leaves(gv, strv_to_gvalue(gv, o))
    BY LeavesCases, Zenon DEF strv_to_gvalue
  <2>4. Leaves(gv, SetBoxed(gv, o))
    BY LeavesCases DEF SetBoxed
  <2>5. r \in {array_from_pyobject(gv, o), strv_to_gvalue(gv, o), SetBoxed(gv, o)}
    BY <1>3 DEF pyg_value_from_pyobject_with_error
  <2>6. Leaves(gv, r) BY <2>2, <2>3, <2>4, <2>5
  <2> QED BY <2>6, <1>3 DEF Leaves
<1> QED BY <1>1, <1>2, <1>3

\* A GValue has its declared type, or is unset.
HeldInv == decl.kind = "value" => held.type \in {decl.type, "INVALID"}

\* What one step may do to what is held when its conversion is refused.
Alone ==
    (did'.op \in {"pass", "insert", "set", "set from C"} /\ ~did'.r.ok) =>
        /\ attr' = attr
        /\ held' \in {held, Unset} \/ decl.type = "VALUE"

LEMMA OutcomeOk ==
    ASSUME NEW r, r.ok \in BOOLEAN
    PROVE  Outcome(r).ok = r.ok
BY DEF Outcome, Ok, Refused

LEMMA SucceededAlone ==
    ASSUME NEW op, NEW o, Did(op, o, Ok(Nothing))
    PROVE  Alone
<1>1. did'.r = Ok(Nothing)
  BY DEF Did
<1>2. did'.r.ok = TRUE
  BY <1>1 DEF Ok
<1> QED BY <1>2 DEF Alone

LEMMA AcceptAlone ==
    ASSUME NEW op, NEW o, NEW r, Accept(op, o, r)
    PROVE  Alone
<1>1. did' = [op |-> op, o |-> o, r |-> Outcome(r)]
  BY DEF Accept, Did
<1>2. CASE r.ok
  BY <1>1, <1>2 DEF Outcome, Ok, Alone
<1>3. CASE ~r.ok
  BY <1>3 DEF Accept, Alone
<1> QED BY <1>2, <1>3

LEMMA StepAlone ==
    HeldInv /\ [Next]_vars => HeldInv' /\ [Alone]_vars
<1> SUFFICES ASSUME HeldInv, [Next]_vars
             PROVE  HeldInv' /\ [Alone]_vars
  OBVIOUS
<1> USE DEF HeldInv
<1>1. ASSUME NEW o \in Offered, PassArgument(o)
      PROVE  HeldInv' /\ Alone
  BY <1>1, AcceptAlone DEF PassArgument, Accept
<1>2. ASSUME NEW o \in Offered, InsertInHash(o)
      PROVE  HeldInv' /\ Alone
  <2>1. PICK r : Accept("insert", o, r)
    BY <1>2 DEF InsertInHash
  <2> QED BY <1>2, <2>1, AcceptAlone DEF InsertInHash, Accept
<1>3. ASSUME NEW o \in Offered, pyg__gvalue_set(o)
      PROVE  HeldInv' /\ Alone
  <2> DEFINE r == pyg_value_from_pyobject_with_error(held, o)
  <2>1. /\ held' = r.gv /\ decl' = decl /\ attr' = attr /\ decl.kind = "value"
        /\ did' = [op |-> "set", o |-> o, r |-> Outcome(r)]
    BY <1>3 DEF pyg__gvalue_set, Become, Did
  <2>2. r.gv.type \in {held.type, "INVALID"}
    BY ConversionLeaves
  <2>3. HeldInv'
    BY <2>1, <2>2
  <2>4. CASE held.type = "VALUE"
    BY <2>1, <2>3, <2>4 DEF Alone
  <2>5. CASE held.type # "VALUE"
    <3>1. Leaves(held, r) BY <2>5, ConversionLeaves
    <3>2. did'.r.ok = r.ok BY <2>1, <3>1, OutcomeOk DEF Leaves
    <3> QED BY <2>1, <3>1, <3>2 DEF Leaves, Alone
  <2> QED BY <2>3, <2>4, <2>5
<1>4. ASSUME NEW op, NEW o, NEW r, NEW raises \in BOOLEAN, do_set_property(op, o, r, raises)
      PROVE  held' = held /\ Alone
  BY <1>4 DEF do_set_property, Did, Ok, Refused, Alone
<1>5. ASSUME NEW o \in Offered, NEW raises \in BOOLEAN, SetProperty(o, raises)
      PROVE  HeldInv' /\ Alone
  <2>1. PICK special : Give(o, special, raises)
    BY <1>5, Zenon DEF SetProperty
  <2>2. decl' = decl /\ decl.kind # "value"
    BY <1>5 DEF SetProperty, Property
  <2>3. CASE ~special.ok
    BY <2>1, <2>2, <2>3 DEF Give, Alone
  <2>4. CASE special.ok /\ decl.kind # "custom"
    BY <2>1, <2>2, <2>4, SucceededAlone DEF Give
  <2>5. CASE special.ok /\ decl.kind = "custom"
    BY <2>1, <2>2, <2>5, <1>4 DEF Give
  <2> QED BY <2>3, <2>4, <2>5
<1>6. ASSUME NEW v, NEW raises \in BOOLEAN, SetFromC(v, raises)
      PROVE  HeldInv' /\ Alone
  <2>1. decl' = decl /\ decl.kind # "value"
    BY <1>6 DEF SetFromC, Property
  <2>2. CASE decl.kind = "custom"
    BY <1>6, <2>1, <2>2, <1>4 DEF SetFromC
  <2>3. CASE decl.kind # "custom"
    BY <1>6, <2>1, <2>3, SucceededAlone DEF SetFromC
  <2> QED BY <2>2, <2>3
<1>7. ASSUME \/ ReturnArgument \/ LookUpInHash \/ pyg__gvalue_get \/ SignalParameter
             \/ GetProperty \/ GetFromC
      PROVE  HeldInv' /\ Alone
  <2>1. held' = held /\ decl' = decl /\ attr' = attr
    BY <1>7, Zenon
    DEF ReturnArgument, LookUpInHash, pyg__gvalue_get, SignalParameter, GetProperty, GetFromC
  <2> QED BY <2>1 DEF Alone
<1>8. ASSUME NEW helper \in BOOLEAN, NEW d, DeclareProperty(helper, d)
      PROVE  HeldInv' /\ Alone
  <2>1. decl' = decl /\ decl.kind = "declared"
    BY <1>8 DEF DeclareProperty
  <2>2. did'.op \in {"declare", "declare in __gproperties__"}
    BY <1>8 DEF DeclareProperty, Declared, Did
  <2> QED BY <2>1, <2>2 DEF Alone
<1>9. CASE UNCHANGED vars
  BY <1>9 DEF vars
<1> QED BY <1>1, <1>2, <1>3, <1>5, <1>6, <1>7, <1>8, <1>9, Zenon DEF Next

\* A conversion that is refused leaves what C holds and the attribute of a
\* property as they were, or a GValue unset: pygi-value.c sets a GValue only
\* after its conversion, but for pointers and what is in another GValue.
THEOREM RefusedConversionLeavesAlone == Spec => RefusedLeavesAlone
<1>1. Init => HeldInv
  BY DEF Init, HeldInv, NewGV, GV
<1> QED BY <1>1, StepAlone, PTL DEF Spec, RefusedLeavesAlone, Alone

(***************************************************************************)
(* Numbers as C integers: what each conversion takes.                      *)
(***************************************************************************)

LEMMA IntegerTakes ==
    ASSUME NEW t, NEW o, Finite(o)
    PROVE  /\ Integer(t, o).ok \in BOOLEAN
           /\ Integer(t, o).ok <=> InRange(t, Whole(o))
           /\ Integer(t, o).ok => Integer(t, o).v = Num(Whole(o))
           /\ ~Integer(t, o).ok => Integer(t, o).exc = "OverflowError"
<1>1. base_number_checks(o) = Ok(Num(Whole(o)))
  BY DEF base_number_checks, Finite, Truncated, Whole
<1>2. Integer(t, o) = IF InRange(t, Whole(o)) THEN Ok(Num(Whole(o))) ELSE Refused("OverflowError")
  BY <1>1 DEF Integer, Then, Ok, Num
<1>3. CASE InRange(t, Whole(o))
  BY <1>2, <1>3 DEF Ok
<1>4. CASE ~InRange(t, Whole(o))
  BY <1>2, <1>4 DEF Refused
<1> QED BY <1>3, <1>4

\* A number is neither a string nor bytes.
LEMMA NumberIsNoText ==
    ASSUME NEW o, Finite(o)
    PROVE  o.is \notin {"str", "bytes", "None", "tuple"}
BY DEF Finite, IsNumber

LEMMA CharTakes ==
    ASSUME NEW o, Finite(o)
    PROVE  /\ pygi_gint8_from_py(o) = Integer("int8", o)
           /\ pygi_guint8_from_py(o) = Integer("uint8", o)
           /\ pygi_gschar_from_py(o) = Integer("int8", o)
           /\ pygi_guchar_from_py(o) = Integer("uint8", o)
<1>1. Encoded(o) = Ok(o) /\ CharNumber(o) = Ok(o)
  BY NumberIsNoText DEF Encoded, CharNumber
<1>2. pygi_gint8_from_py(o) = Integer("int8", o) /\ pygi_guint8_from_py(o) = Integer("uint8", o)
  BY <1>1, NumberIsNoText DEF pygi_gint8_from_py, pygi_guint8_from_py, Then, Ok,
     pygi_gint8_from_py_converted, pygi_guint8_from_py_converted
<1>3. pygi_gschar_from_py(o) = pygi_gint8_from_py(o)
  BY <1>1 DEF pygi_gschar_from_py, Then, Ok
<1>4. pygi_guchar_from_py(o) = pygi_guint8_from_py(o)
  BY NumberIsNoText DEF pygi_guchar_from_py
<1> QED BY <1>2, <1>3, <1>4

\* What a conversion that takes the range of the C type c makes of a number.
Takes(c, o, r) ==
    /\ r.ok \in BOOLEAN
    /\ r.ok <=> InRange(c, Whole(o))

LEMMA FromPyTakes ==
    ASSUME NEW o, Finite(o), NEW tag \in IntegerTags
    PROVE  /\ IntegerFromPy(o, tag) = Integer(tag, o)
           /\ Takes(tag, o, pygi_marshal_from_py_basic_type(o, tag))
<1> USE CharTakes
<1>1. IntegerFromPy(o, tag) = Integer(tag, o)
  <2>1. tag = "int8" => IntegerFromPy(o, tag) = Integer(tag, o)
    BY Zenon DEF IntegerFromPy
  <2>2. tag = "uint8" => IntegerFromPy(o, tag) = Integer(tag, o)
    BY Zenon DEF IntegerFromPy
  <2>3. tag = "int16" => IntegerFromPy(o, tag) = Integer(tag, o)
    BY Zenon DEF IntegerFromPy, pygi_gint16_from_py
  <2>4. tag = "uint16" => IntegerFromPy(o, tag) = Integer(tag, o)
    BY Zenon DEF IntegerFromPy, pygi_guint16_from_py
  <2>5. tag = "int32" => IntegerFromPy(o, tag) = Integer(tag, o)
    BY Zenon DEF IntegerFromPy, pygi_gint32_from_py
  <2>6. tag = "uint32" => IntegerFromPy(o, tag) = Integer(tag, o)
    BY Zenon DEF IntegerFromPy, pygi_guint32_from_py
  <2>7. tag = "int64" => IntegerFromPy(o, tag) = Integer(tag, o)
    BY Zenon DEF IntegerFromPy, pygi_gint64_from_py
  <2>8. tag = "uint64" => IntegerFromPy(o, tag) = Integer(tag, o)
    BY Zenon DEF IntegerFromPy, pygi_guint64_from_py
  <2> QED BY <2>1, <2>2, <2>3, <2>4, <2>5, <2>6, <2>7, <2>8 DEF IntegerTags
<1>2. tag \notin {"float", "double", "gtype", "utf8", "filename"}
  BY DEF IntegerTags
<1>3. FromPyBasicType(o, tag) =
        Then(IntegerFromPy(o, tag), LAMBDA v : Ok(Store(MemberOf(tag), v)))
  BY <1>2, Zenon DEF FromPyBasicType
<1> DEFINE r == Integer(tag, o)
           f == FromPyBasicType(o, tag)
<1>4. f = IF r.ok THEN Ok(Store(MemberOf(tag), r.v)) ELSE r
  BY <1>1, <1>3 DEF Then
<1>5. /\ r.ok \in BOOLEAN
      /\ r.ok <=> InRange(tag, Whole(o))
      /\ ~r.ok => r.exc = "OverflowError"
  BY IntegerTakes
<1> HIDE DEF r
<1>6. CASE r.ok
  <2>1. f.ok = TRUE
    BY <1>4, <1>6 DEF Ok
  <2>2. pygi_marshal_from_py_basic_type(o, tag) = f
    BY <2>1 DEF pygi_marshal_from_py_basic_type, Raised
  <2> QED BY <1>1, <1>5, <1>6, <2>1, <2>2 DEF Takes, r
<1>7. CASE ~r.ok
  <2>1. f = r
    BY <1>4, <1>7
  <2>2. pygi_marshal_from_py_basic_type(o, tag) = f
    BY <2>1, <1>5, <1>7 DEF pygi_marshal_from_py_basic_type, Raised
  <2> QED BY <1>1, <1>5, <1>7, <2>1, <2>2 DEF Takes, r
<1> QED BY <1>6, <1>7

Place == longbits \in Platforms /\ decl \in Declarations

\* Integer types of the same width and sign have the same range.
LEMMA SameRange ==
    ASSUME Place
    PROVE  \A n : /\ InRange("int32", n) <=> InRange("int", n)
                  /\ InRange("uint32", n) <=> InRange("uint", n)
                  /\ Windows => /\ InRange("int32", n) <=> InRange("long", n)
                                /\ InRange("uint32", n) <=> InRange("ulong", n)
                  /\ ~Windows => /\ InRange("int64", n) <=> InRange("long", n)
                                 /\ InRange("uint64", n) <=> InRange("ulong", n)
<1> DEFINE Same(t, u) == Lowest(t) = Lowest(u) /\ Span(t) = Span(u)
<1>1. Same("int32", "int") /\ Same("uint32", "uint")
  BY DEF Lowest, Span, Width, Bits, Signed
<1>2. Windows => Same("int32", "long") /\ Same("uint32", "ulong")
  BY DEF Lowest, Span, Width, Bits, Signed, Windows
<1>3. ~Windows => Same("int64", "long") /\ Same("uint64", "ulong")
  <2>1. ~Windows => longbits = 6
    BY DEF Place, Platforms, Windows
  <2> QED BY <2>1 DEF Lowest, Span, Width, Bits, Signed
<1>4. \A t, u, n : Same(t, u) => (InRange(t, n) <=> InRange(u, n))
  BY DEF InRange, Cast
<1> QED BY <1>1, <1>2, <1>3, <1>4, Zenon

LEMMA IntegerTypes ==
    ASSUME NEW t \in DOMAIN IntegerOf
    PROVE  /\ t \notin DOMAIN Enums
           /\ t \notin Containers
           /\ Fundamental(t) = t
           /\ IntegerOf[t] # "void"
<1>1. t \notin DOMAIN Enums
  BY PlacesAssumption DEF IntegerOf, Tags
<1>2. t \notin Containers
  BY DEF Containers, IntegerOf
<1>3. t \notin {"GTYPE", "WIDGET", "ORPHAN", "PYOBJECT", "VALUE", "VALUE_ARRAY", "ARRAY", "STRV", "RECT"}
  BY DEF IntegerOf
<1>4. Fundamental(t) = t
  BY <1>1, <1>3, Zenon DEF Fundamental
<1> QED BY <1>1, <1>2, <1>4 DEF IntegerOf

\* A GValue of an integer type is set by the conversion to that type.
LEMMA SetByInteger ==
    ASSUME NEW gv, NEW o, Finite(o), gv.type \in DOMAIN IntegerOf \ {"INT16", "UINT16"}
    PROVE  pyg_value_from_pyobject_with_error(gv, o) = By(gv, Integer(IntegerOf[gv.type], o))
<1> DEFINE t == gv.type
           r == pyg_value_from_pyobject_with_error(gv, o)
<1>1. r = SetBasic(gv, o)
  BY IntegerTypes DEF pyg_value_from_pyobject_with_error
<1>2. r = By(gv, Integer(IntegerOf[t], o))
  <2> USE DEF IntegerOf
  <2>1. ASSUME t \in {"CHAR", "UCHAR"} PROVE r = By(gv, Integer(IntegerOf[t], o))
    <3>1. r = SetChar(gv, o)
      BY <2>1, <1>1, IntegerTypes, Zenon DEF SetBasic
    <3> QED BY <2>1, <3>1, CharTakes DEF SetChar
  <2>2. ASSUME t \in {"INT", "UINT", "LONG", "ULONG", "INT64", "UINT64"}
        PROVE  r = By(gv, Integer(IntegerOf[t], o))
    <3>1. r = SetInteger(gv, o)
      BY <2>2, <1>1, IntegerTypes, Zenon DEF SetBasic
    <3>2. t = "INT" => r = By(gv, Integer("int", o))
      BY <3>1, Zenon DEF SetInteger, pygi_gint_from_py
    <3>3. t = "UINT" => r = By(gv, Integer("uint", o))
      BY <3>1, Zenon DEF SetInteger, pygi_guint_from_py
    <3>4. t = "LONG" => r = By(gv, Integer("long", o))
      BY <3>1, Zenon DEF SetInteger, pygi_glong_from_py
    <3>5. t = "ULONG" => r = By(gv, Integer("ulong", o))
      BY <3>1, Zenon DEF SetInteger, pygi_gulong_from_py
    <3>6. t = "INT64" => r = By(gv, Integer("int64", o))
      BY <3>1, Zenon DEF SetInteger, pygi_gint64_from_py
    <3>7. t = "UINT64" => r = By(gv, Integer("uint64", o))
      BY <3>1, Zenon DEF SetInteger, pygi_guint64_from_py
    <3> HIDE DEF r
    <3> QED BY <2>2, <3>2, <3>3, <3>4, <3>5, <3>6, <3>7
  <2>3. t \in DOMAIN IntegerOf \ {"INT16", "UINT16"}
    OBVIOUS
  <2> HIDE DEF r
  <2> QED BY <2>1, <2>2, <2>3
<1> QED BY <1>2

\* A GValue of an integer type takes its range.
LEMMA GValueTakes ==
    ASSUME NEW gv, NEW o, Finite(o), Place,
           gv.type \in DOMAIN IntegerOf \ {"INT16", "UINT16"}
    PROVE  LET r == pyg_value_from_pyobject_with_error(gv, o)
           IN  Takes(IntegerOf[gv.type], o, r) /\ r.gv.type = gv.type
<1> DEFINE t == gv.type
           r == pyg_value_from_pyobject_with_error(gv, o)
<1>2. \A c : Takes(c, o, By(gv, Integer(c, o))) /\ By(gv, Integer(c, o)).gv.type = gv.type
  <2> TAKE c
  <2>1. CASE Integer(c, o).ok
    BY <2>1, IntegerTakes DEF By, Took, GV, Takes
  <2>2. CASE ~Integer(c, o).ok
    BY <2>2, IntegerTakes DEF By, Kept, Takes
  <2> QED BY <2>1, <2>2
<1>3. r = By(gv, Integer(IntegerOf[t], o))
  BY SetByInteger
<1> QED BY <1>2, <1>3

\* The tag of an integer type has the range of the type.
LEMMA TagsOfIntegers ==
    ASSUME Place, decl.type \in DOMAIN IntegerOf, ~decl.unichar
    PROVE  /\ TagOf(decl) \in IntegerTags
           /\ \A n : InRange(TagOf(decl), n) <=> InRange(IntegerOf[decl.type], n)
<1> DEFINE t == decl.type
           tag == TagOf(decl)
<1>1. t \notin DOMAIN Enums
  BY IntegerTypes
<1>2. t = "LONG" => tag = IF Windows THEN "int32" ELSE "int64"
  <2>1. "LONG" \notin DOMAIN Tags
    BY DEF Tags
  <2> QED BY <1>1, <2>1, Zenon DEF TagOf
<1>3. t = "ULONG" => tag = IF Windows THEN "uint32" ELSE "uint64"
  <2>1. "ULONG" \notin DOMAIN Tags
    BY DEF Tags
  <2> QED BY <1>1, <2>1, Zenon DEF TagOf
<1>4. t \notin {"LONG", "ULONG"} => tag = Tags[t]
  <2>1. t \notin {"LONG", "ULONG"} => t \in DOMAIN Tags
    BY DEF Tags, IntegerOf
  <2> QED BY <1>1, <2>1, Zenon DEF TagOf
<1> HIDE DEF tag
<1>5. tag \in IntegerTags
  BY <1>2, <1>3, <1>4 DEF IntegerOf, Tags, IntegerTags
<1>6. ASSUME NEW n PROVE InRange(tag, n) <=> InRange(IntegerOf[t], n)
  <2>1. t \in {"LONG", "ULONG"} => (InRange(tag, n) <=> InRange(IntegerOf[t], n))
    BY <1>2, <1>3, SameRange DEF IntegerOf
  <2>2. t \in {"INT", "UINT"} => (InRange(tag, n) <=> InRange(IntegerOf[t], n))
    BY <1>4, SameRange DEF IntegerOf, Tags
  <2>3. t \in {"CHAR", "UCHAR", "INT16", "UINT16", "INT64", "UINT64"} => tag = IntegerOf[t]
    BY <1>4 DEF IntegerOf, Tags
  <2> QED BY <2>1, <2>2, <2>3 DEF IntegerOf
<1> QED BY <1>5, <1>6 DEF tag

LEMMA IntRange ==
    \A n \in -(2 ^ (Bits.int - 1)) .. 2 ^ (Bits.int - 1) - 1 : InRange("int", n)
<1>1. 2 ^ (Bits.int - 1) = 16 /\ Span("int") = 32 /\ Lowest("int") = -16
  BY DEF Bits, Span, Width, Lowest, Signed
<1>2. \A n \in -16 .. 15 : ((n + 16) % 32) - 16 = n
  OBVIOUS
<1> QED BY <1>1, <1>2 DEF InRange, Cast, Wrap

\* The values that an enumeration or flags class takes.
Members(t, n) == IF Enums[t].flags THEN InRange("uint", n) ELSE n \in Enums[t].values

LEMMA StoredOk ==
    ASSUME NEW t \in DOMAIN Enums, NEW n
    PROVE  gi_argument_from_c_long(n, Enums[t].storage) = Ok(Store(Enums[t].storage, Num(n)))
BY EnumsAssumption DEF gi_argument_from_c_long

LEMMA EnumTakes ==
    ASSUME NEW t \in DOMAIN Enums, ~Enums[t].flags, NEW o \in Objects, Finite(o)
    PROVE  LET r == from_py_interface_enum(t, o)
           IN  /\ r.ok \in BOOLEAN
               /\ r.ok <=> Whole(o) \in Enums[t].values
<1> DEFINE r == from_py_interface_enum(t, o)
           n == Whole(o)
           i == Integer("int", o)
           Kind(v) == Then(gi_argument_from_c_long(v.num, Enums[t].storage),
                           LAMBDA arg : IF Instance(t, o) \/ v.num \in Enums[t].values
                                        THEN Ok(arg) ELSE Refused("TypeError"))
<1>1. Enums[t].values \subseteq -(2 ^ (Bits.int - 1)) .. 2 ^ (Bits.int - 1) - 1
  BY EnumsAssumption
<1>2. Instance(t, o) => n \in Enums[t].values
  <2> SUFFICES ASSUME Instance(t, o) PROVE n \in Enums[t].values
    OBVIOUS
  <2>1. o.is = "member" /\ o.n \in Enums[t].values
    BY PlacesAssumption DEF Instance
  <2>2. Halves(o) = 2 * o.n
    BY <2>1, Zenon DEF Halves
  <2>3. o.n \in Int
    BY <1>1, <2>1 DEF Bits
  <2>4. n = o.n
    BY <2>2, <2>3 DEF Whole
  <2> QED BY <2>1, <2>4
<1>3. pyg_enum_get_value(t, o) = i
  BY DEF pyg_enum_get_value, pygi_gint_from_py, Finite
<1>4. r = IF i.ok THEN Kind(i.v) ELSE i
  BY <1>3 DEF from_py_interface_enum, Then
<1>5. CASE i.ok
  <2>1. i.v = Num(n) /\ i.v.num = n
    BY <1>5, IntegerTakes DEF Num
  <2>2. r = IF Instance(t, o) \/ n \in Enums[t].values
            THEN Ok(Store(Enums[t].storage, Num(n))) ELSE Refused("TypeError")
    BY <1>4, <1>5, <2>1, StoredOk DEF Then, Ok
  <2> HIDE DEF r, n
  <2>3. CASE n \in Enums[t].values
    BY <2>2, <2>3 DEF Ok, r, n
  <2>4. CASE n \notin Enums[t].values
    <3>1. r = Refused("TypeError")
      BY <1>2, <2>2, <2>4
    <3>2. r.ok = FALSE
      BY <3>1 DEF Refused
    <3> QED BY <2>4, <3>2 DEF r, n
  <2> QED BY <2>3, <2>4
<1>6. CASE ~i.ok
  <2>1. ~InRange("int", n)
    BY <1>6, IntegerTakes
  <2>2. n \notin Enums[t].values
    BY <1>1, <2>1, IntRange
  <2>3. r = i
    BY <1>4, <1>6
  <2> HIDE DEF r
  <2>4. ~r.ok /\ r.ok \in BOOLEAN
    BY <1>6, <2>1, <2>3, IntegerTakes
  <2> QED BY <2>2, <2>4 DEF r
<1> QED BY <1>5, <1>6

LEMMA FlagsTake ==
    ASSUME NEW t \in DOMAIN Enums, NEW o, Finite(o)
    PROVE  Takes("uint", o, from_py_interface_flags(t, o))
<1> DEFINE r == from_py_interface_flags(t, o)
           i == Integer("uint", o)
<1>1. pyg_flags_get_value(t, o) = i
  BY DEF pyg_flags_get_value, pygi_guint_from_py, Finite
<1>2. r = IF i.ok THEN gi_argument_from_c_long(Cast("long", i.v.num), Enums[t].storage) ELSE i
  BY <1>1 DEF from_py_interface_flags, Then
<1> HIDE DEF r
<1>3. CASE i.ok
  <2>0. r = Ok(Store(Enums[t].storage, Num(Cast("long", i.v.num))))
    BY <1>2, <1>3, StoredOk
  <2>1. r.ok = TRUE
    BY <2>0 DEF Ok
  <2> QED BY <1>3, <2>1, IntegerTakes DEF Takes, r
<1>4. CASE ~i.ok
  <2>1. r = i
    BY <1>2, <1>4
  <2> QED BY <1>4, <2>1, IntegerTakes DEF Takes, r
<1> QED BY <1>3, <1>4

\* The declared place takes a number, or does not.
Taken(o, r) ==
    /\ r.ok \in BOOLEAN
    /\ r.ok <=> Counts(Whole(o))

LEMMA EnumTag ==
    ASSUME decl.type \in DOMAIN Enums, ~decl.unichar
    PROVE  TagOf(decl) = decl.type
<1>1. decl.type \notin DOMAIN Tags \cup {"LONG", "ULONG"}
  BY PlacesAssumption
<1> QED BY <1>1, Zenon DEF TagOf

LEMMA ArgumentTaken ==
    ASSUME Place, NEW o \in Objects, Finite(o),
           \/ decl.type \in DOMAIN IntegerOf /\ ~decl.unichar
           \/ decl.type \in DOMAIN Enums
    PROVE  Taken(o, pygi_argument_from_py(TagOf(decl), o))
<1> DEFINE t == decl.type
           r == pygi_argument_from_py(TagOf(decl), o)
<1>1. CASE t \in DOMAIN IntegerOf /\ ~decl.unichar
  <2>1. TagOf(decl) \in IntegerTags
    BY <1>1, TagsOfIntegers
  <2>2. TagOf(decl) \notin DOMAIN Enums /\ TagOf(decl) # "object"
    <3>1. IntegerTags \subseteq {Tags[u] : u \in DOMAIN Tags}
      BY DEF IntegerTags, Tags
    <3> QED BY <2>1, <3>1, PlacesAssumption DEF IntegerTags
  <2>3. r = pygi_marshal_from_py_basic_type(o, TagOf(decl))
    BY <2>2 DEF pygi_argument_from_py
  <2>4. Takes(TagOf(decl), o, r)
    BY <2>1, <2>3, FromPyTakes
  <2>5. Takes(IntegerOf[t], o, r)
    BY <1>1, <2>4, TagsOfIntegers DEF Takes
  <2> QED BY <1>1, <2>5 DEF Takes, Taken, Counts
<1>2. CASE t \in DOMAIN Enums
  <2>1. ~decl.unichar
    BY <1>2, PlacesAssumption DEF Place, Tags
  <2>2. TagOf(decl) = t /\ t \notin DOMAIN IntegerOf
    BY <1>2, <2>1, EnumTag, IntegerTypes
  <2>3. CASE Enums[t].flags
    <3>1. Takes("uint", o, r)
      BY <1>2, <2>2, <2>3, FlagsTake DEF pygi_argument_from_py
    <3> QED BY <2>2, <2>3, <3>1 DEF Takes, Taken, Counts
  <2>4. CASE ~Enums[t].flags
    <3>1. r = from_py_interface_enum(t, o)
      BY <1>2, <2>2, <2>4 DEF pygi_argument_from_py
    <3> QED BY <1>2, <2>2, <2>4, <3>1, EnumTakes DEF Taken, Counts
  <2> QED BY <2>3, <2>4
<1> QED BY <1>1, <1>2

\* The places that TakesItsRange is about.
OfNumbers ==
    \/ decl.type \in DOMAIN IntegerOf /\ ~decl.unichar
    \/ decl.type \in DOMAIN Enums /\ decl.kind \in {"argument", "hash", "introspected"}

RangeInv ==
    /\ Place
    /\ decl.kind = "value" /\ decl.type \in DOMAIN IntegerOf => held.type = decl.type
    /\ TakesItsRange

LEMMA CountsUnchanged ==
    ASSUME UNCHANGED <<longbits, decl>>, NEW n
    PROVE  Counts(n)' <=> Counts(n)
BY DEF Counts, InRange, Cast, Lowest, Span, Width

\* A step that reports s of the object o, and keeps the place.
LEMMA Reported ==
    ASSUME UNCHANGED <<longbits, decl>>, NEW op, NEW o, NEW s, Did(op, o, s),
           /\ op \in {"pass", "insert", "set"} /\ Finite(o) /\ OfNumbers
           /\ s.ok \/ s.exc # "NULL"
           => (s.ok <=> Counts(Whole(o)))
    PROVE  TakesItsRange'
<1> SUFFICES ASSUME op \in {"pass", "insert", "set"}, Finite(o), OfNumbers, s.ok \/ s.exc # "NULL"
             PROVE  s.ok <=> Counts(Whole(o))'
  <2>1. did'.op = op /\ did'.o = o /\ did'.r = s
    BY DEF Did
  <2> QED BY <2>1, Zenon DEF TakesItsRange, OfNumbers
<1> QED BY CountsUnchanged

LEMMA OutcomeReported ==
    ASSUME NEW r, r.ok \in BOOLEAN
    PROVE  Outcome(r).ok <=> r.ok
BY OutcomeOk

LEMMA OkIsOk == \A v : Ok(v).ok = TRUE
BY DEF Ok

\* What the conversion of o for a property is given to is known to take numbers.
LEMMA SpecialTaken ==
    ASSUME Place, OfNumbers, Property, NEW o \in Objects, Finite(o)
    PROVE  Taken(o, pygi_set_gvalue_for_pspec(NewGV(decl.type), o))
<1> DEFINE gv == NewGV(decl.type)
           r == pygi_set_gvalue_for_pspec(gv, o)
<1>1. gv.type = decl.type
  BY DEF NewGV, GV
<1>2. CASE decl.kind = "introspected"
  <2> DEFINE tag == TagOf(decl)
             a == pygi_argument_from_py(tag, o)
             b == Then(a, LAMBDA arg : IF tag = "void" THEN Refused("NotImplementedError")
                                       ELSE Ok(ArgumentFor(tag, gv.type, arg)))
  <2>1. r = By(gv, b)
    BY <1>2 DEF pygi_set_gvalue_for_pspec, set_gvalue_from_property_info
  <2>2. tag # "void"
    <3>1. decl.type \in DOMAIN IntegerOf /\ ~decl.unichar => tag \in IntegerTags
      BY TagsOfIntegers
    <3>2. decl.type \in DOMAIN Enums => tag \in DOMAIN Enums
      <4>1. decl.type \in DOMAIN Enums => ~decl.unichar
        BY PlacesAssumption DEF Place, Tags
      <4> QED BY <4>1, EnumTag
    <3>3. "void" \notin DOMAIN Enums
      <4>1. Tags["POINTER"] = "void" /\ "POINTER" \in DOMAIN Tags
        BY DEF Tags
      <4> QED BY <4>1, PlacesAssumption
    <3> QED BY <3>1, <3>2, <3>3 DEF OfNumbers, IntegerTags
  <2>3. Taken(o, a)
    BY ArgumentTaken DEF OfNumbers
  <2> HIDE DEF a, tag
  <2>4. CASE a.ok
    <3>1. b = Ok(ArgumentFor(tag, gv.type, a.v))
      BY <2>2, <2>4 DEF Then
    <3> HIDE DEF b, r
    <3>2. b.ok
      BY <3>1, OkIsOk
    <3>3. r.ok = TRUE
      BY <2>1, <3>2 DEF By, Took
    <3> QED BY <2>3, <2>4, <3>3 DEF Taken, r
  <2>5. CASE ~a.ok
    <3>1. b = a
      BY <2>5 DEF Then
    <3> HIDE DEF b, r
    <3>2. r.ok = FALSE
      BY <2>1, <2>5, <3>1 DEF By, Kept
    <3> QED BY <2>3, <2>5, <3>2 DEF Taken, r
  <2> QED BY <2>4, <2>5
<1>3. CASE decl.kind # "introspected"
  <2> DEFINE e == pyg_value_from_pyobject_with_error(gv, o)
  <2>1. /\ decl.type \in DOMAIN IntegerOf \ {"INT16", "UINT16"} /\ ~decl.unichar
    BY <1>3, PlacesAssumption DEF OfNumbers, Property, Place
  <2>2. r = [e EXCEPT !.exc = "none"]
    BY <1>1, <1>3, <2>1 DEF pygi_set_gvalue_for_pspec, pyg_param_gvalue_from_pyobject,
       pyg_value_from_pyobject, IntegerOf
  <2>3. Takes(IntegerOf[decl.type], o, e)
    BY <1>1, <2>1, GValueTakes
  <2> HIDE DEF e, r
  <2>4. r.ok = e.ok
    BY <2>2
  <2> QED BY <2>1, <2>3, <2>4 DEF Takes, Taken, Counts, r
<1> QED BY <1>2, <1>3

\* A GValue of an integer type stays one, whatever it is given.
LEMMA SetKeepsType ==
    ASSUME NEW gv, NEW o, gv.type \in DOMAIN IntegerOf \ {"INT16", "UINT16"}
    PROVE  pyg_value_from_pyobject_with_error(gv, o).gv.type = gv.type
<1>1. pyg_value_from_pyobject_with_error(gv, o) = SetBasic(gv, o)
  BY IntegerTypes DEF pyg_value_from_pyobject_with_error
<1>2. \A r : By(gv, r).gv.type = gv.type
  BY DEF By, Took, Kept, GV
<1>3. CASE gv.type \in {"CHAR", "UCHAR"}
  <2>1. SetBasic(gv, o) = SetChar(gv, o)
    BY <1>3, IntegerTypes, Zenon DEF SetBasic
  <2> QED BY <1>1, <1>2, <2>1 DEF SetChar
<1>4. CASE gv.type \in {"INT", "UINT", "LONG", "ULONG", "INT64", "UINT64"}
  <2>1. SetBasic(gv, o) = SetInteger(gv, o)
    BY <1>4, IntegerTypes, Zenon DEF SetBasic
  <2>2. PICK r : SetInteger(gv, o) = By(gv, r)
    BY Zenon DEF SetInteger
  <2> QED BY <1>1, <1>2, <2>1, <2>2
<1> QED BY <1>3, <1>4 DEF IntegerOf

LEMMA StepInRange ==
    RangeInv /\ [Next]_vars => RangeInv'
<1> SUFFICES ASSUME RangeInv, [Next]_vars
             PROVE  RangeInv'
  OBVIOUS
<1> DEFINE Typed == decl.kind = "value" /\ decl.type \in DOMAIN IntegerOf => held.type = decl.type
<1>0. ASSUME UNCHANGED <<longbits, decl>>, Typed', TakesItsRange'
      PROVE  RangeInv'
  BY <1>0 DEF RangeInv, Place, Platforms
<1>1. ASSUME NEW o \in Offered, PassArgument(o)
      PROVE  RangeInv'
  <2> DEFINE r == pygi_argument_from_py(TagOf(decl), o)
  <2>1. decl.kind = "argument" /\ UNCHANGED <<longbits, decl>> /\ Did("pass", o, Outcome(r))
    BY <1>1 DEF PassArgument, Accept
  <2>2. Finite(o) /\ OfNumbers => Taken(o, r)
    BY ArgumentTaken DEF OfNumbers, Offered, RangeInv
  <2>3. TakesItsRange'
    BY <2>1, <2>2, OutcomeReported, Reported DEF Taken
  <2> QED BY <1>0, <2>1, <2>3
<1>2. ASSUME NEW o \in Offered, InsertInHash(o)
      PROVE  RangeInv'
  <2> DEFINE a == pygi_argument_from_py(TagOf(decl), o)
             r == Then(a, LAMBDA arg : Ok(arg_to_hash_pointer(arg, TagOf(decl))))
  <2>1. decl.kind = "hash" /\ UNCHANGED <<longbits, decl>> /\ Did("insert", o, Outcome(r))
    BY <1>2 DEF InsertInHash, Accept
  <2>2. Finite(o) /\ OfNumbers => Taken(o, a)
    BY ArgumentTaken DEF OfNumbers, Offered, RangeInv
  <2>3. a.ok \in BOOLEAN => (r.ok \in BOOLEAN /\ (r.ok <=> a.ok))
    <3> HIDE DEF a
    <3>1. CASE a.ok
      <4>1. r = Ok(arg_to_hash_pointer(a.v, TagOf(decl)))
        BY <3>1 DEF Then
      <4> HIDE DEF r
      <4>2. r.ok = TRUE
        BY <4>1, OkIsOk
      <4> QED BY <3>1, <4>2 DEF r
    <3>2. CASE ~a.ok
      <4>1. r = a
        BY <3>2 DEF Then
      <4> QED BY <4>1
    <3> QED BY <3>1, <3>2
  <2> HIDE DEF a, r
  <2>4. TakesItsRange'
    BY <2>1, <2>2, <2>3, OutcomeReported, Reported DEF Taken
  <2> QED BY <1>0, <2>1, <2>4
<1>3. ASSUME NEW o \in Offered, pyg__gvalue_set(o)
      PROVE  RangeInv'
  <2> DEFINE r == pyg_value_from_pyobject_with_error(held, o)
  <2>1. /\ decl.kind = "value" /\ UNCHANGED <<longbits, decl>> /\ Did("set", o, Outcome(r))
        /\ held' = r.gv
    BY <1>3 DEF pyg__gvalue_set, Become
  <2>2. decl.type \in DOMAIN IntegerOf =>
          decl.type \in DOMAIN IntegerOf \ {"INT16", "UINT16"} /\ held.type = decl.type
    BY <2>1, PlacesAssumption DEF RangeInv, Place
  <2>3. Finite(o) /\ OfNumbers => Taken(o, r)
    <3>1. Finite(o) /\ OfNumbers => Takes(IntegerOf[decl.type], o, r)
      BY <2>1, <2>2, GValueTakes DEF OfNumbers, RangeInv
    <3> QED BY <2>1, <3>1 DEF OfNumbers, Takes, Taken, Counts
  <2>4. TakesItsRange'
    BY <2>1, <2>3, OutcomeReported, Reported DEF Taken
  <2>5. Typed'
    BY <2>1, <2>2, SetKeepsType
  <2> QED BY <1>0, <2>1, <2>4, <2>5
<1>4. ASSUME NEW o \in Offered, NEW raises \in BOOLEAN, SetProperty(o, raises)
      PROVE  RangeInv'
  <2> DEFINE special == IF decl.unichar THEN By(held, pygi_gunichar_from_py(o))
                        ELSE pygi_set_gvalue_for_pspec(NewGV(decl.type), o)
  <2>1. Property /\ UNCHANGED <<longbits, decl>> /\ Give(o, special, raises)
    BY <1>4 DEF SetProperty
  <2>2. Finite(o) /\ OfNumbers => Taken(o, special)
    <3>1. OfNumbers => ~decl.unichar
      BY PlacesAssumption DEF OfNumbers, RangeInv, Place, Tags
    <3> QED BY <2>1, <3>1, SpecialTaken DEF Offered, RangeInv
  <2> HIDE DEF special
  <2>3. PICK s : /\ Did("set", o, s)
                 /\ s.ok \/ s.exc # "NULL" => (special.ok \in BOOLEAN => (s.ok <=> special.ok))
    <3>1. CASE ~special.ok
      <4>1. \A exc : ~Refused(exc).ok
        BY DEF Refused
      <4> QED BY <2>1, <3>1, <4>1 DEF Give
    <3>2. CASE special.ok /\ decl.kind # "custom"
      <4>1. Ok(Nothing).ok
        BY DEF Ok
      <4> QED BY <2>1, <3>2, <4>1 DEF Give
    <3>3. CASE special.ok /\ decl.kind = "custom"
      <4>1. Ok(Nothing).ok /\ ~Refused("NULL").ok /\ Refused("NULL").exc = "NULL"
        BY DEF Ok, Refused
      <4>2. PICK r : do_set_property("set", o, r, raises)
        BY <2>1, <3>3 DEF Give
      <4> QED BY <3>3, <4>1, <4>2 DEF do_set_property
    <3> QED BY <3>1, <3>2, <3>3
  <2>4. TakesItsRange'
    BY <2>1, <2>2, <2>3, Reported DEF Taken
  <2>5. Typed'
    BY <2>1 DEF Property
  <2> QED BY <1>0, <2>1, <2>4, <2>5
<1>5. ASSUME NEW op, NEW o, NEW s, Did(op, o, s), op \notin {"pass", "insert", "set"}
      PROVE  TakesItsRange'
  BY <1>5 DEF Did, TakesItsRange
<1>6. ASSUME \/ ReturnArgument \/ LookUpInHash \/ pyg__gvalue_get \/ SignalParameter
             \/ GetProperty \/ GetFromC
      PROVE  RangeInv'
  <2>1. UNCHANGED <<longbits, decl, held>>
    BY <1>6, Zenon
    DEF ReturnArgument, LookUpInHash, pyg__gvalue_get, SignalParameter, GetProperty, GetFromC
  <2>2. \E op \in {"return", "lookup", "get", "signal", "get from C"} : \E o, s : Did(op, o, s)
    BY <1>6, Zenon
    DEF ReturnArgument, LookUpInHash, pyg__gvalue_get, SignalParameter, GetProperty, GetFromC
  <2>3. TakesItsRange'
    BY <2>2, <1>5
  <2>4. Typed'
    BY <2>1 DEF RangeInv
  <2> QED BY <1>0, <2>1, <2>3, <2>4
<1>7. ASSUME NEW v, NEW raises \in BOOLEAN, SetFromC(v, raises)
      PROVE  RangeInv'
  <2>1. UNCHANGED <<longbits, decl>> /\ Property
    BY <1>7 DEF SetFromC
  <2>2. \E s : Did("set from C", Nothing, s)
    BY <1>7, Zenon DEF SetFromC, do_set_property
  <2>3. TakesItsRange'
    BY <2>2, <1>5
  <2>4. Typed'
    BY <2>1 DEF Property
  <2> QED BY <1>0, <2>1, <2>3, <2>4
<1>8. ASSUME NEW helper \in BOOLEAN, NEW d, DeclareProperty(helper, d)
      PROVE  RangeInv'
  <2>1. UNCHANGED <<longbits, decl>> /\ decl.kind = "declared"
    BY <1>8 DEF DeclareProperty
  <2>2. \E op \in {"declare", "declare in __gproperties__"} : \E o, s : Did(op, o, s)
    BY <1>8 DEF DeclareProperty, Declared
  <2>3. TakesItsRange'
    BY <2>2, <1>5
  <2>4. Typed'
    BY <2>1
  <2> QED BY <1>0, <2>1, <2>3, <2>4
<1>9. CASE UNCHANGED vars
  <2>1. UNCHANGED <<longbits, decl, held, did>>
    BY <1>9 DEF vars
  <2>2. \A n : Counts(n)' <=> Counts(n)
    BY <2>1, CountsUnchanged
  <2>3. TakesItsRange'
    BY <2>1, <2>2, Zenon DEF TakesItsRange, RangeInv
  <2>4. Typed'
    BY <2>1 DEF RangeInv
  <2> QED BY <1>0, <2>1, <2>3, <2>4
<1> QED BY <1>1, <1>2, <1>3, <1>4, <1>6, <1>7, <1>8, <1>9, Zenon DEF Next

\* A number is taken exactly if the declared type has it on this platform
\* (pygi-basictype.c), or the enumeration a member for it (pygi-cache-enum.c),
\* whichever kind of place it is given to.
THEOREM NumbersTakenByRange == Spec => []TakesItsRange
<1>1. Init => RangeInv
  BY DEF Init, RangeInv, Place, NewGV, GV, TakesItsRange
<1>2. RangeInv => TakesItsRange
  BY DEF RangeInv
<1> QED BY <1>1, <1>2, StepInRange, PTL DEF Spec

(***************************************************************************)
(* The bounds and the default of a property.                               *)
(***************************************************************************)

\* Such bounds as ObjectsAssumption has.
Bound(o) == Sound(o) /\ (o.is = "float" => "k" \notin DOMAIN o)

LEMMA HalvesOf ==
    ASSUME NEW o, Sound(o)
    PROVE  /\ o.is \in {"int", "member"} => Halves(o) = 2 * o.n /\ o.n \in Int
           /\ o.is = "bool" => Halves(o) \in {0, 2}
           /\ o.is = "float" /\ "k" \notin DOMAIN o => Halves(o) = o.h /\ o.h \in Int
           /\ IsNumber(o) /\ (o.is = "float" => "k" \notin DOMAIN o) => Halves(o) \in Int
           /\ Finite(o) => Whole(o) \in Int
<1>1. o.is \in {"int", "member"} => Halves(o) = 2 * o.n
  BY Zenon DEF Halves
<1>2. o.is = "bool" => Halves(o) = IF o.b THEN 2 ELSE 0
  BY Zenon DEF Halves
<1>3. o.is = "float" => Halves(o) = o.h
  BY Zenon DEF Halves
<1>4. o.is = "bool" => Halves(o) \in {0, 2}
  BY <1>2
<1>5. IsNumber(o) /\ (o.is = "float" => "k" \notin DOMAIN o) => Halves(o) \in Int
  BY <1>1, <1>3, <1>4 DEF Sound, IsNumber
<1> QED BY <1>1, <1>3, <1>4, <1>5 DEF Sound, Finite, Whole

CIntegers == {"int", "uint", "long", "ulong", "longlong", "ulonglong"}

LEMMA CastInRange ==
    ASSUME Place, NEW c \in CIntegers
    PROVE  /\ Lowest(c) \in Int /\ Highest(c) \in Int /\ Lowest(c) <= 0 /\ 0 <= Highest(c)
           /\ \A k \in Int : /\ Cast(c, k) \in Int
                             /\ Lowest(c) <= k /\ k <= Highest(c) => Cast(c, k) = k
<1>1. longbits \in {5, 6}
  BY DEF Place, Platforms
<1>2. Span(c) \in {32, 64}
  <2>1. Width(c) \in {5, 6}
    BY <1>1 DEF CIntegers, Width, Bits
  <2>2. 2 ^ 5 = 32 /\ 2 ^ 6 = 64
    OBVIOUS
  <2> QED BY <2>1, <2>2 DEF Span
<1>3. Lowest(c) \in {0, -16, -32}
  BY <1>2 DEF Lowest
<1>4. Lowest(c) = -16 => Span(c) = 32
  BY <1>2 DEF Lowest
<1>5. Lowest(c) = -32 => Span(c) = 64
  BY <1>2 DEF Lowest
<1>6. \A k \in Int : /\ Cast(c, k) \in Int
                     /\ Lowest(c) <= k /\ k <= Highest(c) => Cast(c, k) = k
  <2> TAKE k \in Int
  <2>1. CASE Span(c) = 32
    BY <2>1, <1>3, <1>5 DEF Cast, Wrap, Highest
  <2>2. CASE Span(c) = 64
    BY <2>2, <1>3, <1>4 DEF Cast, Wrap, Highest
  <2> QED BY <2>1, <2>2, <1>2
<1> QED BY <1>2, <1>3, <1>4, <1>5, <1>6 DEF Highest

\* The number of halves that o is as a bound of type t.
HalvesAs(t, o) == IF t = "FLOAT" THEN Nearest(Halves(o)) ELSE Halves(o)

LEMMA ParsedIntegral ==
    ASSUME Place, NEW t \in Integral, NEW o, Bound(o), Parsed(t, o).ok
    PROVE  LET c == CTypes[t]
               n == Parsed(t, o).v.num
           IN  /\ c \in CIntegers /\ n \in Int
               /\ Halves(o) \in Int
               /\ t \notin Unsigned => 2 * n = Halves(o)
               /\ 2 * Lowest(c) <= Halves(o) /\ Halves(o) <= 2 * Highest(c) => 2 * n = Halves(o)
<1> DEFINE c == CTypes[t]
           r == Parsed(t, o)
           k == Halves(o) \div 2
<1>1. c \in CIntegers
  BY DEF CTypes, CIntegers, Integral
<1>2. r = IF o.is \notin {"int", "bool", "member"} THEN Refused("TypeError")
          ELSE IF t \notin Unsigned /\ ~InRange(c, k) THEN Refused("OverflowError")
          ELSE Ok(Num(Cast(c, k)))
  <2>1. t \notin {"CHAR", "UCHAR", "FLOAT", "DOUBLE", "STRING", "BOOLEAN"}
    BY DEF Integral
  <2>2. t \in Integral \cup {"BOOLEAN"} /\ (IF t = "BOOLEAN" THEN "int" ELSE CTypes[t]) = c
    BY <2>1
  <2> QED BY <2>1, <2>2, Zenon DEF Parsed
<1>3. \A e : ~Refused(e).ok
  BY DEF Refused
<1> HIDE DEF r
<1>4. r.ok BY DEF r
<1>5. /\ o.is \in {"int", "bool", "member"}
      /\ t \in Unsigned \/ InRange(c, k)
      /\ r = Ok(Num(Cast(c, k)))
  BY <1>2, <1>3, <1>4
<1>6. r.v.num = Cast(c, k)
  BY <1>5 DEF Ok, Num
<1>7. Halves(o) \in Int /\ k \in Int /\ 2 * k = Halves(o)
  BY <1>5, HalvesOf DEF Bound
<1>8. t \notin Unsigned => 2 * r.v.num = Halves(o)
  BY <1>5, <1>6, <1>7 DEF InRange
<1> HIDE DEF c, k
<1>9. 2 * Lowest(c) <= Halves(o) /\ Halves(o) <= 2 * Highest(c) => 2 * r.v.num = Halves(o)
  BY <1>1, <1>6, <1>7, CastInRange
<1>10. r.v.num \in Int
  BY <1>1, <1>6, <1>7, CastInRange
<1> QED BY <1>1, <1>7, <1>8, <1>9, <1>10 DEF r, c

LEMMA ParsedFloating ==
    ASSUME NEW t \in {"FLOAT", "DOUBLE"}, NEW o, Bound(o), Parsed(t, o).ok
    PROVE  Parsed(t, o).v.num = HalvesAs(t, o)
<1>1. t \notin Integral \cup {"CHAR", "UCHAR", "STRING", "BOOLEAN"}
  BY DEF Integral
<1>2. Parsed(t, o) = IF ~IsNumber(o) THEN Refused("TypeError") ELSE Ok(Num(HalvesAs(t, o)))
  BY <1>1, Zenon DEF Parsed, HalvesAs
<1> QED BY <1>2 DEF Refused, Ok, Num

LEMMA ParsedChar ==
    ASSUME NEW t \in {"CHAR", "UCHAR"}, NEW o, Parsed(t, o).ok
    PROVE  o.is = "bytes" /\ Parsed(t, o).v.num = Cast(CTypes[t], o.bytes[1])
<1>1. t \notin Integral \cup {"FLOAT", "DOUBLE", "STRING", "BOOLEAN"}
  BY DEF Integral
<1>2. Parsed(t, o) = IF o.is = "bytes" /\ Len(o.bytes) = 1 THEN Ok(Num(Cast(CTypes[t], o.bytes[1])))
                     ELSE Refused("TypeError")
  BY <1>1, Zenon DEF Parsed
<1> QED BY <1>2 DEF Refused, Ok, Num

\* What create_property makes of the three parts, if it takes them.
LEMMA CreatedFromParsed ==
    ASSUME NEW t \in Ranged, NEW d, create_property(t, d).ok
    PROVE  LET lo == Parsed(t, d.minimum)
               hi == Parsed(t, d.maximum)
               v == Parsed(t, d.default)
           IN  /\ lo.ok /\ hi.ok /\ v.ok
               /\ create_property(t, d).v =
                    [minimum |-> lo.v.num, maximum |-> hi.v.num, default |-> v.v]
<1> DEFINE lo == Parsed(t, d.minimum)
           hi == Parsed(t, d.maximum)
           v == Parsed(t, d.default)
           r == create_property(t, d)
<1>1. r = IF ~lo.ok THEN lo ELSE IF ~hi.ok THEN hi ELSE IF ~v.ok THEN v
          ELSE IF lo.v.num <= v.v.num /\ v.v.num <= hi.v.num
               THEN Ok([minimum |-> lo.v.num, maximum |-> hi.v.num, default |-> v.v])
               ELSE Refused("TypeError")
  BY DEF create_property, Then
<1> HIDE DEF lo, hi, v, r
<1>2. r.ok BY DEF r
<1>3. ~Refused("TypeError").ok BY DEF Refused
<1>4. /\ lo.ok /\ hi.ok /\ v.ok
      /\ r = Ok([minimum |-> lo.v.num, maximum |-> hi.v.num, default |-> v.v])
  BY <1>1, <1>2, <1>3
<1>5. r.v = [minimum |-> lo.v.num, maximum |-> hi.v.num, default |-> v.v]
  BY <1>4 DEF Ok
<1> QED BY <1>4, <1>5 DEF lo, hi, v, r

\* The declaration d of a property made h of the declared type.
AsDeclared(d, h) ==
    LET t == decl.type
        unit == IF t \in {"FLOAT", "DOUBLE"} THEN 1 ELSE 2
        lo == Number(d.minimum, Least(t))
        hi == Number(d.maximum, Most(t))
        v == Number(d.default, 0)
    IN  lo <= v /\ v <= hi => /\ unit * h.minimum = lo /\ unit * h.maximum = hi
                              /\ unit * h.default.num = v

SoundDeclaration(d) == Bound(d.minimum) /\ Bound(d.maximum) /\ Bound(d.default)

LEMMA NoNone ==
    ASSUME NEW t \in Ranged, NEW o, Parsed(t, o).ok
    PROVE  o.is # "None" /\ (t \notin {"CHAR", "UCHAR"} => o.is # "bytes")
<1>1. t \notin {"STRING", "BOOLEAN"}
  BY DEF Ranged, Integral
<1>2. ~Refused("TypeError").ok
  BY DEF Refused
<1>3. CASE t \in {"CHAR", "UCHAR"}
  BY <1>3, ParsedChar
<1>4. CASE t \in Integral
  <2>1. t \notin {"CHAR", "UCHAR", "FLOAT", "DOUBLE", "STRING", "BOOLEAN"}
    BY <1>4 DEF Integral
  <2>2. o.is \notin {"int", "bool", "member"} => Parsed(t, o) = Refused("TypeError")
    BY <1>4, <2>1, Zenon DEF Parsed
  <2> QED BY <1>2, <2>2
<1>5. CASE t \in {"FLOAT", "DOUBLE"}
  <2>1. t \notin Integral \cup {"CHAR", "UCHAR", "STRING", "BOOLEAN"}
    BY <1>5 DEF Integral
  <2>2. ~IsNumber(o) => Parsed(t, o) = Refused("TypeError")
    BY <1>5, <2>1, Zenon DEF Parsed
  <2> QED BY <1>2, <2>2 DEF IsNumber
<1> QED BY <1>3, <1>4, <1>5 DEF Ranged

LEMMA FloatingIsNumber ==
    ASSUME NEW t \in {"FLOAT", "DOUBLE"}, NEW o, Parsed(t, o).ok
    PROVE  IsNumber(o)
<1>1. t \notin Integral \cup {"CHAR", "UCHAR", "STRING", "BOOLEAN"}
  BY DEF Integral
<1>2. ~IsNumber(o) => Parsed(t, o) = Refused("TypeError")
  BY <1>1, Zenon DEF Parsed
<1> QED BY <1>2 DEF Refused

\* create_property by itself: each part comes out as it went in, unless it is cut
\* to the width of an unsigned type.
LEMMA CreatedAsDeclared ==
    ASSUME Place, NEW d, SoundDeclaration(d), decl.type \in Ranged \ Unsigned,
           create_property(decl.type, d).ok
    PROVE  AsDeclared(d, create_property(decl.type, d).v)
<1> DEFINE t == decl.type
           unit == IF t \in {"FLOAT", "DOUBLE"} THEN 1 ELSE 2
<1>1. ASSUME NEW o, Bound(o), Parsed(t, o).ok, NEW x
      PROVE  unit * Parsed(t, o).v.num = Number(o, x)
  <2>1. o.is # "None" /\ (t \notin {"CHAR", "UCHAR"} => o.is # "bytes")
    BY <1>1, NoNone
  <2>2. CASE t \in {"CHAR", "UCHAR"}
    BY <1>1, <2>1, <2>2, ParsedChar DEF Number
  <2>3. CASE t \in Integral
    <3>1. 2 * Parsed(t, o).v.num = Halves(o)
      BY <1>1, <2>3, ParsedIntegral
    <3> QED BY <2>1, <2>3, <3>1 DEF Number, Integral
  <2>4. CASE t \in {"FLOAT", "DOUBLE"}
    <3>1. Parsed(t, o).v.num = HalvesAs(t, o)
      BY <1>1, <2>4, ParsedFloating
    <3>2. HalvesAs(t, o) \in Int
      <4>1. Halves(o) \in Int
        <5>1. IsNumber(o)
          BY <1>1, <2>4, FloatingIsNumber
        <5> QED BY <1>1, <5>1, HalvesOf DEF Bound
      <4> QED BY <4>1 DEF HalvesAs, Nearest
    <3> QED BY <2>1, <2>4, <3>1, <3>2 DEF Number, HalvesAs
  <2> QED BY <2>2, <2>3, <2>4 DEF Ranged
<1>2. /\ Parsed(t, d.minimum).ok /\ Parsed(t, d.maximum).ok /\ Parsed(t, d.default).ok
      /\ create_property(t, d).v = [minimum |-> Parsed(t, d.minimum).v.num,
                                    maximum |-> Parsed(t, d.maximum).v.num,
                                    default |-> Parsed(t, d.default).v]
  BY CreatedFromParsed
<1> HIDE DEF unit
<1>3. /\ unit * create_property(t, d).v.minimum = Number(d.minimum, Least(t))
      /\ unit * create_property(t, d).v.maximum = Number(d.maximum, Most(t))
      /\ unit * create_property(t, d).v.default.num = Number(d.default, 0)
  BY <1>1, <1>2 DEF SoundDeclaration
<1> QED BY <1>3 DEF AsDeclared, unit

\* What GObject.Property passes on of a bound, for what it is in halves.
LEMMA InPythonNumber ==
    ASSUME Place, NEW t \in Numeric,
           NEW h \in {Least(t), Most(t), 0}
    PROVE  /\ Bound(InPython(t, h)) /\ InPython(t, h).is \notin {"None", "bytes"}
           /\ HalvesAs(t, InPython(t, h)) = h
<1> DEFINE o == InPython(t, h)
<1>1. CASE t \in {"FLOAT", "DOUBLE"}
  <2>1. h \in Int /\ (t = "FLOAT" => h % 2 = 0)
    BY <1>1, FloatsAreNarrower DEF Least, Most
  <2>2. o = PyFloat(h)
    BY <1>1 DEF InPython
  <2>3. o.is = "float" /\ o.h = h
    BY <2>2 DEF PyFloat
  <2>4. Bound(o)
    BY <2>1, <2>2, <2>3 DEF Bound, Sound, PyFloat
  <2>5. Halves(o) = h
    BY <2>3, <2>4, HalvesOf DEF Bound
  <2> HIDE DEF o
  <2>6. HalvesAs(t, o) = h
    BY <2>1, <2>5 DEF HalvesAs, Nearest
  <2> QED BY <2>3, <2>4, <2>6 DEF o
<1>2. CASE t \notin {"FLOAT", "DOUBLE"}
  <2>1. CTypes[t] \in CIntegers
    BY <1>2 DEF Numeric, Integral, CTypes, CIntegers
  <2>2. PICK k \in Int : h = 2 * k
    BY <1>2, <2>1, CastInRange DEF Least, Most
  <2>3. o = PyInt(k)
    BY <1>2, <2>2 DEF InPython
  <2>4. o.is = "int" /\ o.n = k
    BY <2>3 DEF PyInt
  <2>5. Bound(o)
    BY <2>4 DEF Bound, Sound
  <2>6. Halves(o) = h
    BY <2>2, <2>4, <2>5, HalvesOf DEF Bound
  <2> HIDE DEF o
  <2> QED BY <1>2, <2>4, <2>5, <2>6 DEF HalvesAs, o
<1> QED BY <1>1, <1>2

\* The bound that is passed on for o, which may be none.
OrElse(t, o, h) == IF o.is = "None" THEN InPython(t, h) ELSE o

LEMMA PassedOn ==
    ASSUME Place, decl.type \in Numeric, NEW o, Bound(o),
           NEW h \in {Least(decl.type), Most(decl.type), 0}, Parsed(decl.type, OrElse(decl.type, o, h)).ok
    PROVE  LET t == decl.type
               p == OrElse(t, o, h)
           IN  /\ Bound(p) /\ HalvesAs(t, p) = Number(o, h)
               /\ o.is # "None" => p = o
<1> DEFINE t == decl.type
           p == OrElse(t, o, h)
<1>1. CASE o.is = "None"
  <2>1. p = InPython(t, h)
    BY <1>1 DEF OrElse
  <2> QED BY <1>1, <2>1, InPythonNumber DEF Number
<1>2. CASE o.is # "None"
  <2>1. p = o
    BY <1>2 DEF OrElse
  <2>2. o.is # "bytes"
    <3>1. t \in Ranged /\ t \notin {"CHAR", "UCHAR"}
      BY DEF Numeric, Ranged, Integral
    <3> QED BY <2>1, <3>1, NoNone
  <2> QED BY <1>2, <2>1, <2>2 DEF Number, HalvesAs
<1> QED BY <1>1, <1>2

LEMMA PropertyAsDeclared ==
    ASSUME Place, NEW d, SoundDeclaration(d), decl.type \in Ranged,
           Property__init__(decl.type, d).ok
    PROVE  AsDeclared(d, Property__init__(decl.type, d).v)
<1> DEFINE t == decl.type
           lo == OrElse(t, d.minimum, Least(t))
           hi == OrElse(t, d.maximum, Most(t))
           v == OrElse(t, d.default, 0)
           e == [minimum |-> lo, maximum |-> hi, default |-> v]
           r == Property__init__(t, d)
           Refusals == {Refused("TypeError"), Refused("NotImplementedError")}
<1>1. \A f \in Refusals : ~f.ok
  BY DEF Refused
<1>2. t \notin DOMAIN Enums /\ t \notin {"BOOLEAN", "STRING"}
  <2>1. Ranged \subseteq DOMAIN Tags \cup {"LONG", "ULONG"}
    BY DEF Ranged, Integral, Tags
  <2> QED BY <2>1, PlacesAssumption DEF Ranged, Integral
<1>3. t \in Numeric
  <2>1. CASE t \in {"CHAR", "UCHAR"}
    <3>1. t \notin Numeric
      BY <2>1 DEF Numeric, Integral
    <3>2. r \in Refusals
      BY <2>1, <3>1 DEF Property__init__
    <3> QED BY <1>1, <3>2
  <2> QED BY <2>1 DEF Ranged, Numeric
<1>4. _get_default(t, d.default) = v
  BY <1>3 DEF _get_default, OrElse
<1>5. /\ ~(d.minimum.is # "None" /\ Halves(d.minimum) < Least(t))
      /\ ~(d.maximum.is # "None" /\ Halves(d.maximum) > Most(t))
      /\ r = create_property(t, e)
  <2>1. \/ r \in Refusals
        \/ /\ ~(d.minimum.is # "None" /\ Halves(d.minimum) < Least(t))
           /\ ~(d.maximum.is # "None" /\ Halves(d.maximum) > Most(t))
           /\ r = create_property(t, e)
    BY <1>3, <1>4 DEF Property__init__, OrElse
  <2> HIDE DEF r, Refusals
  <2> QED BY <1>1, <2>1 DEF r
<1> HIDE DEF lo, hi, v
<1>6. /\ Parsed(t, lo).ok /\ Parsed(t, hi).ok /\ Parsed(t, v).ok
      /\ r.v = [minimum |-> Parsed(t, lo).v.num, maximum |-> Parsed(t, hi).v.num,
                default |-> Parsed(t, v).v]
  <2>1. create_property(t, e).ok
    BY <1>5
  <2> QED BY <1>5, <2>1, CreatedFromParsed
<1> DEFINE nlo == Number(d.minimum, Least(t))
           nhi == Number(d.maximum, Most(t))
           nv == Number(d.default, 0)
<1>7. /\ Bound(lo) /\ HalvesAs(t, lo) = nlo /\ (d.minimum.is # "None" => lo = d.minimum)
      /\ Bound(hi) /\ HalvesAs(t, hi) = nhi /\ (d.maximum.is # "None" => hi = d.maximum)
      /\ Bound(v) /\ HalvesAs(t, v) = nv
  BY <1>3, <1>6, PassedOn DEF lo, hi, v, SoundDeclaration
<1>8. CASE t \in {"FLOAT", "DOUBLE"}
  <2>1. r.v.minimum = nlo /\ r.v.maximum = nhi /\ r.v.default.num = nv
    BY <1>6, <1>7, <1>8, ParsedFloating
  <2>2. nlo \in Int /\ nhi \in Int /\ nv \in Int
    <3>1. \A o : Bound(o) /\ Parsed(t, o).ok => Halves(o) \in Int
      BY <1>8, FloatingIsNumber, HalvesOf DEF Bound
    <3>2. \A o : Halves(o) \in Int => HalvesAs(t, o) \in Int
      BY DEF HalvesAs, Nearest
    <3> QED BY <1>6, <1>7, <3>1, <3>2
  <2> QED BY <1>8, <2>1, <2>2 DEF AsDeclared
<1>9. CASE t \in Integral
  <2> DEFINE c == CTypes[t]
  <2>1. \A o : HalvesAs(t, o) = Halves(o)
    BY <1>9 DEF HalvesAs, Integral
  <2>2. /\ Least(t) = 2 * Lowest(c) /\ Most(t) = 2 * Highest(c)
    BY <1>9 DEF Least, Most, Integral
  <2>3. /\ c \in CIntegers
        /\ nlo \in Int /\ nhi \in Int /\ nv \in Int
        /\ 2 * Lowest(c) <= nlo /\ nlo <= 2 * Highest(c) => 2 * r.v.minimum = nlo
        /\ 2 * Lowest(c) <= nhi /\ nhi <= 2 * Highest(c) => 2 * r.v.maximum = nhi
        /\ 2 * Lowest(c) <= nv /\ nv <= 2 * Highest(c) => 2 * r.v.default.num = nv
    BY <1>6, <1>7, <1>9, <2>1, ParsedIntegral
  <2>4. Lowest(c) \in Int /\ Highest(c) \in Int
    BY <2>3, CastInRange
  <2> HIDE DEF c, nlo, nhi, nv
  <2>5. 2 * Lowest(c) <= nlo
    <3>1. CASE d.minimum.is = "None"
      BY <2>2, <2>4, <3>1 DEF nlo, Number
    <3>2. CASE d.minimum.is # "None"
      BY <1>5, <1>7, <2>1, <2>2, <2>3, <2>4, <3>2
    <3> QED BY <3>1, <3>2
  <2>6. nhi <= 2 * Highest(c)
    <3>1. CASE d.maximum.is = "None"
      BY <2>2, <2>4, <3>1 DEF nhi, Number
    <3>2. CASE d.maximum.is # "None"
      BY <1>5, <1>7, <2>1, <2>2, <2>3, <2>4, <3>2
    <3> QED BY <3>1, <3>2
  <2>7. nlo <= nv /\ nv <= nhi => 2 * r.v.minimum = nlo /\ 2 * r.v.maximum = nhi /\ 2 * r.v.default.num = nv
    BY <2>3, <2>4, <2>5, <2>6
  <2>8. t \notin {"FLOAT", "DOUBLE"}
    BY <1>9 DEF Integral
  <2> QED BY <2>7, <2>8 DEF AsDeclared, nlo, nhi, nv
<1> QED BY <1>3, <1>8, <1>9 DEF Numeric

SpecInv == Place /\ SpecAsDeclared

LEMMA StepAsDeclared ==
    SpecInv /\ [Next]_vars => SpecInv'
<1> SUFFICES ASSUME SpecInv, [Next]_vars
             PROVE  SpecInv'
  OBVIOUS
<1>1. ASSUME UNCHANGED <<longbits, decl>>, SpecAsDeclared'
      PROVE  SpecInv'
  BY <1>1 DEF SpecInv, Place, Platforms
<1>2. ASSUME NEW op, NEW o, NEW s, Did(op, o, s), op \notin {"declare", "declare in __gproperties__"}
      PROVE  SpecAsDeclared'
  BY <1>2 DEF Did, SpecAsDeclared
<1>3. ASSUME NEW helper \in BOOLEAN, NEW d \in Bounds[decl.type], DeclareProperty(helper, d)
      PROVE  SpecInv'
  <2> DEFINE op == IF helper THEN "declare" ELSE "declare in __gproperties__"
             r == IF helper THEN Property__init__(decl.type, d) ELSE create_property(decl.type, d)
  <2>1. UNCHANGED <<longbits, decl>> /\ Did(op, d, Outcome(r)) /\ held' = IF r.ok THEN r.v ELSE held
    BY <1>3 DEF DeclareProperty, Declared
  <2>2. did'.op = op /\ did'.o = d /\ did'.r = Outcome(r)
    BY <2>1 DEF Did
  <2>3. SoundDeclaration(d)
    BY <1>3, ObjectsAssumption DEF SoundDeclaration, Bound, Sound, DeclareProperty, SpecInv, Place
  <2>4. did'.r.ok => r.ok
    <3> HIDE DEF r
    <3> SUFFICES ASSUME ~r.ok PROVE ~did'.r.ok
      OBVIOUS
    <3>1. did'.r = Refused(r.exc)
      BY <2>2 DEF Outcome
    <3> QED BY <3>1 DEF Refused
  <2>5. r.ok /\ decl.type \in Ranged /\ (did'.op = "declare" \/ decl.type \notin Unsigned) =>
           AsDeclared(d, r.v)
    <3>1. CASE helper
      BY <2>3, <3>1, PropertyAsDeclared DEF SpecInv
    <3>2. CASE ~helper
      <4>1. did'.op # "declare"
        BY <2>2, <3>2
      <4> QED BY <2>3, <3>2, <4>1, CreatedAsDeclared DEF SpecInv
    <3> QED BY <3>1, <3>2
  <2> HIDE DEF r, op
  <2>6. \A x : /\ Number(d.minimum, x)' = Number(d.minimum, x)
               /\ Number(d.maximum, x)' = Number(d.maximum, x)
               /\ Number(d.default, x)' = Number(d.default, x)
    BY <2>1 DEF Number, Cast, Lowest, Span, Width
  <2>7. Least(decl.type)' = Least(decl.type) /\ Most(decl.type)' = Most(decl.type)
    BY <2>1 DEF Least, Most, Lowest, Highest, Span, Width
  <2>8. SpecAsDeclared'
    BY <2>1, <2>2, <2>4, <2>5, <2>6, <2>7 DEF SpecAsDeclared, AsDeclared
  <2> QED BY <1>1, <2>1, <2>8
<1>4. ASSUME NEW o \in Offered,
             \/ PassArgument(o) \/ InsertInHash(o) \/ pyg__gvalue_set(o)
             \/ \E raises \in BOOLEAN : SetProperty(o, raises)
      PROVE  SpecInv'
  <2>1. UNCHANGED <<longbits, decl>>
    BY <1>4 DEF PassArgument, InsertInHash, pyg__gvalue_set, SetProperty, Accept
  <2>2. \E op \in {"pass", "insert", "set"} : \E s : Did(op, o, s)
    <3>1. CASE PassArgument(o) \/ InsertInHash(o) \/ pyg__gvalue_set(o)
      BY <3>1, Zenon DEF PassArgument, InsertInHash, pyg__gvalue_set, Accept, Become
    <3>2. ASSUME NEW raises \in BOOLEAN, SetProperty(o, raises)
          PROVE  \E s : Did("set", o, s)
      <4>1. PICK special : Give(o, special, raises)
        BY <3>2, Zenon DEF SetProperty
      <4> QED BY <4>1, Zenon DEF Give, do_set_property
    <3> QED BY <1>4, <3>1, <3>2
  <2> QED BY <1>1, <1>2, <2>1, <2>2
<1>5. ASSUME \/ ReturnArgument \/ LookUpInHash \/ pyg__gvalue_get \/ SignalParameter
             \/ GetProperty \/ GetFromC
      PROVE  SpecInv'
  <2>1. UNCHANGED <<longbits, decl>>
    BY <1>5, Zenon
    DEF ReturnArgument, LookUpInHash, pyg__gvalue_get, SignalParameter, GetProperty, GetFromC
  <2>2. \E op \in {"return", "lookup", "get", "signal", "get from C"} : \E o, s : Did(op, o, s)
    BY <1>5, Zenon
    DEF ReturnArgument, LookUpInHash, pyg__gvalue_get, SignalParameter, GetProperty, GetFromC
  <2> QED BY <1>1, <1>2, <2>1, <2>2
<1>6. ASSUME NEW v, NEW raises \in BOOLEAN, SetFromC(v, raises)
      PROVE  SpecInv'
  <2>1. UNCHANGED <<longbits, decl>>
    BY <1>6 DEF SetFromC
  <2>2. \E s : Did("set from C", Nothing, s)
    BY <1>6, Zenon DEF SetFromC, do_set_property
  <2> QED BY <1>1, <1>2, <2>1, <2>2
<1>7. CASE UNCHANGED vars
  <2>1. UNCHANGED <<longbits, decl, held, did>>
    BY <1>7 DEF vars
  <2>2. SpecAsDeclared'
    BY <2>1 DEF SpecInv, SpecAsDeclared, Number, Least, Most, Cast, Lowest, Highest, Span, Width
  <2> QED BY <1>1, <2>1, <2>2
<1> QED BY <1>3, <1>4, <1>5, <1>6, <1>7, Zenon DEF Next

\* A property has the range and the default that its class declared it with, or
\* there is no such property (create_property of pygi-property.c and Property
\* of _propertyhelper.py).
THEOREM DeclaredAsAsked == Spec => []SpecAsDeclared
<1>1. Init => SpecInv
  BY DEF Init, SpecInv, Place, SpecAsDeclared
<1>2. SpecInv => SpecAsDeclared
  BY DEF SpecInv
<1> QED BY <1>1, <1>2, StepAsDeclared, PTL DEF Spec

(***************************************************************************)
(* Integers there and back: what is stored is what is read.                *)
(***************************************************************************)

\* The types of C that an integer has on its way.
WithWidth == IntegerTags \cup {"int", "uint", "long", "ulong"}

LEMMA Widths ==
    ASSUME Place, NEW c \in WithWidth
    PROVE  /\ Span(c) \in {8, 16, 32, 64}
           /\ Lowest(c) = IF c \in Signed THEN -(Span(c) \div 2) ELSE 0
<1>1. longbits \in {5, 6}
  BY DEF Place, Platforms
<1>2. Width(c) \in {3, 4, 5, 6}
  BY <1>1 DEF WithWidth, IntegerTags, Width, Bits
<1>3. 2 ^ 3 = 8 /\ 2 ^ 4 = 16 /\ 2 ^ 5 = 32 /\ 2 ^ 6 = 64
  OBVIOUS
<1> QED BY <1>2, <1>3 DEF Span, Lowest

\* A number of type c is read from the union as it was stored.
LEMMA StoreLoad ==
    ASSUME Place, NEW c \in WithWidth, NEW n \in Int, InRange(c, n)
    PROVE  Load(c, Store(c, Num(n))) = Num(n)
<1>1. Store(c, Num(n)).bits = n % Span(c)
  BY DEF Store, Num, Span
<1>2. Cast(c, n % Span(c)) = Cast(c, n)
  <2> DEFINE s == Span(c)
             l == Lowest(c)
  <2>1. s \in {8, 16, 32, 64} /\ l \in {0, -(s \div 2)}
    BY Widths
  <2> HIDE DEF s, l
  <2>2. ((n % s) - l) % s = (n - l) % s
    <3>1. CASE s = 8 BY <2>1, <3>1
    <3>2. CASE s = 16 BY <2>1, <3>2
    <3>3. CASE s = 32 BY <2>1, <3>3
    <3>4. CASE s = 64 BY <2>1, <3>4
    <3> QED BY <2>1, <3>1, <3>2, <3>3, <3>4
  <2> QED BY <2>2 DEF Cast, Wrap, s, l
<1> QED BY <1>1, <1>2 DEF Load, InRange

\* What the lookup in a hash table makes of the number that was inserted.
Hashed(t, n) == arg_to_hash_pointer(Store(t, Num(n)), t)

LEMMA ThroughHash ==
    ASSUME Place, NEW t \in IntegerTags, NEW n \in Int, InRange(t, n),
           t \in {"int64", "uint64"} => InRange(ViaInt(t), n)
    PROVE  Load(t, hash_pointer_to_arg(Hashed(t, n), t)) = Num(n)
<1>1. storage_type(t) = t
  <2>1. IntegerTags \subseteq {Tags[u] : u \in DOMAIN Tags}
    BY DEF IntegerTags, Tags
  <2> QED BY <2>1, PlacesAssumption DEF storage_type
<1> DEFINE via == ViaInt(t)
           m == Cast(via, n)
           b == m % 64
           p == Cast(t, Cast(via, b)) % 64
<1>2. Load(t, Store(t, Num(n))) = Num(n)
  BY StoreLoad DEF WithWidth
<1>3. Span("pointer") = 64 /\ 2 ^ Width("pointer") = 64
  <2>1. 2 ^ 6 = 64
    OBVIOUS
  <2> QED BY <2>1 DEF Span, Width, Bits
<1>4. Hashed(t, n) = [bits |-> b]
  <2>1. arg_to_hash_pointer(Store(t, Num(n)), t) =
          Store("pointer", Num(Cast(ViaInt(t), Load(t, Store(t, Num(n))).num)))
    BY <1>1 DEF arg_to_hash_pointer
  <2> QED BY <1>2, <1>3, <2>1 DEF Hashed, Store, Num
<1>5. hash_pointer_to_arg(Hashed(t, n), t) = [bits |-> p]
  BY <1>1, <1>3, <1>4 DEF hash_pointer_to_arg
<1>6. Cast(t, p) = n
  <2>1. /\ via \in {"int", "uint"} /\ Span(via) = 32 /\ Lowest(via) = IF t \in Signed THEN -16 ELSE 0
    <3>1. 2 ^ 5 = 32
      OBVIOUS
    <3>2. Width("int") = 5 /\ Width("uint") = 5 /\ "int" \in Signed /\ "uint" \notin Signed
      BY DEF Width, Bits, Signed
    <3>3. Span("int") = 32 /\ Span("uint") = 32
      BY <3>1, <3>2 DEF Span
    <3>4. Lowest("int") = -16 /\ Lowest("uint") = 0
      BY <3>2, <3>3 DEF Lowest
    <3> QED BY <3>3, <3>4 DEF ViaInt
  <2>2. /\ Span(t) \in {8, 16, 32, 64} /\ Lowest(t) = IF t \in Signed THEN -(Span(t) \div 2) ELSE 0
        /\ Span(t) = 64 => t \in {"int64", "uint64"}
    <3>1. 2 ^ 3 = 8 /\ 2 ^ 4 = 16 /\ 2 ^ 5 = 32
      OBVIOUS
    <3>2. t \notin {"int64", "uint64"} => Span(t) \in {8, 16, 32}
      <4>1. t \notin {"int64", "uint64"} => Width(t) \in {3, 4, 5}
        BY DEF IntegerTags, Width, Bits
      <4> QED BY <3>1, <4>1 DEF Span
    <3>3. t \in WithWidth
      BY DEF WithWidth
    <3>4. Span(t) \in {8, 16, 32, 64} /\ Lowest(t) = IF t \in Signed THEN -(Span(t) \div 2) ELSE 0
      BY <3>3, Widths
    <3>5. Span(t) \in {8, 16, 32} => Span(t) # 64
      OBVIOUS
    <3> QED BY <3>2, <3>4, <3>5
  <2> DEFINE s == Span(t)
             l == Lowest(t)
             k == Lowest(via)
  <2>3. /\ ((n - l) % s) + l = n
        /\ s = 64 => ((n - k) % 32) + k = n
    BY <2>1, <2>2 DEF InRange, Cast, Wrap
  <2>4. /\ s \in {8, 16, 32, 64}
        /\ \/ l = 0 /\ k = 0
           \/ l = -(s \div 2) /\ k = -16
    BY <2>1, <2>2
  <2> HIDE DEF s, l, k
  <2>5. ((n - k) % 32) + k = n
    <3>0. l <= n /\ n <= l + s - 1
      <4>1. CASE s = 8 BY <2>3, <2>4, <4>1
      <4>2. CASE s = 16 BY <2>3, <2>4, <4>2
      <4>3. CASE s = 32 BY <2>3, <2>4, <4>3
      <4>4. CASE s = 64 BY <2>3, <2>4, <4>4
      <4> QED BY <2>4, <4>1, <4>2, <4>3, <4>4
    <3>1. CASE s = 8 BY <2>4, <3>0, <3>1
    <3>2. CASE s = 16 BY <2>4, <3>0, <3>2
    <3>3. CASE s = 32 BY <2>4, <3>0, <3>3
    <3> QED BY <2>3, <2>4, <3>1, <3>2, <3>3
  <2>6. m = n
    BY <2>1, <2>5 DEF Cast, Wrap, k
  <2>7. Cast(via, b) = n
    <3>1. (((n % 64) - k) % 32) + k = n
      BY <2>4, <2>5
    <3> QED BY <2>1, <2>6, <3>1 DEF Cast, Wrap, k
  <2>8. p = n % 64
    <3>1. Cast(t, n) = n
      BY DEF InRange
    <3> QED BY <2>7, <3>1
  <2>9. (((n % 64) - l) % s) + l = n
    <3>1. CASE s = 8 BY <2>3, <2>4, <3>1
    <3>2. CASE s = 16 BY <2>3, <2>4, <3>2
    <3>3. CASE s = 32 BY <2>3, <2>4, <3>3
    <3>4. CASE s = 64 BY <2>3, <2>4, <3>4
    <3> QED BY <2>4, <3>1, <3>2, <3>3, <3>4
  <2> QED BY <2>8, <2>9 DEF Cast, Wrap, s, l
<1> QED BY <1>5, <1>6 DEF Load

TypesOfGObject == DOMAIN IntegerOf \ {"INT16", "UINT16"}

LEMMA TagMember ==
    ASSUME NEW tag \in IntegerTags
    PROVE  MemberOf(tag) = tag /\ tag \notin DOMAIN Enums
<1>1. tag \notin {"void", "boolean", "unichar"}
  BY DEF IntegerTags
<1>2. MemberOf(tag) = tag
  BY <1>1, Zenon DEF MemberOf
<1>3. IntegerTags \subseteq {Tags[u] : u \in DOMAIN Tags}
  BY DEF IntegerTags, Tags
<1> QED BY <1>2, <1>3, PlacesAssumption

\* The argument that a number becomes.
LEMMA ArgumentOf ==
    ASSUME NEW o, Finite(o), NEW tag \in IntegerTags, InRange(tag, Whole(o))
    PROVE  pygi_argument_from_py(tag, o) = Ok(Store(tag, Num(Whole(o))))
<1>1. tag \notin {"float", "double", "gtype", "utf8", "filename", "object"}
  BY DEF IntegerTags
<1>2. FromPyBasicType(o, tag) =
        Then(IntegerFromPy(o, tag), LAMBDA v : Ok(Store(MemberOf(tag), v)))
  BY <1>1, Zenon DEF FromPyBasicType
<1>3. Integer(tag, o).ok /\ Integer(tag, o).v = Num(Whole(o)) /\ IntegerFromPy(o, tag) = Integer(tag, o)
  BY IntegerTakes, FromPyTakes
<1>4. FromPyBasicType(o, tag) = Ok(Store(tag, Num(Whole(o))))
  BY <1>2, <1>3, TagMember DEF Then
<1>5. pygi_marshal_from_py_basic_type(o, tag) = Ok(Store(tag, Num(Whole(o))))
  BY <1>4 DEF pygi_marshal_from_py_basic_type, Raised, Ok
<1> QED BY <1>1, <1>5, TagMember DEF pygi_argument_from_py

\* What an argument is to Python.
LEMMA ArgumentToPy ==
    ASSUME NEW tag \in IntegerTags, NEW arg, NEW n, Load(tag, arg) = Num(n)
    PROVE  pygi_argument_to_py(tag, arg) = Ok(PyInt(n))
<1> DEFINE v == Load(tag, arg)
<1>1. tag \notin {"float", "double", "gtype", "utf8", "filename", "object", "void"}
  BY DEF IntegerTags
<1>2. pygi_argument_to_py(tag, arg) = pygi_marshal_to_py_basic_type(arg, tag)
  BY <1>1, TagMember DEF pygi_argument_to_py
<1>3. pygi_marshal_to_py_basic_type(arg, tag) = IntegerToPy(Load(MemberOf(tag), arg), tag)
  BY <1>1, Zenon DEF pygi_marshal_to_py_basic_type
<1>4. pygi_marshal_to_py_basic_type(arg, tag) = IntegerToPy(v, tag)
  BY <1>3, TagMember
<1> HIDE DEF v
<1>5. IntegerToPy(v, tag) = Ok(PyInt(v.num))
  <2>1. tag = "int8" => IntegerToPy(v, tag) = Ok(PyInt(v.num))
    BY Zenon DEF IntegerToPy, pygi_gint8_to_py
  <2>2. tag = "uint8" => IntegerToPy(v, tag) = Ok(PyInt(v.num))
    BY Zenon DEF IntegerToPy, pygi_guint8_to_py
  <2>3. tag = "int16" => IntegerToPy(v, tag) = Ok(PyInt(v.num))
    BY Zenon DEF IntegerToPy, pygi_gint16_to_py
  <2>4. tag = "uint16" => IntegerToPy(v, tag) = Ok(PyInt(v.num))
    BY Zenon DEF IntegerToPy, pygi_guint16_to_py
  <2>5. tag = "int32" => IntegerToPy(v, tag) = Ok(PyInt(v.num))
    BY Zenon DEF IntegerToPy, pygi_gint32_to_py
  <2>6. tag = "uint32" => IntegerToPy(v, tag) = Ok(PyInt(v.num))
    BY Zenon DEF IntegerToPy, pygi_guint32_to_py
  <2>7. tag = "int64" => IntegerToPy(v, tag) = Ok(PyInt(v.num))
    BY Zenon DEF IntegerToPy, pygi_gint64_to_py
  <2>8. tag = "uint64" => IntegerToPy(v, tag) = Ok(PyInt(v.num))
    BY Zenon DEF IntegerToPy, pygi_guint64_to_py
  <2> QED BY <2>1, <2>2, <2>3, <2>4, <2>5, <2>6, <2>7, <2>8 DEF IntegerTags
<1>6. v.num = n
  BY DEF v, Num
<1> QED BY <1>2, <1>4, <1>5, <1>6

\* A GValue of an integer type is given a number.
LEMMA SetsInteger ==
    ASSUME NEW gv, gv.type \in TypesOfGObject, NEW o, Finite(o), InRange(IntegerOf[gv.type], Whole(o))
    PROVE  pyg_value_from_pyobject_with_error(gv, o) = Took(gv, Num(Whole(o)))
<1>1. pyg_value_from_pyobject_with_error(gv, o) = By(gv, Integer(IntegerOf[gv.type], o))
  BY SetByInteger DEF TypesOfGObject
<1>2. Integer(IntegerOf[gv.type], o).ok /\ Integer(IntegerOf[gv.type], o).v = Num(Whole(o))
  BY IntegerTakes
<1> QED BY <1>1, <1>2 DEF By

\* What the type makes of the number in a GValue.
ShownAs(t, n) ==
    IF t = "CHAR" THEN Str(<<n>>) ELSE IF t = "UCHAR" THEN Bytes(<<n>>) ELSE PyInt(n)

LEMMA BasicInteger ==
    ASSUME NEW t \in TypesOfGObject, NEW n
    PROVE  pygi_value_to_py_basic_type(GV(t, Num(n))) = Ok(PyInt(n))
<1> DEFINE gv == GV(t, Num(n))
           r == pygi_value_to_py_basic_type(gv)
<1>1. gv.type = t /\ gv.v = Num(n) /\ gv.v.num = n
  BY DEF GV, Num
<1>2. Fundamental(gv.type) = t
  BY <1>1, IntegerTypes DEF TypesOfGObject
<1> HIDE DEF gv
<1>3. t \in {"CHAR", "UCHAR"} => r = Ok(PyInt(gv.v.num))
  BY <1>2, Zenon DEF pygi_value_to_py_basic_type
<1>4. t = "INT" => r = Ok(PyInt(gv.v.num))
  BY <1>2, Zenon DEF pygi_value_to_py_basic_type, pygi_gint_to_py
<1>5. t = "UINT" => r = Ok(PyInt(gv.v.num))
  BY <1>2, Zenon DEF pygi_value_to_py_basic_type, pygi_guint_to_py
<1>6. t = "LONG" => r = Ok(PyInt(gv.v.num))
  BY <1>2, Zenon DEF pygi_value_to_py_basic_type, pygi_glong_to_py
<1>7. t = "ULONG" => r = Ok(PyInt(gv.v.num))
  BY <1>2, Zenon DEF pygi_value_to_py_basic_type, pygi_gulong_to_py
<1>8. t = "INT64" => r = Ok(PyInt(gv.v.num))
  BY <1>2, Zenon DEF pygi_value_to_py_basic_type, pygi_gint64_to_py
<1>9. t = "UINT64" => r = Ok(PyInt(gv.v.num))
  BY <1>2, Zenon DEF pygi_value_to_py_basic_type, pygi_guint64_to_py
<1> HIDE DEF r
<1>10. r = Ok(PyInt(gv.v.num))
  BY <1>3, <1>4, <1>5, <1>6, <1>7, <1>8, <1>9 DEF TypesOfGObject, IntegerOf
<1> QED BY <1>1, <1>10 DEF r, gv

LEMMA GetsInteger ==
    ASSUME NEW t \in TypesOfGObject, NEW n
    PROVE  pyg_value_to_pyobject(GV(t, Num(n))) =
             IF t = "CHAR" /\ ~Ascii(n) THEN Refused("UnicodeError") ELSE Ok(ShownAs(t, n))
<1> DEFINE gv == GV(t, Num(n))
           r == pyg_value_to_pyobject(gv)
<1>1. gv.type = t /\ gv.v.num = n
  BY DEF GV, Num
<1> HIDE DEF gv
<1>2. r = BasicToPy(gv)
  BY <1>1, IntegerTypes DEF pyg_value_to_pyobject, TypesOfGObject
<1>3. CASE t \in {"CHAR", "UCHAR"}
  BY <1>1, <1>2, <1>3 DEF BasicToPy, CharToPy, ShownAs, gv
<1>4. CASE t \notin {"CHAR", "UCHAR"}
  <2>1. pygi_value_to_py_basic_type(gv) = Ok(PyInt(n))
    BY BasicInteger DEF gv
  <2>2. r = Ok(PyInt(n))
    BY <1>1, <1>2, <1>4, <2>1 DEF BasicToPy, Unless, Ok
  <2> QED BY <1>4, <2>2 DEF ShownAs, gv
<1> QED BY <1>3, <1>4

\* C reads the attribute of a property as the number it is.
LEMMA ReadsBack ==
    ASSUME Place, NEW t \in TypesOfGObject, NEW n \in Int, InRange(IntegerOf[t], n), t = "CHAR" => Ascii(n)
    PROVE  ReadBack(pyg_value_from_pyobject(NewGV(t), ShownAs(t, n))) = Ok(ShownAs(t, n))
<1> DEFINE o == ShownAs(t, n)
           gv == NewGV(t)
           e == pyg_value_from_pyobject_with_error(gv, o)
<1>1. gv.type = t
  BY DEF NewGV, GV
<1>2. e = Took(gv, Num(n))
  <2>1. CASE t \notin {"CHAR", "UCHAR"}
    <3>1. o = PyInt(n)
      BY <2>1 DEF ShownAs
    <3>2. o.is = "int" /\ o.n = n /\ "k" \notin DOMAIN o
      BY <3>1 DEF PyInt
    <3>3. Finite(o) /\ Sound(o)
      BY <3>2 DEF Finite, IsNumber, Sound
    <3>4. Whole(o) = n
      BY <3>2, <3>3, HalvesOf DEF Whole
    <3> QED BY <1>1, <3>3, <3>4, SetsInteger
  <2>2. CASE t = "UCHAR"
    <3>1. o = Bytes(<<n>>)
      BY <2>2 DEF ShownAs
    <3>2. o.is = "bytes" /\ o.bytes = <<n>>
      BY <3>1 DEF Bytes
    <3>3. Len(o.bytes) = 1 /\ o.bytes[1] = n
      BY <3>2
    <3>4. e = SetChar(gv, o)
      <4>1. e = SetBasic(gv, o)
        BY <1>1, IntegerTypes DEF pyg_value_from_pyobject_with_error, TypesOfGObject
      <4> QED BY <4>1, <1>1, <2>2, IntegerTypes, Zenon DEF SetBasic, TypesOfGObject
    <3>5. Encoded(o) = Ok(o)
      BY <3>2 DEF Encoded
    <3>6. pygi_guchar_from_py(o) = pygi_guint8_from_py_converted(o)
      BY <3>2, <3>5 DEF pygi_guchar_from_py, pygi_guint8_from_py, Then, Ok
    <3>7. pygi_guchar_from_py(o) = Ok(Num(n))
      BY <3>2, <3>3, <3>6 DEF pygi_guint8_from_py_converted
    <3>8. e = By(gv, Ok(Num(n)))
      BY <3>4, <3>7, <1>1, <2>2 DEF SetChar
    <3> QED BY <3>8 DEF By, Ok
  <2>3. CASE t = "CHAR"
    <3>1. o = Str(<<n>>)
      BY <2>3 DEF ShownAs
    <3>2. o.is = "str" /\ o.s = <<n>>
      BY <3>1 DEF Str
    <3> HIDE DEF o
    <3>3. Len(o.s) = 1 /\ o.s[1] = n /\ DOMAIN o.s = {1}
      BY <3>2
    <3>4. e = SetChar(gv, o)
      <4>1. e = SetBasic(gv, o)
        BY <1>1, IntegerTypes DEF pyg_value_from_pyobject_with_error, TypesOfGObject
      <4> QED BY <4>1, <1>1, <2>3, IntegerTypes, Zenon DEF SetBasic, TypesOfGObject
    <3>5. AsUTF8(o.s) = Ok(CString(o.s))
      BY <2>3, <3>3 DEF AsUTF8, Surrogate, Ascii
    <3>6. pygi_gunichar_from_py(o) = Ok(Num(n))
      <4>1. AsUTF8(o.s).ok /\ AsUTF8(o.s).v.str = o.s
        BY <3>5 DEF Ok, CString
      <4> QED BY <3>2, <3>3, <4>1 DEF pygi_gunichar_from_py, Then
    <3>7. CharNumber(o) = Ok(PyInt(n))
      <4>1. pygi_gunichar_from_py(o).ok /\ pygi_gunichar_from_py(o).v.num = n
        BY <3>6 DEF Ok, Num
      <4> QED BY <3>2, <4>1 DEF CharNumber, Then
    <3>8. PyInt(n).is = "int" /\ PyInt(n).n = n /\ "k" \notin DOMAIN PyInt(n)
      BY DEF PyInt
    <3>9. Finite(PyInt(n)) /\ Sound(PyInt(n))
      BY <3>8 DEF Finite, IsNumber, Sound
    <3>10. Whole(PyInt(n)) = n
      BY <3>8, <3>9, HalvesOf DEF Whole
    <3>11. pygi_gschar_from_py(o) = Integer("int8", PyInt(n))
      BY <3>7, <3>9, CharTakes DEF pygi_gschar_from_py, Then, Ok
    <3>12. Integer("int8", PyInt(n)).ok /\ Integer("int8", PyInt(n)).v = Num(n)
      BY <2>3, <3>9, <3>10, IntegerTakes DEF IntegerOf
    <3>13. e = By(gv, pygi_gschar_from_py(o))
      BY <1>1, <2>3, <3>4 DEF SetChar
    <3> QED BY <3>11, <3>12, <3>13 DEF By
  <2> QED BY <2>1, <2>2, <2>3
<1> HIDE DEF e, o
<1>3. pyg_value_from_pyobject(gv, o) = [e EXCEPT !.exc = "none"]
  BY DEF pyg_value_from_pyobject, e
<1>4. pyg_value_from_pyobject(gv, o).ok /\ pyg_value_from_pyobject(gv, o).gv = GV(t, Num(n))
  BY <1>1, <1>2, <1>3 DEF Took
<1>5. pyg_value_to_pyobject(GV(t, Num(n))) = Ok(ShownAs(t, n))
  BY GetsInteger
<1> QED BY <1>4, <1>5 DEF ReadBack, o

\* A place of an integer type.
IntegerPlace == decl.type \in DOMAIN IntegerOf /\ ~decl.unichar

\* The number that was given, where each kind of place keeps it.
CarriedIn(h, a, n) ==
    /\ decl.kind = "argument" => h = Store(TagOf(decl), Num(n))
    /\ decl.kind = "hash" => h = Hashed(TagOf(decl), n)
    /\ decl.kind \in {"value", "introspected", "plain"} => h = GV(decl.type, Num(n))
    /\ decl.kind = "custom" => a = ShownAs(decl.type, n) /\ (decl.type = "CHAR" => Ascii(n))

\* A number that was taken is in the range of the type, and is carried.
GivenInv ==
    Finite(given) =>
        /\ given \in Objects /\ InRange(IntegerOf[decl.type], Whole(given))
        /\ CarriedIn(held, attr, Whole(given))

\* A hash table holds no more than an int of the number n.
Narrow(n) ==
    /\ storage_type(TagOf(decl)) \in {"int64", "uint64"}
    /\ ~InRange(ViaInt(storage_type(TagOf(decl))), n)

\* What an operation that reports to Python says of the number n.
Says(op, r, n) ==
    \/ r = Ok(PyInt(n)) /\ op # "get from C"
    \/ r = Ok(ShownAs(decl.type, n))
    \/ op = "get" /\ decl.kind = "value" /\ decl.type = "CHAR" /\ ~Ascii(n)
    \/ op = "lookup" /\ Narrow(n)

\* The operations that report, and what the last of them said.
Reports == {"return", "lookup", "get", "signal", "get from C"}
SaidInv ==
    /\ did.op \in Reports /\ Finite(given) => Says(did.op, did.r, Whole(given))
    /\ did.op = "get from C" => decl.kind = "custom"

\* The inductive invariant of a number on its way.
WayInv ==
    /\ Place
    /\ IntegerPlace => /\ decl.kind = "value" => held.type = decl.type
                       /\ GivenInv /\ SaidInv

LEMMA WayUnchanged ==
    ASSUME UNCHANGED <<longbits, decl>>
    PROVE  /\ Place' = Place /\ IntegerPlace' = IntegerPlace
           /\ \A n : InRange(IntegerOf[decl.type], n)' <=> InRange(IntegerOf[decl.type], n)
           /\ \A h, a, n : CarriedIn(h, a, n)' <=> CarriedIn(h, a, n)
           /\ \A op, r, n : Says(op, r, n)' <=> Says(op, r, n)
<1>1. TagOf(decl)' = TagOf(decl)
  BY Zenon DEF TagOf, Windows
<1>2. Place' = Place /\ IntegerPlace' = IntegerPlace
  BY DEF Place, Platforms, IntegerPlace
<1>3. \A t, n : InRange(t, n)' <=> InRange(t, n)
  BY DEF InRange, Cast, Lowest, Span, Width
<1>4. \A t, n : Store(t, Num(n))' = Store(t, Num(n)) /\ Hashed(t, n)' = Hashed(t, n)
  BY DEF Hashed, arg_to_hash_pointer, Store, Load, Cast, Lowest, Span, Width
<1>5. \A h, a, n : CarriedIn(h, a, n)' <=> CarriedIn(h, a, n)
  BY <1>1, <1>4 DEF CarriedIn
<1>6. \A op, r, n : Says(op, r, n)' <=> Says(op, r, n)
  BY <1>1, <1>3 DEF Says, Narrow
<1> QED BY <1>2, <1>3, <1>5, <1>6

LEMMA NothingIsNoNumber == ~Finite(Nothing)
BY DEF Finite, IsNumber, Nothing

\* A step keeps what is said if it does not report, or says the right thing.
LEMMA WayStep ==
    ASSUME WayInv, UNCHANGED <<longbits, decl>>,
           NEW op, NEW o, NEW r, Did(op, o, r), op = "get from C" => decl.kind = "custom",
           IntegerPlace =>
               /\ decl.kind = "value" => held'.type = decl.type
               /\ Finite(given') =>
                     /\ given' \in Objects /\ InRange(IntegerOf[decl.type], Whole(given'))
                     /\ CarriedIn(held', attr', Whole(given'))
                     /\ op \in Reports => Says(op, r, Whole(given'))
    PROVE  WayInv'
<1>1. did'.op = op /\ did'.r = r
  BY DEF Did
<1>2. Place' /\ IntegerPlace' = IntegerPlace
  BY WayUnchanged DEF WayInv
<1> SUFFICES ASSUME IntegerPlace
             PROVE  (decl.kind = "value" => held.type = decl.type)' /\ GivenInv' /\ SaidInv'
  BY <1>2 DEF WayInv
<1>3. GivenInv'
  BY WayUnchanged DEF GivenInv
<1>4. SaidInv'
  BY <1>1, WayUnchanged DEF SaidInv
<1> QED BY <1>3, <1>4

LEMMA StaysCarried ==
    ASSUME WayInv, UNCHANGED <<longbits, decl, held, attr, given>>,
           NEW op, NEW o, NEW r, Did(op, o, r), op = "get from C" => decl.kind = "custom",
           IntegerPlace /\ Finite(given) /\ op \in Reports => Says(op, r, Whole(given))
    PROVE  WayInv'
BY WayStep DEF WayInv, GivenInv

LEMMA PassKeeps ==
    ASSUME WayInv, NEW o \in Offered, PassArgument(o)
    PROVE  WayInv'
<1> DEFINE tag == TagOf(decl)
           r == pygi_argument_from_py(tag, o)
           n == Whole(o)
<1>1. decl.kind = "argument" /\ UNCHANGED <<longbits, decl, attr>> /\ Did("pass", o, Outcome(r))
      /\ held' = (IF r.ok THEN r.v ELSE held) /\ given' = (IF r.ok THEN o ELSE given)
  BY DEF PassArgument, Accept
<1>2. ASSUME IntegerPlace, r.ok, Finite(o)
      PROVE  InRange(IntegerOf[decl.type], n) /\ held' = Store(tag, Num(n))
  <2>1. Taken(o, r)
    BY <1>2, ArgumentTaken DEF WayInv, IntegerPlace, Offered
  <2>2. InRange(IntegerOf[decl.type], n)
    BY <1>2, <2>1 DEF Taken, Counts, IntegerPlace
  <2>3. tag \in IntegerTags /\ InRange(tag, n)
    BY <1>2, <2>2, TagsOfIntegers DEF WayInv, IntegerPlace
  <2>4. r = Ok(Store(tag, Num(n)))
    BY <1>2, <2>3, ArgumentOf
  <2> HIDE DEF r
  <2>5. r.v = Store(tag, Num(n))
    BY <2>4 DEF Ok
  <2> QED BY <1>1, <1>2, <2>2, <2>5 DEF r
<1> HIDE DEF r
<1>3. CASE r.ok
  <2>1. IntegerPlace /\ Finite(given') =>
          /\ given' \in Objects /\ InRange(IntegerOf[decl.type], Whole(given'))
          /\ CarriedIn(held', attr', Whole(given'))
    BY <1>1, <1>2, <1>3 DEF CarriedIn, Offered
  <2> QED BY <1>1, <2>1, WayStep DEF Reports
<1>4. CASE ~r.ok
  BY <1>1, <1>4, StaysCarried DEF Reports
<1> QED BY <1>3, <1>4

LEMMA InsertKeeps ==
    ASSUME WayInv, NEW o \in Offered, InsertInHash(o)
    PROVE  WayInv'
<1> DEFINE tag == TagOf(decl)
           a == pygi_argument_from_py(tag, o)
           r == Then(a, LAMBDA arg : Ok(arg_to_hash_pointer(arg, tag)))
           n == Whole(o)
<1>1. decl.kind = "hash" /\ UNCHANGED <<longbits, decl, attr>> /\ Did("insert", o, Outcome(r))
      /\ held' = (IF r.ok THEN r.v ELSE held) /\ given' = (IF r.ok THEN o ELSE given)
  BY DEF InsertInHash, Accept
<1>2. ASSUME IntegerPlace, r.ok, Finite(o)
      PROVE  InRange(IntegerOf[decl.type], n) /\ held' = Hashed(tag, n)
  <2>0. a.ok
    <3> HIDE DEF a
    <3> QED BY <1>2 DEF Then
  <2>1. Taken(o, a)
    BY <1>2, ArgumentTaken DEF WayInv, IntegerPlace, Offered
  <2>2. InRange(IntegerOf[decl.type], n)
    BY <1>2, <2>0, <2>1 DEF Taken, Counts, IntegerPlace
  <2>3. tag \in IntegerTags /\ InRange(tag, n)
    BY <1>2, <2>2, TagsOfIntegers DEF WayInv, IntegerPlace
  <2>4. a = Ok(Store(tag, Num(n)))
    BY <1>2, <2>3, ArgumentOf
  <2> HIDE DEF a
  <2>5. a.v = Store(tag, Num(n))
    BY <2>4 DEF Ok
  <2>6. r = Ok(Hashed(tag, n))
    BY <2>0, <2>5 DEF Then, Hashed
  <2> HIDE DEF r
  <2>7. r.v = Hashed(tag, n)
    BY <2>6 DEF Ok
  <2> QED BY <1>1, <1>2, <2>2, <2>7 DEF r, a
<1> HIDE DEF r
<1>3. CASE r.ok
  <2>1. IntegerPlace /\ Finite(given') =>
          /\ given' \in Objects /\ InRange(IntegerOf[decl.type], Whole(given'))
          /\ CarriedIn(held', attr', Whole(given'))
    BY <1>1, <1>2, <1>3 DEF CarriedIn, Offered
  <2> QED BY <1>1, <2>1, WayStep DEF Reports
<1>4. CASE ~r.ok
  BY <1>1, <1>4, StaysCarried DEF Reports
<1> QED BY <1>3, <1>4

LEMMA SetValueKeeps ==
    ASSUME WayInv, NEW o \in Offered, pyg__gvalue_set(o)
    PROVE  WayInv'
<1> DEFINE r == pyg_value_from_pyobject_with_error(held, o)
           n == Whole(o)
           t == decl.type
<1>1. decl.kind = "value" /\ UNCHANGED <<longbits, decl, attr>> /\ Did("set", o, Outcome(r))
      /\ held' = r.gv
      /\ given' = IF r.ok THEN o ELSE IF r.gv = held THEN given ELSE Nothing
  BY DEF pyg__gvalue_set, Become
<1>2. IntegerPlace => t \in DOMAIN IntegerOf \ {"INT16", "UINT16"} /\ held.type = t
  BY <1>1, PlacesAssumption DEF WayInv, IntegerPlace, Place
<1>3. IntegerPlace => held'.type = t
  BY <1>1, <1>2, SetKeepsType
<1>4. ASSUME IntegerPlace, r.ok, Finite(o)
      PROVE  InRange(IntegerOf[t], n) /\ held' = GV(t, Num(n))
  <2>1. Takes(IntegerOf[t], o, r)
    BY <1>2, <1>4, GValueTakes DEF WayInv
  <2>2. InRange(IntegerOf[t], n)
    BY <1>4, <2>1 DEF Takes
  <2>3. r = Took(held, Num(n))
    BY <1>2, <1>4, <2>2, SetsInteger DEF TypesOfGObject
  <2> QED BY <1>1, <1>2, <1>4, <2>2, <2>3 DEF Took
<1> HIDE DEF r
<1>5. CASE r.ok
  <2>1. IntegerPlace /\ Finite(given') =>
          /\ given' \in Objects /\ InRange(IntegerOf[decl.type], Whole(given'))
          /\ CarriedIn(held', attr', Whole(given'))
    BY <1>1, <1>4, <1>5 DEF CarriedIn, Offered
  <2> QED BY <1>1, <1>3, <2>1, WayStep DEF Reports
<1>6. CASE ~r.ok /\ r.gv = held
  BY <1>1, <1>6, StaysCarried DEF Reports
<1>7. CASE ~r.ok /\ r.gv # held
  <2>1. ~Finite(given')
    BY <1>1, <1>7, NothingIsNoNumber
  <2> QED BY <1>1, <1>3, <2>1, WayStep DEF Reports
<1> QED BY <1>5, <1>6, <1>7

\* The member of the union that a GValue is set from has the width of its tag.
LEMMA ArgumentMember ==
    ASSUME Place, decl.type \in TypesOfGObject, ~decl.unichar, NEW s
    PROVE  LET tag == TagOf(decl)
           IN  \E c \in WithWidth : /\ ArgumentFor(tag, decl.type, s) = Load(c, s)
                                    /\ Span(c) = Span(tag) /\ Lowest(c) = Lowest(tag)
<1> DEFINE t == decl.type
           tag == TagOf(decl)
           f == ArgumentFor(tag, t, s)
<1>1. tag \in IntegerTags /\ tag \notin DOMAIN Enums
  BY TagsOfIntegers, TagMember DEF TypesOfGObject
<1>2. t \notin DOMAIN Enums
  BY IntegerTypes DEF TypesOfGObject
<1>3. /\ t = "LONG" => tag = IF Windows THEN "int32" ELSE "int64"
      /\ t = "ULONG" => tag = IF Windows THEN "uint32" ELSE "uint64"
  <2>1. "LONG" \notin DOMAIN Tags /\ "ULONG" \notin DOMAIN Tags
    BY DEF Tags
  <2> QED BY <1>2, <2>1, Zenon DEF TagOf
<1> HIDE DEF tag
<1>4. tag \in {"int8", "uint8"} => f = Load(tag, s)
  BY <1>1, Zenon DEF ArgumentFor
<1>5. tag \in {"int16", "int32"} => f = Load(IF t = "LONG" THEN "long" ELSE "int", s)
  BY <1>1, Zenon DEF ArgumentFor
<1>6. tag = "int64" => f = Load(IF t = "LONG" THEN "long" ELSE "int64", s)
  BY <1>1, Zenon DEF ArgumentFor
<1>7. tag \in {"uint16", "uint32"} => f = Load(IF t = "ULONG" THEN "ulong" ELSE "uint", s)
  BY <1>1, Zenon DEF ArgumentFor
<1>8. tag = "uint64" => f = Load(IF t = "ULONG" THEN "ulong" ELSE "uint64", s)
  BY <1>1, Zenon DEF ArgumentFor
<1>9. tag \notin {"int16", "uint16"}
  <2>1. t \notin {"LONG", "ULONG"} => tag = Tags[t]
    <3>1. t \notin {"LONG", "ULONG"} => t \in DOMAIN Tags
      BY DEF Tags, IntegerOf, TypesOfGObject
    <3> QED BY <1>2, <3>1, Zenon DEF TagOf, tag
  <2> QED BY <1>3, <2>1 DEF TypesOfGObject, IntegerOf, Tags
<1> HIDE DEF f
<1>10. longbits \in {5, 6} /\ (Windows <=> longbits = 5)
  BY DEF Place, Platforms, Windows
<1> DEFINE Like(c) == c \in WithWidth /\ Span(c) = Span(tag) /\ Lowest(c) = Lowest(tag)
<1>11. Like(tag)
  BY <1>1 DEF WithWidth
<1>12. /\ tag = "int32" => Like("int")
       /\ tag = "uint32" => Like("uint")
       /\ tag = "int32" /\ t = "LONG" => Like("long")
       /\ tag = "int64" /\ t = "LONG" => Like("long")
       /\ tag = "uint32" /\ t = "ULONG" => Like("ulong")
       /\ tag = "uint64" /\ t = "ULONG" => Like("ulong")
  <2>1. /\ Width("int") = 5 /\ Width("int32") = 5 /\ Width("int64") = 6 /\ Width("long") = longbits
        /\ Width("uint") = 5 /\ Width("uint32") = 5 /\ Width("uint64") = 6 /\ Width("ulong") = longbits
    BY DEF Width, Bits
  <2>2. /\ {"int", "int32", "int64", "long"} \subseteq Signed
        /\ {"uint", "uint32", "uint64", "ulong"} \cap Signed = {}
    BY DEF Signed
  <2>3. \A c, d : Width(c) = Width(d) /\ (c \in Signed <=> d \in Signed) =>
           Span(c) = Span(d) /\ Lowest(c) = Lowest(d)
    BY DEF Span, Lowest
  <2>4. tag = "int32" /\ t = "LONG" => longbits = 5
    BY <1>3, <1>10
  <2>5. tag = "int64" /\ t = "LONG" => longbits = 6
    BY <1>3, <1>10
  <2>6. tag = "uint32" /\ t = "ULONG" => longbits = 5
    BY <1>3, <1>10
  <2>7. tag = "uint64" /\ t = "ULONG" => longbits = 6
    BY <1>3, <1>10
  <2> QED BY <2>1, <2>2, <2>3, <2>4, <2>5, <2>6, <2>7 DEF WithWidth
<1>13. \E c : Like(c) /\ f = Load(c, s)
  BY <1>1, <1>4, <1>5, <1>6, <1>7, <1>8, <1>9, <1>11, <1>12 DEF IntegerTags
<1> QED BY <1>13 DEF f, tag

LEMMA NotIntrospected ==
    ASSUME decl.kind # "introspected", decl.type \in DOMAIN IntegerOf, ~decl.unichar, NEW o
    PROVE  pygi_set_gvalue_for_pspec(NewGV(decl.type), o) =
             [pyg_value_from_pyobject_with_error(NewGV(decl.type), o) EXCEPT !.exc = "none"]
<1>1. NewGV(decl.type).type = decl.type /\ decl.type # "VALUE_ARRAY"
  BY DEF NewGV, GV, IntegerOf
<1> QED BY <1>1 DEF pygi_set_gvalue_for_pspec, pyg_param_gvalue_from_pyobject, pyg_value_from_pyobject

\* The GValue that a property is given.
LEMMA SpecialOf ==
    ASSUME Place, IntegerPlace, Property, NEW o \in Objects, Finite(o),
           LET r == pygi_set_gvalue_for_pspec(NewGV(decl.type), o)
           IN  r.ok
    PROVE  LET n == Whole(o)
               r == pygi_set_gvalue_for_pspec(NewGV(decl.type), o)
           IN  InRange(IntegerOf[decl.type], n) /\ r.gv = GV(decl.type, Num(n))
<1> DEFINE gv == NewGV(decl.type)
           t == decl.type
           n == Whole(o)
           r == pygi_set_gvalue_for_pspec(gv, o)
<1>0. gv.type = t /\ t \in TypesOfGObject
  <2>1. Property => decl.kind \notin {"argument", "hash"}
    BY DEF Property
  <2> QED BY <2>1, PlacesAssumption DEF NewGV, GV, Place, IntegerPlace, TypesOfGObject
<1>1. InRange(IntegerOf[t], n)
  BY SpecialTaken DEF OfNumbers, IntegerPlace, Taken, Counts
<1>2. CASE decl.kind = "introspected"
  <2> DEFINE tag == TagOf(decl)
             s == Store(tag, Num(n))
  <2>1. tag \in IntegerTags /\ InRange(tag, n)
    BY <1>1, TagsOfIntegers DEF IntegerPlace
  <2>2. pygi_argument_from_py(tag, o) = Ok(s)
    BY <2>1, ArgumentOf
  <2>3. tag # "void"
    BY <2>1 DEF IntegerTags
  <2>4. r = By(gv, Ok(ArgumentFor(tag, t, s)))
    <3>1. Then(Ok(s), LAMBDA arg : IF tag = "void" THEN Refused("NotImplementedError")
                                   ELSE Ok(ArgumentFor(tag, gv.type, arg))) = Ok(ArgumentFor(tag, t, s))
      <4> HIDE DEF s, tag
      <4> QED BY <1>0, <2>3 DEF Then, Ok
    <3> QED BY <1>2, <2>2, <3>1 DEF pygi_set_gvalue_for_pspec, set_gvalue_from_property_info
  <2>5. ArgumentFor(tag, t, s) = Num(n)
    <3>1. n \in Int
      BY ObjectsAssumption, HalvesOf
    <3>2. PICK c \in WithWidth : /\ ArgumentFor(tag, t, s) = Load(c, s)
                                 /\ Span(c) = Span(tag) /\ Lowest(c) = Lowest(tag)
      <4>1. decl.type \in TypesOfGObject /\ ~decl.unichar
        BY <1>0 DEF IntegerPlace
      <4> QED BY <4>1, ArgumentMember
    <3>3. Load(c, s) = Load(tag, s)
      BY <3>2 DEF Load, Cast
    <3>4. Load(tag, s) = Num(n)
      BY <2>1, <3>1, StoreLoad DEF WithWidth
    <3> QED BY <3>2, <3>3, <3>4
  <2> HIDE DEF s, tag
  <2>6. r = Took(gv, Num(n))
    BY <2>4, <2>5 DEF By, Ok
  <2> QED BY <1>0, <1>1, <2>6 DEF Took
<1>3. CASE decl.kind # "introspected"
  <2> DEFINE e == pyg_value_from_pyobject_with_error(gv, o)
  <2>1. r = [e EXCEPT !.exc = "none"]
    <3>1. decl.type \in DOMAIN IntegerOf /\ ~decl.unichar
      BY DEF IntegerPlace
    <3> QED BY <1>3, <3>1, NotIntrospected
  <2>2. e = Took(gv, Num(n))
    BY <1>0, <1>1, SetsInteger
  <2> HIDE DEF e, gv, r
  <2>3. r.gv = GV(t, Num(n))
    BY <1>0, <2>1, <2>2 DEF Took
  <2> QED BY <1>1, <2>3 DEF r, gv
<1> QED BY <1>2, <1>3

LEMMA SetPropertyKeeps ==
    ASSUME WayInv, NEW o \in Offered, NEW raises \in BOOLEAN, SetProperty(o, raises)
    PROVE  WayInv'
<1> DEFINE special == IF decl.unichar THEN By(held, pygi_gunichar_from_py(o))
                      ELSE pygi_set_gvalue_for_pspec(NewGV(decl.type), o)
           n == Whole(o)
           t == decl.type
<1>1. Property /\ UNCHANGED <<longbits, decl>> /\ Give(o, special, raises)
  BY DEF SetProperty
<1>2. decl.kind \in {"introspected", "plain", "custom"}
  BY <1>1 DEF Property
<1>3. ASSUME IntegerPlace, special.ok, Finite(o)
      PROVE  InRange(IntegerOf[t], n) /\ special.gv = GV(t, Num(n)) /\ t \in TypesOfGObject
  <2>1. ~decl.unichar
    BY <1>3 DEF IntegerPlace
  <2>2. special = pygi_set_gvalue_for_pspec(NewGV(decl.type), o)
    BY <2>1
  <2>3. t \in TypesOfGObject
    BY <1>2, <1>3, PlacesAssumption DEF WayInv, Place, IntegerPlace, TypesOfGObject
  <2>4. o \in Objects
    BY DEF Offered
  <2> HIDE DEF special
  <2> QED BY <1>1, <1>3, <2>2, <2>3, <2>4, SpecialOf DEF WayInv
<1> HIDE DEF special
<1>4. CASE ~special.ok
  <2>1. PICK r : Did("set", o, r) /\ UNCHANGED <<held, attr, given>>
    BY <1>1, <1>4 DEF Give
  <2> QED BY <1>1, <2>1, StaysCarried DEF Reports
<1>5. CASE special.ok /\ decl.kind # "custom"
  <2>1. Did("set", o, Ok(Nothing)) /\ held' = special.gv /\ given' = o /\ UNCHANGED attr
    BY <1>1, <1>5 DEF Give
  <2>2. IntegerPlace /\ Finite(given') =>
          /\ given' \in Objects /\ InRange(IntegerOf[decl.type], Whole(given'))
          /\ CarriedIn(held', attr', Whole(given'))
    BY <1>2, <1>3, <1>5, <2>1 DEF CarriedIn, Offered
  <2> QED BY <1>1, <1>2, <2>1, <2>2, WayStep DEF Reports
<1>6. CASE special.ok /\ decl.kind = "custom"
  <2> DEFINE r == pyg_value_to_pyobject(special.gv)
  <2>1. do_set_property("set", o, r, raises)
    BY <1>1, <1>6 DEF Give
  <2>2. IntegerPlace /\ Finite(o) /\ r.ok => r.v = ShownAs(t, n) /\ (t = "CHAR" => Ascii(n))
    <3> SUFFICES ASSUME IntegerPlace, Finite(o), r.ok
                 PROVE  r.v = ShownAs(t, n) /\ (t = "CHAR" => Ascii(n))
      OBVIOUS
    <3>1. r = IF t = "CHAR" /\ ~Ascii(n) THEN Refused("UnicodeError") ELSE Ok(ShownAs(t, n))
      BY <1>3, <1>6, GetsInteger
    <3>2. ~Refused("UnicodeError").ok /\ Ok(ShownAs(t, n)).v = ShownAs(t, n)
      BY DEF Refused, Ok
    <3> HIDE DEF r
    <3> QED BY <3>1, <3>2
  <2> HIDE DEF r
  <2>3. PICK s : Did("set", o, s)
    BY <2>1 DEF do_set_property
  <2>4. CASE r.ok /\ ~raises
    <3>1. attr' = r.v /\ given' = o /\ UNCHANGED held
      BY <2>1, <2>4 DEF do_set_property
    <3>2. IntegerPlace /\ Finite(given') =>
            /\ given' \in Objects /\ InRange(IntegerOf[decl.type], Whole(given'))
            /\ CarriedIn(held', attr', Whole(given'))
      BY <1>3, <1>6, <2>2, <2>4, <3>1 DEF CarriedIn, Offered
    <3> QED BY <1>1, <1>2, <2>3, <3>2, WayStep DEF Reports
  <2>5. CASE ~(r.ok /\ ~raises)
    <3>1. UNCHANGED <<held, attr, given>>
      BY <2>1, <2>5 DEF do_set_property
    <3> QED BY <1>1, <2>3, <3>1, StaysCarried DEF Reports
  <2> QED BY <2>4, <2>5
<1> QED BY <1>4, <1>5, <1>6

LEMMA SetFromCKeeps ==
    ASSUME WayInv, NEW v, NEW raises \in BOOLEAN, SetFromC(v, raises)
    PROVE  WayInv'
<1>1. decl.kind # "value" /\ UNCHANGED <<longbits, decl>>
  BY DEF SetFromC, Property
<1>2. PICK s : Did("set from C", Nothing, s)
  BY Zenon DEF SetFromC, do_set_property
<1>3. CASE given' = Nothing
  <2>1. ~Finite(given')
    BY <1>3, NothingIsNoNumber
  <2> QED BY <1>1, <1>2, <2>1, WayStep DEF Reports
<1>4. CASE given' # Nothing
  <2>1. UNCHANGED <<held, attr, given>>
    <3>1. PICK r : do_set_property("set from C", Nothing, r, raises)
      BY <1>4 DEF SetFromC
    <3> QED BY <1>4, <3>1 DEF do_set_property
  <2> QED BY <1>1, <1>2, <2>1, StaysCarried DEF Reports
<1> QED BY <1>3, <1>4

\* What is known of the number on its way.
LEMMA OnItsWay ==
    ASSUME WayInv, IntegerPlace, Finite(given)
    PROVE  LET n == Whole(given)
               tag == TagOf(decl)
           IN  /\ n \in Int /\ InRange(IntegerOf[decl.type], n) /\ CarriedIn(held, attr, n)
               /\ tag \in IntegerTags /\ InRange(tag, n)
               /\ decl.kind \notin {"argument", "hash"} => decl.type \in TypesOfGObject
<1>1. given \in Objects /\ InRange(IntegerOf[decl.type], Whole(given)) /\ CarriedIn(held, attr, Whole(given))
  BY DEF WayInv, GivenInv
<1>2. Whole(given) \in Int
  BY <1>1, ObjectsAssumption, HalvesOf
<1>3. TagOf(decl) \in IntegerTags /\ InRange(TagOf(decl), Whole(given))
  BY <1>1, TagsOfIntegers DEF WayInv, IntegerPlace
<1>4. decl.kind \notin {"argument", "hash"} => decl.type \in TypesOfGObject
  BY PlacesAssumption DEF WayInv, Place, IntegerPlace, TypesOfGObject
<1> QED BY <1>1, <1>2, <1>3, <1>4

LEMMA StorageOfInteger ==
    ASSUME NEW tag \in IntegerTags
    PROVE  storage_type(tag) = tag
BY TagMember DEF storage_type

LEMMA ReturnKeeps ==
    ASSUME WayInv, ReturnArgument
    PROVE  WayInv'
<1> DEFINE tag == TagOf(decl)
           n == Whole(given)
           r == pygi_argument_to_py(tag, held)
<1>1. decl.kind = "argument" /\ Did("return", given, r) /\ UNCHANGED <<longbits, decl, held, attr, given>>
  BY DEF ReturnArgument
<1>2. ASSUME IntegerPlace, Finite(given)
      PROVE  r = Ok(PyInt(n))
  <2>1. held = Store(tag, Num(n)) /\ n \in Int /\ tag \in IntegerTags /\ InRange(tag, n)
    BY <1>1, <1>2, OnItsWay DEF CarriedIn
  <2>2. Load(tag, held) = Num(n)
    BY <2>1, StoreLoad DEF WithWidth, WayInv
  <2> QED BY <2>1, <2>2, ArgumentToPy
<1> HIDE DEF r
<1> QED BY <1>1, <1>2, StaysCarried DEF Says

LEMMA LookUpKeeps ==
    ASSUME WayInv, LookUpInHash
    PROVE  WayInv'
<1> DEFINE tag == TagOf(decl)
           n == Whole(given)
           r == pygi_argument_to_py(tag, hash_pointer_to_arg(held, tag))
<1>1. decl.kind = "hash" /\ Did("lookup", given, r) /\ UNCHANGED <<longbits, decl, held, attr, given>>
  BY DEF LookUpInHash
<1>2. ASSUME IntegerPlace, Finite(given), ~Narrow(n)
      PROVE  r = Ok(PyInt(n))
  <2>1. held = Hashed(tag, n) /\ n \in Int /\ tag \in IntegerTags /\ InRange(tag, n)
    BY <1>1, <1>2, OnItsWay DEF CarriedIn
  <2>2. tag \in {"int64", "uint64"} => InRange(ViaInt(tag), n)
    BY <1>2, <2>1, StorageOfInteger DEF Narrow
  <2>3. Load(tag, hash_pointer_to_arg(held, tag)) = Num(n)
    BY <2>1, <2>2, ThroughHash DEF WayInv
  <2> QED BY <2>1, <2>3, ArgumentToPy
<1> HIDE DEF r
<1> QED BY <1>1, <1>2, StaysCarried DEF Says

LEMMA GetValueKeeps ==
    ASSUME WayInv, pyg__gvalue_get
    PROVE  WayInv'
<1> DEFINE n == Whole(given)
           r == pyg_value_to_pyobject(held)
<1>1. decl.kind = "value" /\ Did("get", given, r) /\ UNCHANGED <<longbits, decl, held, attr, given>>
  BY DEF pyg__gvalue_get
<1>2. ASSUME IntegerPlace, Finite(given), ~(decl.type = "CHAR" /\ ~Ascii(n))
      PROVE  r = Ok(ShownAs(decl.type, n))
  <2>1. held = GV(decl.type, Num(n)) /\ decl.type \in TypesOfGObject
    BY <1>1, <1>2, OnItsWay DEF CarriedIn
  <2> QED BY <1>2, <2>1, GetsInteger
<1> HIDE DEF r
<1> QED BY <1>1, <1>2, StaysCarried DEF Says

\* The parameter of a signal is stored in the union under its tag.
LEMMA ParameterStored ==
    ASSUME decl.type \in TypesOfGObject, ~decl.unichar, NEW v
    PROVE  argument_from_g_value(GV(decl.type, v), TagOf(decl)) = Store(TagOf(decl), v)
<1> DEFINE t == decl.type
           tag == TagOf(decl)
           gv == GV(t, v)
           a == argument_from_g_value(gv, tag)
<1>1. t \notin DOMAIN Enums
  BY IntegerTypes DEF TypesOfGObject
<1>2. /\ t = "LONG" => tag \in {"int32", "int64"}
      /\ t = "ULONG" => tag \in {"uint32", "uint64"}
  <2>1. "LONG" \notin DOMAIN Tags /\ "ULONG" \notin DOMAIN Tags
    BY DEF Tags
  <2> QED BY <1>1, <2>1, Zenon DEF TagOf
<1>3. t \notin {"LONG", "ULONG"} => tag = Tags[t]
  <2>1. t \notin {"LONG", "ULONG"} => t \in DOMAIN Tags
    BY DEF Tags, IntegerOf, TypesOfGObject
  <2> QED BY <1>1, <2>1, Zenon DEF TagOf
<1>4. /\ tag = "int8" => t = "CHAR"
      /\ tag = "uint8" => t = "UCHAR"
      /\ tag = "int32" => t \in {"LONG", "INT"}
      /\ tag = "uint32" => t \in {"ULONG", "UINT"}
      /\ tag = "int64" => t \in {"LONG", "INT64"}
      /\ tag = "uint64" => t \in {"ULONG", "UINT64"}
      /\ tag \in {"int8", "uint8", "int32", "uint32", "int64", "uint64"}
  <2> HIDE DEF tag
  <2> QED BY <1>2, <1>3 DEF TypesOfGObject, IntegerOf, Tags
<1>5. gv.type = t /\ gv.v = v
  BY DEF GV
<1>0. tag \notin DOMAIN Enums
  <2> HIDE DEF tag
  <2>1. tag \in IntegerTags
    BY <1>4 DEF IntegerTags
  <2> QED BY <2>1, TagMember
<1> HIDE DEF tag, gv
<1>6. tag = "int8" => a = Store("int8", v)
  <2>1. tag = "int8" => a = Store("int8", Get(gv, {"CHAR"}))
    BY <1>0, Zenon DEF argument_from_g_value
  <2> QED BY <1>4, <1>5, <2>1 DEF Get
<1>7. tag = "uint8" => a = Store("uint8", v)
  <2>1. tag = "uint8" => a = Store("uint8", Get(gv, {"UCHAR"}))
    BY <1>0, Zenon DEF argument_from_g_value
  <2> QED BY <1>4, <1>5, <2>1 DEF Get
<1>8. tag = "int32" => a = Store("int32", v)
  <2>1. tag = "int32" => a = Store("int32", LongOr(gv, "LONG", "INT"))
    BY <1>0, Zenon DEF argument_from_g_value
  <2> QED BY <1>4, <1>5, <2>1 DEF LongOr, Get
<1>9. tag = "uint32" => a = Store("uint32", v)
  <2>1. tag = "uint32" => a = Store("uint32", LongOr(gv, "ULONG", "UINT"))
    BY <1>0, Zenon DEF argument_from_g_value
  <2> QED BY <1>4, <1>5, <2>1 DEF LongOr, Get
<1>10. tag = "int64" => a = Store("int64", v)
  <2>1. tag = "int64" => a = Store("int64", LongOr(gv, "LONG", "INT64"))
    BY <1>0, Zenon DEF argument_from_g_value
  <2> QED BY <1>4, <1>5, <2>1 DEF LongOr, Get
<1>11. tag = "uint64" => a = Store("uint64", v)
  <2>1. tag = "uint64" => a = Store("uint64", LongOr(gv, "ULONG", "UINT64"))
    BY <1>0, Zenon DEF argument_from_g_value
  <2> QED BY <1>4, <1>5, <2>1 DEF LongOr, Get
<1> HIDE DEF a
<1>12. a = Store(tag, v)
  BY <1>4, <1>6, <1>7, <1>8, <1>9, <1>10, <1>11
<1> QED BY <1>12 DEF a, gv, tag

LEMMA SignalKeeps ==
    ASSUME WayInv, SignalParameter
    PROVE  WayInv'
<1> DEFINE tag == TagOf(decl)
           n == Whole(given)
           r == pygi_argument_to_py(tag, argument_from_g_value(held, tag))
<1>1. decl.kind = "value" /\ Did("signal", given, r) /\ UNCHANGED <<longbits, decl, held, attr, given>>
  BY DEF SignalParameter
<1>2. ASSUME IntegerPlace, Finite(given)
      PROVE  r = Ok(PyInt(n))
  <2>1. /\ held = GV(decl.type, Num(n)) /\ n \in Int /\ tag \in IntegerTags /\ InRange(tag, n)
        /\ decl.type \in TypesOfGObject
    BY <1>1, <1>2, OnItsWay DEF CarriedIn
  <2>2. argument_from_g_value(held, tag) = Store(tag, Num(n))
    <3>1. ~decl.unichar
      BY <1>2 DEF IntegerPlace
    <3> QED BY <2>1, <3>1, ParameterStored
  <2>3. Load(tag, argument_from_g_value(held, tag)) = Num(n)
    BY <2>1, <2>2, StoreLoad DEF WithWidth, WayInv
  <2> QED BY <2>1, <2>3, ArgumentToPy
<1> HIDE DEF r
<1> QED BY <1>1, <1>2, StaysCarried DEF Says

LEMMA GetPropertyKeeps ==
    ASSUME WayInv, GetProperty
    PROVE  WayInv'
<1> DEFINE n == Whole(given)
<1>1. decl.kind \in {"introspected", "plain", "custom"} /\ UNCHANGED <<longbits, decl, held, attr, given>>
  BY DEF GetProperty, Property
<1>2. CASE decl.kind = "custom"
  <2>1. Did("get", given, Ok(attr))
    BY <1>2 DEF GetProperty
  <2>2. IntegerPlace /\ Finite(given) => attr = ShownAs(decl.type, n)
    BY <1>2, OnItsWay DEF CarriedIn
  <2> QED BY <1>1, <2>1, <2>2, StaysCarried DEF Says
<1>3. CASE decl.kind # "custom"
  <2>1. Did("get", given, Marshalled)
    BY <1>3 DEF GetProperty
  <2>2. ASSUME IntegerPlace, Finite(given)
        PROVE  Marshalled = Ok(PyInt(n))
    <3>1. ~decl.unichar /\ held = GV(decl.type, Num(n)) /\ decl.type \in TypesOfGObject
      BY <1>1, <1>3, <2>2, OnItsWay DEF CarriedIn, IntegerPlace
    <3>2. pygi_value_to_py_basic_type(held) = Ok(PyInt(n))
      BY <3>1, BasicInteger
    <3>3. Ok(PyInt(n)).ok
      BY OkIsOk
    <3> QED BY <3>1, <3>2, <3>3 DEF Marshalled, Unless
  <2> QED BY <1>1, <2>1, <2>2, StaysCarried DEF Says
<1> QED BY <1>2, <1>3

LEMMA GetFromCKeeps ==
    ASSUME WayInv, GetFromC
    PROVE  WayInv'
<1> DEFINE n == Whole(given)
           r == ReadBack(pyg_value_from_pyobject(NewGV(decl.type), attr))
<1>1. decl.kind = "custom" /\ Did("get from C", given, r) /\ UNCHANGED <<longbits, decl, held, attr, given>>
  BY DEF GetFromC
<1>2. ASSUME IntegerPlace, Finite(given)
      PROVE  r = Ok(ShownAs(decl.type, n))
  <2>1. /\ attr = ShownAs(decl.type, n) /\ (decl.type = "CHAR" => Ascii(n))
        /\ n \in Int /\ decl.type \in TypesOfGObject /\ InRange(IntegerOf[decl.type], n)
    BY <1>1, <1>2, OnItsWay DEF CarriedIn
  <2> QED BY <2>1, ReadsBack DEF WayInv
<1> HIDE DEF r
<1> QED BY <1>1, <1>2, StaysCarried DEF Says

LEMMA DeclareKeeps ==
    ASSUME WayInv, NEW helper \in BOOLEAN, NEW d, DeclareProperty(helper, d)
    PROVE  WayInv'
<1>1. decl.kind = "declared" /\ UNCHANGED <<longbits, decl, attr, given>>
  BY DEF DeclareProperty
<1>2. PICK op \in {"declare", "declare in __gproperties__"} : \E s : Did(op, d, s)
  BY DEF DeclareProperty, Declared
<1>3. IntegerPlace /\ Finite(given') =>
        /\ given' \in Objects /\ InRange(IntegerOf[decl.type], Whole(given'))
        /\ CarriedIn(held', attr', Whole(given'))
  BY <1>1 DEF WayInv, GivenInv, CarriedIn
<1> QED BY <1>1, <1>2, <1>3, WayStep DEF Reports

LEMMA StepOnItsWay ==
    WayInv /\ [Next]_vars => WayInv'
<1> SUFFICES ASSUME WayInv, [Next]_vars
             PROVE  WayInv'
  OBVIOUS
<1>1. CASE UNCHANGED vars
  <2>1. UNCHANGED <<longbits, decl, held, attr, given, did>>
    BY <1>1 DEF vars
  <2>2. (GivenInv' <=> GivenInv) /\ (SaidInv' <=> SaidInv)
    <3>1. /\ \A n : InRange(IntegerOf[decl.type], n)' <=> InRange(IntegerOf[decl.type], n)
          /\ \A h, a, n : CarriedIn(h, a, n)' <=> CarriedIn(h, a, n)
          /\ \A op, r, n : Says(op, r, n)' <=> Says(op, r, n)
      BY <2>1, WayUnchanged
    <3>2. GivenInv' <=> GivenInv
      BY <2>1, <3>1 DEF GivenInv
    <3>3. SaidInv' <=> SaidInv
      BY <2>1, <3>1 DEF SaidInv
    <3> QED BY <3>2, <3>3
  <2>3. Place' /\ (IntegerPlace' <=> IntegerPlace)
    BY <2>1, WayUnchanged DEF WayInv
  <2> QED BY <2>1, <2>2, <2>3 DEF WayInv
<1> QED BY <1>1, PassKeeps, InsertKeeps, SetValueKeeps, SetPropertyKeeps, SetFromCKeeps, ReturnKeeps,
        LookUpKeeps, GetValueKeeps, SignalKeeps, GetPropertyKeeps, GetFromCKeeps, DeclareKeeps, Zenon DEF Next

\* What is said of a number is what it stands for.
LEMMA SaidStandsFor ==
    ASSUME WayInv, IntegerPlace, Finite(given), NEW out,
           out \in {PyInt(Whole(given)), ShownAs(decl.type, Whole(given))}
    PROVE  StandsFor(given, out)
<1> DEFINE n == Whole(given)
           t == decl.type
<1>1. n \in Int /\ InRange(IntegerOf[t], n)
  BY OnItsWay
<1>2. t \notin {"FLOAT", "DOUBLE", "BOOLEAN"}
  BY DEF IntegerPlace, IntegerOf
<1>3. CASE out = PyInt(n)
  <2>1. out.is = "int" /\ out.n = n /\ "k" \notin DOMAIN out
    BY <1>3 DEF PyInt
  <2>2. Finite(out) /\ Sound(out)
    BY <1>1, <2>1 DEF Finite, IsNumber, Sound
  <2>3. Halves(out) = 2 * n
    BY <1>1, <2>1, <2>2 DEF Halves
  <2> QED BY <1>2, <2>2, <2>3 DEF StandsFor
<1>4. CASE t = "CHAR" /\ out = Str(<<n>>)
  <2>1. Code(given) = {n}
    <3>1. given.is \notin {"str", "bytes"}
      BY DEF Finite, IsNumber
    <3> QED BY <3>1, Zenon DEF Code
  <2>2. Code(out) = {n}
    <3>1. out.is = "str" /\ Len(out.s) = 1 /\ out.s[1] = n
      BY <1>4 DEF Str
    <3>2. ~Finite(out) /\ out.is # "bytes"
      BY <3>1 DEF Finite, IsNumber
    <3> QED BY <3>1, <3>2, Zenon DEF Code
  <2> QED BY <1>4, <2>1, <2>2 DEF StandsFor
<1>5. CASE t = "UCHAR" /\ out = Bytes(<<n>>)
  <2>1. Code(given) = {n}
    <3>1. given.is \notin {"str", "bytes"}
      BY DEF Finite, IsNumber
    <3> QED BY <3>1, Zenon DEF Code
  <2>2. Code(out) = {n}
    <3>1. out.is = "bytes" /\ Len(out.bytes) = 1 /\ out.bytes[1] = n
      BY <1>5 DEF Bytes
    <3>2. Cast(IntegerOf[decl.type], n) = n
      BY <1>1 DEF InRange
    <3>3. out.is # "str" /\ Code(out) = {Cast(IntegerOf[decl.type], out.bytes[1])}
      <4>1. out.is # "str" /\ ~Finite(out)
        BY <3>1 DEF Finite, IsNumber
      <4> QED BY <3>1, <4>1, Zenon DEF Code
    <3> QED BY <3>1, <3>2, <3>3
  <2> QED BY <1>5, <2>1, <2>2 DEF StandsFor
<1> QED BY <1>3, <1>4, <1>5 DEF ShownAs

LEMMA IntegerKept ==
    ASSUME WayInv, IntegerPlace, Finite(given)
    PROVE  ValuesKept
<1> DEFINE n == Whole(given)
<1>1. Says(did.op, did.r, n) \/ did.op \notin Reports
  BY DEF WayInv, SaidInv
<1>2. \A v : Ok(v).ok /\ Ok(v).v = v
  BY DEF Ok
<1>3. ComesBack
  <2>1. CASE did.r = Ok(PyInt(n)) \/ did.r = Ok(ShownAs(decl.type, n))
    BY <1>2, <2>1, SaidStandsFor DEF ComesBack
  <2>2. CASE did.op = "get" /\ decl.kind = "value" /\ decl.type = "CHAR" /\ ~Ascii(n)
    <3>1. held.v.num = n
      BY <2>2, OnItsWay DEF CarriedIn, GV, Num
    <3> QED BY <2>2, <3>1 DEF ComesBack, Undecodable
  <2>3. CASE did.op = "lookup" /\ Narrow(n)
    BY <2>3 DEF ComesBack, CutByHash, Narrow
  <2>4. CASE did.op \notin Reports
    BY <2>4 DEF ComesBack, Reports
  <2> QED BY <1>1, <2>1, <2>2, <2>3, <2>4 DEF Says
<1>4. AttributeAsC
  <2> SUFFICES ASSUME did.op = "get from C"
               PROVE  did.r = Ok(attr)
    BY DEF AttributeAsC
  <2>1. decl.kind = "custom"
    BY DEF WayInv, SaidInv
  <2>2. attr = ShownAs(decl.type, n)
    BY <2>1, OnItsWay DEF CarriedIn
  <2>3. did.r = Ok(ShownAs(decl.type, n))
    BY <1>1 DEF Says, Reports
  <2> QED BY <2>2, <2>3
<1> QED BY <1>3, <1>4 DEF ValuesKept

\* A number that a place of an integer type was given comes back as what it is
\* by every route and on every platform, and C reads the attribute of a
\* property as the number it is (pygi-argument.c, pygi-value.c,
\* pygi-property.c, pygobject-class.c); but what is said of ComesBack.
THEOREM IntegersKept == Spec => [](IntegerPlace /\ Finite(given) => ValuesKept)
<1>1. Init => WayInv
  <2> SUFFICES ASSUME Init
               PROVE  WayInv
    OBVIOUS
  <2>1. ~Finite(given) /\ did.op \notin Reports
    BY NothingIsNoNumber DEF Init, Reports
  <2>2. Place /\ (decl.kind = "value" => held.type = decl.type)
    BY DEF Init, Place, NewGV, GV
  <2>3. did.op # "get from C"
    BY DEF Init
  <2> QED BY <2>1, <2>2, <2>3 DEF WayInv, GivenInv, SaidInv
<1>2. WayInv => (IntegerPlace /\ Finite(given) => ValuesKept)
  BY IntegerKept
<1> QED BY <1>1, <1>2, StepOnItsWay, PTL DEF Spec
=============================================================================
