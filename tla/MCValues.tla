----------------------------- MODULE MCValues ------------------------------
(* Instances of Values for TLC: values at the edges of every width. *)
EXTENDS Values

Classes ==
    [Align |-> [flags |-> FALSE, values |-> {-1, 0, 1, 15}, storage |-> "int32",
                names |-> [s \in {<<1>>, <<2>>} |-> IF s = <<1>> THEN 1 ELSE 15]],
     State |-> [flags |-> FALSE, values |-> {0, 3}, storage |-> "uint32",
                names |-> [s \in {<<1>>} |-> 3]],
     Mask  |-> [flags |-> TRUE, values |-> {1, 2, 16}, storage |-> "uint32",
                names |-> [s \in {<<1>>, <<2>>} |-> IF s = <<1>> THEN 1 ELSE 16]]]

Edges == {0, 1, 3, 4, 7, 8, 15, 16, 31, 32, 63, 64}
Numbers == {PyInt(n) : n \in Edges \cup {-k - 1 : k \in Edges \ {1}}}
Halfs == {PyFloat(h) : h \in {-1, 1, 41, 99}}
Strings == {Str(s) : s \in {<<>>, <<1>>, <<5>>, <<9, 0, 1>>, <<16>>, <<2, 21>>}}
Others == {None, PyBool(TRUE), PyBool(FALSE), NotFinite("inf"), NotFinite("nan"),
           Bytes(<<5>>), Bytes(<<5, 0>>), [is |-> "path", path |-> <<1, 21>>],
           Capsule(Num(40)), GType(TypeId("INT")), GType(TypeId("INVALID")), [is |-> "object"],
           Member("Align", -1), Member("State", 3), Member("Mask", 17),
           Tuple(<<Str(<<1>>), Str(<<2>>)>>),
           Wrapper("WIDGET"), Wrapper("OBJECT"), Boxed("RECT"), Boxed("VARIANT"), Fundament("FUNDAMENTAL"),
           Fundament("SETTERLESS"), [is |-> "gpointer", type |-> "POINTER", p |-> Num(9)],
           List(<<PyInt(1), Str(<<1>>)>>), List(<<PyInt(40)>>), List(<<Str(<<2>>), Bytes(<<5>>)>>), List(<<>>)}
Given == Numbers \cup Halfs \cup Strings \cup Others

Scalars == {"CHAR", "UCHAR", "BOOLEAN", "INT", "UINT", "LONG", "ULONG", "INT64", "UINT64", "FLOAT", "DOUBLE",
            "STRING", "GTYPE", "Align", "State", "Mask"}
D(kind, types) == {[kind |-> kind, type |-> t, unichar |-> FALSE, element |-> "INVALID"] : t \in types}
Letter(kind) == [kind |-> kind, type |-> "UINT", unichar |-> TRUE, element |-> "INVALID"]
Places ==
    D("value", Scalars \cup {"POINTER", "OBJECT", "WIDGET", "INTERFACE", "ORPHAN", "VARIANT", "PYOBJECT", "RECT",
                             "VALUE", "VALUE_ARRAY", "ARRAY", "STRV", "FUNDAMENTAL", "SETTERLESS"})
    \cup D("argument", Scalars \cup {"INT16", "UINT16", "FILENAME", "POINTER", "WIDGET"})
    \cup D("hash", {"CHAR", "UCHAR", "INT16", "UINT16", "INT", "UINT", "INT64", "UINT64", "STRING",
                    "FILENAME", "GTYPE", "Align", "State", "Mask"})
    \cup D("introspected", Scalars \cup {"POINTER", "WIDGET"})
    \cup D("plain", {"CHAR", "UINT", "ULONG", "DOUBLE", "STRING", "GTYPE", "State", "POINTER", "VALUE_ARRAY", "STRV", "OBJECT"})
    \cup D("custom", (Scalars \ {"INT", "ULONG", "INT64", "UINT64", "Align"}) \cup {"PYOBJECT", "OBJECT", "STRV"})
    \cup {Letter(k) : k \in {"value", "argument", "hash", "introspected", "plain"}}
    \cup {[kind |-> "plain", type |-> "VALUE_ARRAY", unichar |-> FALSE, element |-> t] : t \in {"INT", "STRING"}}
    \cup D("declared", {"CHAR", "UCHAR", "BOOLEAN", "INT", "UINT", "LONG", "ULONG", "INT64", "UINT64", "FLOAT",
                        "DOUBLE", "STRING", "Align", "Mask", "RECT"})

Types == {d.type : d \in Places}
OfC == [t \in Types |->
          CASE t = "STRING" -> {CString(<<2>>), CString(<<-5>>), NULL}
            [] t \in {"CHAR", "INT"} -> {Num(-2), Num(2)}
            [] t \in {"UCHAR", "UINT"} -> {Num(7)}
            [] t \in {"Align", "Mask"} -> {Num(1), Num(8)}
            [] OTHER -> {}]

\* Bounds and defaults beyond each width.
Of(objects) == [minimum : objects, maximum : objects, default : objects]
Default(objects) == [minimum : {None}, maximum : {None}, default : objects]
Ints == {None} \cup {PyInt(n) : n \in {-33, -17, -1, 0, 4, 16, 31, 32, 64}}
BoundsOf == [t \in Types |->
               CASE t \in {"INT", "UINT", "LONG", "ULONG", "INT64", "UINT64"} -> Of(Ints)
                 [] t \in {"CHAR", "UCHAR"} -> Of({None, PyInt(1), Bytes(<<1>>), Bytes(<<3>>), Bytes(<<6>>)})
                 [] t \in {"FLOAT", "DOUBLE"} -> Of({None, PyInt(-1), PyFloat(-39), PyFloat(3), PyInt(20)})
                 [] OTHER -> Default({None, PyBool(TRUE), PyInt(0), PyInt(15), PyInt(17), Str(<<1>>), Str(<<9, 0, 1>>),
                                      Member("Align", -1), Member("Mask", 17)})]
=============================================================================
