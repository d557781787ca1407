-------------------------- MODULE MCTypeRegistry ---------------------------
(* Instances of TypeRegistry for TLC. *)
EXTENDS TypeRegistry

SomeTypes == {"Object", "Widget", "Mode", "Rect", "Hidden", "Anon", "Mine", "Sub"}
KindOf == [t \in SomeTypes |->
             CASE t = "Object" -> "root" [] t = "Widget" -> "object" [] t = "Mode" -> "enum" [] t = "Rect" -> "struct"
               [] t = "Hidden" -> "hidden" [] t = "Anon" -> "anon" [] t = "Mine" -> "mine" [] t = "Sub" -> "sub"]
SomePrograms == {{"Object"}, {"Widget", "Hidden"}, {"Widget", "Mode"}, {"Mode", "Rect"}, {"Anon", "Mine", "Sub"}}
=============================================================================
