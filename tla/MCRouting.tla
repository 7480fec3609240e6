----------------------------- MODULE MCRouting -----------------------------
(* Small instances of Routing.  Table t has the subscribers and u its       *)
(* children; the pk "a:1" of t and the pk "1" of table "t:a" have one key.   *)
EXTENDS Routing, TLC

Row(s, t, p) == [schema |-> s, table |-> t, pk |-> p]
public == <<"public">>
t == <<"t">>
u == <<"u">>
ta == <<"t", ":", "a">>
one == <<"1">>
a1 == <<"a", ":", "1">>

SomeRows == {Row(public, t, one), Row(public, t, a1), Row(public, u, one),
             Row(public, ta, one), Row(<<"audit">>, t, one)}
BlankRows == {Row(public, t, one), Row(public, t, Blank), Row(public, u, one)}
FewRows == {Row(public, t, one), Row(public, u, one)}
SomePKs == {one, a1}
OneTable == {t}
NewPKs == {a1}
OnlyX == (t :> {"x"})
WithChild == (t :> {"x", "y"}) @@ (u :> {"y"})
SomeGrants == {OnlyX, WithChild}
SomeImages == {{"x"}, {"y"}}
=============================================================================
