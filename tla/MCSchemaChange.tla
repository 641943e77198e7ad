---------------------------- MODULE MCSchemaChange ----------------------------
(* Two models, two views, a routine; what each of them may come to say.     *)
EXTENDS SchemaChange, TLC

In(t, u) == [T |-> t, U |-> u]
Places == {In(<<"public", "t">>, <<"public", "u">>), In(<<"public", "t">>, <<"analytics", "u">>)}
InOrder == <<"c", "d", "e", "f", "fk", "g", "k", "t", "t2", "u", "v", "w">>
Schemas == <<"analytics", "public">>

Plain(columns) ==
  [columns |-> columns, indexes |-> Nothing, checks |-> Nothing, keys |-> Nothing, comment |-> "",
   triggers |-> Nothing]
C == [c |-> "int"]
CD == [c |-> "int", d |-> "int"]
CK == [c |-> "int", k |-> "int"]
Wide == [c |-> "int", d |-> "bigint"]
Fires(d, body) == [d EXCEPT !.triggers = [g |-> body]]
Keyed(d, target, action) ==
  [d EXCEPT !.keys = [fk |-> [target |-> target, column |-> "k", on_delete |-> action]]]
Checked(d, condition) == [d EXCEPT !.checks = [d |-> condition]]

Ts == {Plain(C), Plain(CD), [Plain(CD) EXCEPT !.indexes = [d |-> "search"]],
       [Plain(CD) EXCEPT !.indexes = [d |-> "unique"]], [Plain(CD) EXCEPT !.indexes = [d |-> "partial unique"]],
       Checked(Plain(CD), ">0"), Plain(Wide), [Plain(C) EXCEPT !.comment = "one"]}
Us == {Plain(C), Plain(CK), Keyed(Plain(CK), "T", "cascade"), Keyed(Plain(CK), "T", "restrict")}

TwoTables ==
  {[T |-> t, U |-> u] : t \in {Plain(C), Plain(CD), [Plain(CD) EXCEPT !.indexes = [d |-> "unique"]], Checked(Plain(CD), ">0")},
                        u \in Us}
OneTable == {[T |-> t] : t \in Ts} \cup {[U |-> Plain(CK)]}
InACircle == {[T |-> Keyed(Plain(CK), "U", "cascade"), U |-> Keyed(Plain(CK), "T", "cascade")]}
Fired ==
  {[T |-> Fires(Plain(C), "a")]}
    \cup {[T |-> Fires(Checked(Plain(CD), k), b)] : k \in {">0", "<9"}, b \in {"a", "b"}}
TwoFired == {[T |-> Fires(Plain(C), "a"), U |-> Fires(Plain(C), "b")]}

AView(columns, body, depends_on) == [columns |-> columns, body |-> body, depends_on |-> depends_on]
V1 == AView(C, "one", {})
V2 == AView(C, "two", {})
V3 == AView(CD, "wide", {})
OnV == AView(C, "on v", {"v"})
ViewSets ==
  {[v |-> V1], [v |-> V2], [v |-> V3], [v |-> V1, w |-> OnV], [v |-> V2, w |-> OnV],
   [v |-> AView(C, "on w", {"w"}), w |-> V1], [v |-> AView(C, "on w", {"w"}), w |-> OnV]}

ADesign(tables, views, routines) == [tables |-> tables, views |-> views, routines |-> routines]
AllDesigns ==
  {ADesign(Nothing, Nothing, Nothing)}
    \cup {ADesign(ts, Nothing, Nothing) : ts \in TwoTables \cup OneTable \cup InACircle \cup Fired \cup TwoFired}
    \cup {ADesign(ts, vs, Nothing) : ts \in {[T |-> Plain(C)]}, vs \in ViewSets}
    \cup {ADesign([T |-> Plain(C)], Nothing, [f |-> b]) : b \in {"1", "2"}}

TRenames == {<<"T", "t2">>}
DRenames == {<<"T", "d", "e">>}
=============================================================================
