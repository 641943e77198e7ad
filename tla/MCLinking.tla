------------------------------ MODULE MCLinking ------------------------------
EXTENDS Linking

Integer == [type |-> "int", nullable |-> FALSE]
Maybe(col) == [col EXCEPT !.nullable = TRUE]
Text == [type |-> "str", nullable |-> FALSE]

Plain(module, name, table, rels) ==
  [module |-> module, name |-> name, role |-> "table", bases |-> <<>>, table |-> table,
   database |-> "default", columns |-> ("id" :> Integer), pk |-> <<"id">>, indexes |-> {},
   rels |-> rels, value |-> ""]
With(class, columns) == [class EXCEPT !.columns = columns @@ @]
Child(module, name, bases, columns, value) ==
  [Plain(module, name, "", <<>>) EXCEPT !.role = "child", !.bases = bases, !.columns = columns,
                                        !.pk = <<>>, !.indexes = DOMAIN columns, !.value = value]

Relation(attr, kind, target) ==
  [attr |-> attr, kind |-> kind, target |-> <<target>>, optional |-> FALSE, local |-> <<>>,
   fk |-> "", bridge |-> "", via |-> "", to |-> ""]
One(attr, target, local) == [Relation(attr, "to_one", target) EXCEPT !.local = local]
Many(attr, target, fk) == [Relation(attr, "to_many", target) EXCEPT !.fk = fk]
Through(attr, target, bridge, via, to) ==
  [Relation(attr, "to_many_through", target) EXCEPT !.bridge = bridge, !.via = via, !.to = to]
Optional(rel) == [rel EXCEPT !.optional = TRUE]

File(classes, imports, typing) == [classes |-> classes, imports |-> imports, typing |-> typing]
Ref(col) == col :> Integer

(* People drive cars of a brand, each in a file that needs the others.       *)
Garage == [
  modules |-> ("people" :> File(<<"User">>, <<>>, <<"Car">>)
            @@ "garage" :> File(<<"Car">>, <<>>, <<"User", "Brand">>)
            @@ "makers" :> File(<<"Brand">>, <<"Car">>, <<>>)),
  classes |-> ("User" :> With(Plain("people", "User", "users", <<Optional(One("car", "Car", <<"car_id">>))>>),
                              "car_id" :> Maybe(Integer))
            @@ "Car" :> With(Plain("garage", "Car", "cars",
                               <<One("brand", "Brand", <<"brand_id">>), Many("drivers", "User", "car")>>),
                             Ref("brand_id"))
            @@ "Brand" :> Plain("makers", "Brand", "brands", <<Many("cars", "Car", "brand")>>))]

(* The same in one file, in every order of its classes.                      *)
InOneFile == {[Garage EXCEPT
    !.modules = "garage" :> File(order, <<>>, <<>>),
    !.classes = [c \in DOMAIN @ |-> [@[c] EXCEPT !.module = "garage"]]] :
  order \in {s \in [1..3 -> DOMAIN Garage.classes] : IsInjective(s)}}

(* Two applications with the same three names, and one that uses both.        *)
Tagged(m) ==
  LET of(name) == m \o "." \o name IN
       of("Post") :> Plain(m, "Post", m \o "_posts", <<Through("tags", "Tag", "Tagging", "post", "tag")>>)
    @@ of("Tag") :> Plain(m, "Tag", m \o "_tags", <<Many("uses", "Tagging", "tag")>>)
    @@ of("Tagging") :> With(Plain(m, "Tagging", m \o "_taggings",
                               <<One("post", "Post", <<"post_id">>), One("tag", "Tag", <<"tag_id">>)>>),
                             Ref("post_id") @@ Ref("tag_id"))
Homonyms == [
  modules |-> ("blog" :> File(<<"blog.Post", "blog.Tag", "blog.Tagging">>, <<>>, <<>>)
            @@ "shop" :> File(<<"shop.Post", "shop.Tagging">>, <<>>, <<"shop.Tag">>)
            @@ "tags" :> File(<<"shop.Tag">>, <<"shop.Tagging">>, <<>>)),
  classes |-> Tagged("blog") @@ [Tagged("shop") EXCEPT !["shop.Tag"].module = "tags"]]

(* A hierarchy in three files, its visits in a fourth; every model has an     *)
(* author, from an abstract base.                                           *)
Zoo == [
  modules |-> ("animals" :> File(<<"Authored", "Animal">>, <<>>, <<"Author">>)
            @@ "dogs" :> File(<<"Dog", "Puppy">>, <<"Animal">>, <<"Author", "Visit">>)
            @@ "cats" :> File(<<"Cat">>, <<"Animal">>, <<"Author">>)
            @@ "visits" :> File(<<"Author", "Visit">>, <<"Dog">>, <<>>)),
  classes |-> ("Authored" :> With([Plain("animals", "Authored", "", <<One("author", "Author", <<"author_id">>)>>)
                                     EXCEPT !.role = "abstract"], Ref("author_id"))
            @@ "Animal" :> [With(Plain("animals", "Animal", "animals", <<>>), "kind" :> Text)
                              EXCEPT !.role = "base", !.bases = <<"Authored">>, !.pk = <<>>]
            @@ "Dog" :> Child("dogs", "Dog", <<"Animal", "Authored">>, "breed" :> Maybe(Text), "dog")
            @@ "Puppy" :> Child("dogs", "Puppy", <<"Dog", "Animal", "Authored">>, "age" :> Maybe(Integer), "puppy")
            @@ "Cat" :> Child("cats", "Cat", <<"Animal", "Authored">>, "lives" :> Maybe(Integer), "cat")
            @@ "Author" :> Plain("visits", "Author", "authors", <<>>)
            @@ "Visit" :> With(Plain("visits", "Visit", "visits", <<One("dog", "Dog", <<"dog_id">>)>>),
                               Ref("dog_id")))]

(* What a link refuses: a target that is never imported, in another database, *)
(* of another type or number of columns, a union of models, a NULL key that   *)
(* the type denies, an inverse of nothing; and two modules of one table.      *)
Bad(class) == [
  modules |-> ("stock" :> File(<<"Item">>, <<>>, <<>>)
            @@ "depots" :> File(<<"Depot">>, <<"Item">>, <<>>)
            @@ "others" :> File(<<"Other">>, <<>>, <<>>)),
  classes |-> ("Item" :> Plain("stock", "Item", "items", <<>>)
            @@ "Other" :> Plain("others", "Other", "others", <<>>)
            @@ "Depot" :> class)]
Depot(rel) == With(Plain("depots", "Depot", "depots", <<rel>>), Ref("item_id"))
ToItem == One("item", "Item", <<"item_id">>)
Refused == {
  Bad(Depot([ToItem EXCEPT !.target = <<"Item", "Depot">>])),
  Bad(Depot([ToItem EXCEPT !.local = <<"item_id", "id">>])),
  Bad([Depot(ToItem) EXCEPT !.database = "other"]),
  Bad([Depot(ToItem) EXCEPT !.columns["item_id"] = Text]),
  Bad([Depot(ToItem) EXCEPT !.columns["item_id"] = Maybe(Integer)]),
  Bad(Depot(Many("items", "Item", "depot"))),
  Bad(Depot(Through("items", "Item", "Other", "depot", "item"))),
  Bad([Depot(ToItem) EXCEPT !.table = "others"])}

Applications == {Garage, Homonyms, Zoo} \cup InOneFile \cup Refused

(* An inverse that names an inverse; a base whose names its child's file means *)
(* otherwise; a child with a key of its own.                                 *)
Backwards == [Garage EXCEPT !.classes["User"].rels = @ \o <<>>,
  !.classes["Brand"].rels = Append(@, Many("cars_again", "Car", "drivers"))]
Shadowed == [
  modules |-> ("common" :> File(<<"Authored", "Author">>, <<>>, <<>>)
            @@ "notes" :> File(<<"Note">>, <<"Authored">>, <<"notes.Author", "Topic">>)
            @@ "topics" :> File(<<"notes.Author", "Topic">>, <<>>, <<>>)),
  classes |-> ("Authored" :> [Zoo.classes["Authored"] EXCEPT !.module = "common"]
            @@ "Author" :> Plain("common", "Author", "authors", <<>>)
            @@ "notes.Author" :> Plain("topics", "Author", "note_authors", <<>>)
            @@ "Topic" :> Plain("topics", "Topic", "topics", <<>>)
            @@ "Note" :> [With(Plain("notes", "Note", "notes", <<One("topic", "Topic", <<"topic_id">>)>>),
                               Ref("topic_id")) EXCEPT !.bases = <<"Authored">>, !.pk = <<>>])]
Keyed == [Zoo EXCEPT !.classes["Cat"].rels = <<Optional(One("visit", "Visit", <<"lives">>))>>,
                     !.modules["cats"].typing = <<"Author", "Visit">>]
OddOnes == {Shadowed}
BackwardsOnes == {Backwards}
KeyedOnes == {Keyed}
==============================================================================
