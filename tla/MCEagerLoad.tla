----------------------------- MODULE MCEagerLoad -----------------------------
EXTENDS EagerLoad

Posts == {"p1", "p2"}
Comments == {"c1", "c2"}
Users == {"u1"}
Tags == {"t1", "t2"}
Notes == {"n1", "n2"}

ManyTo(rel, rows) == [rel |-> rel, kind |-> "to_many", width |-> 1, binds |-> 0,
                      filter |-> rows, rows |-> rows]
OneTo(rel, rows) == [ManyTo(rel, rows) EXCEPT !.kind = "to_one"]
Across(rel, rows) == [ManyTo(rel, rows) EXCEPT !.kind = "to_many_through"]
Composite(hop) == [hop EXCEPT !.width = 2]
Filter(hop, rows, n) == [hop EXCEPT !.filter = rows, !.binds = n]

(* Posts, whose key has two columns, with their comments and the author of    *)
(* each; and with their tags, which two posts may share, and some notes on   *)
(* each tag.                                                                *)
Asked == <<
  <<Composite(ManyTo("comments", Comments)), OneTo("author", Users)>>,
  <<Composite(Across("tags", Tags)), Filter(ManyTo("notes", Notes), {"n1"}, 1)>>>>

(* Two chains that begin with the same hop.                                  *)
AskedTwice == <<
  <<ManyTo("comments", Comments), OneTo("author", Users)>>,
  <<ManyTo("comments", Comments), ManyTo("notes", Notes)>>>>

(* A filter on a hop through a bridge.                                       *)
AskedNarrow == <<<<Filter(Across("tags", Tags), {"t1"}, 1)>>>>

(* An author may be the number of a user that is gone. The posts are alike,   *)
(* and so are the tags: c1 is of p1, and n1 of t1 or of none.                 *)
Anything ==
  {[fk |-> ("comments" :> c @@ "author" :> a @@ "notes" :> n), bridge |-> ("tags" :> b)] :
     c \in {f \in [Comments -> Posts] : f["c1"] = "p1"},
     a \in [Comments -> Users \cup {None, "gone"}],
     n \in {f \in [Notes -> Tags \cup {None}] : f["n1"] # "t2"},
     b \in SUBSET (Posts \X Tags)}
==============================================================================
