---------------------------- MODULE MCApplication ----------------------------
EXTENDS Application, MCLinking, MCEagerLoad, MCWrites

(* The models of the chains, in one file: a post has a key of two columns.    *)
Keyed2(class, second) ==
  [With(class, second :> Integer) EXCEPT !.pk = Append(@, second)]
Blog == [
  modules |-> ("blog" :> File(<<"Tagging", "Post", "Comment", "User", "Tag", "Note">>, <<>>, <<>>)),
  classes |->
    ("Post" :> Keyed2(Plain("blog", "Post", "posts",
        <<Many("comments", "Comment", "post"), Through("tags", "Tag", "Tagging", "post", "tag")>>),
        "shard")
  @@ "Comment" :> With(Plain("blog", "Comment", "comments",
        <<One("post", "Post", <<"post_id", "post_shard">>),
          Optional(One("author", "User", <<"author_id">>))>>),
        Ref("post_id") @@ Ref("post_shard") @@ ("author_id" :> Maybe(Integer)))
  @@ "User" :> Plain("blog", "User", "users", <<>>)
  @@ "Tag" :> Plain("blog", "Tag", "tags", <<Many("notes", "Note", "tag")>>)
  @@ "Tagging" :> With(Plain("blog", "Tagging", "taggings",
        <<One("post", "Post", <<"post_id", "post_shard">>), One("tag", "Tag", <<"tag_id">>)>>),
        Ref("post_id") @@ Ref("post_shard") @@ Ref("tag_id"))
  @@ "Note" :> With(Plain("blog", "Note", "notes", <<Optional(One("tag", "Tag", <<"tag_id">>))>>),
        "tag_id" :> Maybe(Integer)))]

AllApplications == Applications \cup {Blog}

(* The chains of Asked are such as the theorem about them is of.             *)
ASSUME AskedAssumption == AskedOnce /\ BridgesAreWhole
==============================================================================
