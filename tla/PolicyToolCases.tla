--------------------------- MODULE PolicyToolCases --------------------------
(* Command lines of the policy tools: a small file system with a root file system
   in /usr, mount points, and lists in several algorithms. None stands for an
   option that is not given. *)
EXTENDS Naturals, Sequences

Etc  == <<"etc", "">>
Usr  == <<"usr", "">>
Vars == <<"var", "">>
Variant == <<"var", "iant">>
Leaf == <<"f", "">>
Aggregate == << <<"boot_aggregate", "">> >>
Ring == << <<"ima", "">> >>

File(path, content) == [path |-> path, content |-> content, owner |-> "root", link |-> FALSE]
Root == {File(<<Leaf>>, "c1"), File(<<Vars, Leaf>>, "c2"), File(<<Etc, Leaf>>, "c3"),
         File(<<Etc, Usr, Leaf>>, "c3"),
         [File(<<Etc>>, "c4") EXCEPT !.owner = "other"], [File(<<Usr>>, "c4") EXCEPT !.link = TRUE]}
AllOfFiles == {[f EXCEPT !.path = <<Usr>> \o @] : f \in Root}
           \cup {File(<<Vars, Leaf>>, "c5"), File(<<Variant, Leaf>>, "c6"), File(<<Etc>>, "c7")}
AllOfMounts ==
  {[at |-> <<>>, fs |-> "ext4"], [at |-> <<Etc>>, fs |-> "ext4"],
   [at |-> <<Vars>>, fs |-> "btrfs"], [at |-> <<Variant>>, fs |-> "btrfs"]}
AllOfNames == {f.path : f \in AllOfFiles \cup Root} \cup {Aggregate, Ring, <<Leaf>>}

Line(n, alg, c) == [path |-> n, digest |-> [alg |-> alg, of |-> c]]
List(alg) == <<Line(<<Etc>>, alg, "c7"), Line(<<Usr, Leaf>>, alg, "c1")>>
Measured1(t, n, alg, c, cert) ==
  [template |-> t, path |-> n, digest |-> [alg |-> alg, of |-> c], cert |-> cert]
ImaList(alg, t) ==
  <<Measured1(t, Aggregate, alg, "aggregate", FALSE), Measured1("ima-ng", <<Etc>>, alg, "c7", FALSE),
    Measured1("ima-buf", Ring, alg, "c1", TRUE), Measured1("ima-buf", <<Etc>>, alg, "c2", FALSE),
    Measured1("ima-buf", <<Leaf>>, alg, "c5", TRUE)>>
BasePolicy(list) ==
  [digests |-> list, excludes |-> {"x"}, keyrings |-> <<Line(Ring, "sha256", "c2")>>,
   ima_buf |-> <<Line(<<Etc>>, "sha256", "c3")>>, ignored_keyrings |-> {<<Leaf>>},
   verification_keys |-> {"k1"}]
Repo(remote, signature, filelists, unreachable) ==
  [remote |-> remote, signature |-> signature, filelists |-> filelists, unreachable |-> unreachable,
   packages |-> {List("sha256"), <<Line(<<Etc>>, "sha256", "c3")>>}]

\* Commands with every combination of sources but a repository, and commands with one.
AllOfCommands(None) ==
  LET file == [tool : {"create_runtime"}, algo : {None, "sha256", "sm3_256"},
               base : {None} \cup {BasePolicy(l) : l \in {List("sha256"), List("sm3_256"), List("sha1"), <<>>}},
               allowlist : {None, List("sha256"), List("sha1")},
               ima : {None, ImaList("sha256", "ima-ng"), ImaList("sm3_256", "ima-sig"), ImaList("sha1", "ima")},
               default_list : {FALSE}, rootfs : {None, <<>>, <<Usr>>},
               skip : {{}, {<<Usr, Etc>>}, {<<Usr>>}}, excludes : {{}}, ignored : {{}, {Ring}},
               get_keyrings : {TRUE}, get_ima_buf : {TRUE}, keys : {{"k2"}}, repo : {None}]
      repo == [tool : {"create_runtime", "create_policy"}, algo : {None},
               base : {None, BasePolicy(List("sha256"))}, allowlist : {None, List("sha256")},
               ima : {None, ImaList("sha256", "ima-ng")}, default_list : BOOLEAN, rootfs : {None},
               skip : {{}}, excludes : {{}, {"y"}}, ignored : {{}, {Ring}}, get_keyrings : BOOLEAN,
               get_ima_buf : BOOLEAN, keys : {{"k2"}},
               repo : {None, Repo(FALSE, "none", None, {}), Repo(FALSE, "bad", None, {}),
                       Repo(TRUE, "good", List("sha512"), {}), Repo(TRUE, "none", None, {List("sha256")})}]
  IN  file \cup repo
=============================================================================
