------------------------------- MODULE MCTree -------------------------------
(* An instance of FileTree for TLC: trees with three directories, in which  *)
(* d/a is where most promises want something else than there is, and        *)
(* policies of one or two promises.                                         *)
EXTENDS FileTree

Path(names) == [n \in DOMAIN names |-> <<names[n]>>]
d == Path(<<"d">>)
da == Path(<<"d", "a">>)
db == Path(<<"d", "b">>)
e == Path(<<"e">>)
ea == Path(<<"e", "a">>)
es == Path(<<"e", "s">>)
esb == Path(<<"e", "s", "b">>)
Repos == Path(<<"v">>)

Folder(mode) == [kind |-> "dir", mode |-> mode, owner |-> "root", days |-> 3]
File(text, mode, owner, days) ==
    [kind |-> "file", text |-> text, mode |-> mode, owner |-> owner, days |-> days]
Symlink(to, owner) ==
    [kind |-> "link", to |-> to, relative |-> FALSE, owner |-> owner, days |-> 3]
rw == {"r", "w"}
Source ==
    d :> Folder(Defaults) @@ e :> Folder(Defaults) @@ Repos :> Folder(Defaults)
    @@ ea :> File("1", rw, "root", 3) @@ es :> Folder({"r"})
    @@ esb :> File("2", rw \cup {"s"}, "root", 3)
Trees ==
    {Source @@ t : t \in
       {<<>>, da :> File("3", rw, "user", 3) @@ db :> Symlink(ea, "root"),
        da :> Symlink(ea, "root"), da :> Symlink(db, "user"),
        da :> Folder(Defaults) @@ Append(da, <<"a">>) :> File("3", rw, "root", 0),
        da :> File("3", {"r"}, "root", 0) @@ db :> File("", rw, "root", 3),
        da :> File("3", rw, "root", 3) @@ Suffixed(da, "1") :> File("4", rw, "root", 3)
          @@ db :> Symlink(da, "root")}}

Link == [do |-> "links", at |-> da, to |-> ea, type |-> "s", nofile |-> FALSE,
         force |-> TRUE, only |-> {}, but |-> {}, recurse |-> 0, wild |-> {}]
Children0 == [Link EXCEPT !.do = "childlinks", !.at = d, !.to = e]
LinkPromises ==
    {Link, [Link EXCEPT !.force = FALSE], [Link EXCEPT !.type = "a", !.to = db],
     [Link EXCEPT !.type = "r"], [Link EXCEPT !.nofile = TRUE, !.to = db],
     [Link EXCEPT !.at = Append(da, <<"x">>)], Children0,
     [Children0 EXCEPT !.force = FALSE, !.but = {<<"a">>}],
     [Children0 EXCEPT !.recurse = 2]}

Check == [do |-> "files", at |-> da, action |-> "fixall", plus |-> {"x"},
          minus |-> {"s", "o"}, owners |-> <<"root">>, recurse |-> 0,
          checksum |-> FALSE, updates |-> FALSE, only |-> {}, but |-> {}, wild |-> {}]
Wild == [Check EXCEPT !.do = "expand", !.at = d, !.wild = {<<"a">>, <<"b">>}]
CheckPromises ==
    {[Check EXCEPT !.action = action] :
        action \in {"fixall", "create", "touch", "compress", "warnall", "alert"}}
    \cup {[Check EXCEPT !.at = at, !.action = action, !.recurse = r] :
            at \in {d, e}, r \in {1, 2}, action \in {"fixall", "fixplain", "fixdirs"}}
    \cup {[Check EXCEPT !.checksum = TRUE, !.updates = u] : u \in BOOLEAN}
    \cup {[Check EXCEPT !.do = "directories", !.at = at] : at \in {da, db}}
    \cup {[wrapper |-> w] @@ Wild : w \in {"files", "directories"}}

Pattern == [names |-> {<<"a">>, <<"b">>}, recurse |-> 1, age |-> 1, size |-> 0,
            rmdirs |-> "n", kill |-> FALSE, compress |-> FALSE]
DeadLinks == [Pattern EXCEPT !.kill = TRUE, !.names = {}]
Tidying == [do |-> "tidy", at |-> d, patterns |-> <<Pattern>>, maxrecurse |-> 1,
            but |-> {}, wild |-> {}]
TidyPromises ==
    {Tidying, [Tidying EXCEPT !.at = e], [Tidying EXCEPT !.do = "home", !.at = e],
     [Tidying EXCEPT !.patterns = <<[Pattern EXCEPT !.size = -1],
                                    [Pattern EXCEPT !.compress = TRUE]>>],
     [Tidying EXCEPT !.patterns = <<DeadLinks>>],
     [Tidying EXCEPT !.at = e, !.maxrecurse = 2,
        !.patterns = <<[Pattern EXCEPT !.rmdirs = "s", !.names = {<<"s">>, <<"b">>}]>>],
     [wrapper |-> "tidy"] @@ [Tidying EXCEPT !.do = "expand", !.at = <<>>,
                                             !.wild = {<<"d">>, <<"e">>}]}

Disabling == [do |-> "disable", at |-> da, type |-> "all", action |-> "d",
              rotate |-> 0, size |-> -1, wild |-> {}]
DisablePromises ==
    {[Disabling EXCEPT !.type = type, !.action = action] :
        type \in {"all", "file", "link"}, action \in {"d", "w"}}
    \cup {[Disabling EXCEPT !.rotate = n] : n \in {-1, 1, 2}}
    \cup {[Disabling EXCEPT !.size = 0, !.at = db]}

NoBackup == [do |-> "copy", at |-> da, backup |-> FALSE, wild |-> {}]
Combined ==
    {Link, Children0, Disabling, [Disabling EXCEPT !.rotate = 2],
     [Check EXCEPT !.action = "touch"], [Check EXCEPT !.do = "directories"],
     [Check EXCEPT !.at = d, !.recurse = 1, !.checksum = TRUE], Tidying}
Plans ==
    {<<p>> : p \in LinkPromises \cup CheckPromises \cup TidyPromises \cup DisablePromises}
    \cup {<<NoBackup, p>> : p \in {Link, Children0, Disabling}}
    \cup {<<[Tidying EXCEPT !.patterns = <<DeadLinks>>], p>> :
            p \in {Link, [Link EXCEPT !.nofile = TRUE, !.to = db]}}
    \cup {<<p, q>> : p \in Combined, q \in Combined}
UserDeeds ==
    {[at |-> da, node |-> node] :
        node \in {File("9", rw, "user", 0), Absent, Symlink(esb, "user")}}
Unfilled == {File("", {"x"}, "user", 0), Symlink(<<>>, "root"), Folder({"r"})}
=============================================================================
