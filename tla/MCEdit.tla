------------------------------- MODULE MCEdit -------------------------------
(* An instance of Edit for TLC: short sequences of all actions, groups and  *)
(* loops around some of them, and the actions that ask for a state of the   *)
(* file.                                                                    *)
EXTENDS Edit

a == [hash |-> 0, body |-> "a"]
b == [hash |-> 0, body |-> "b"]
c == [hash |-> 1, body |-> "a"]
No == [hash |-> 0, body |-> "none"]
Do(code, on) == [code |-> code, on |-> on, excluded |-> FALSE]
ReplaceBy(on, with) == [code |-> "ReplaceAll", on |-> on, excluded |-> FALSE,
                        with |-> with]

Actions ==
    {Do("CatchAbort", {}), Do("ResetSearch", 1), Do("ResetSearch", 2),
     Do("GotoLastLine", {}), Do("RunScript", {}), Do("EmptyEntireFilePlease", {}),
     Do("EndLoop", {}), Do("SetLine", b), Do("InsertFile", <<a, b>>),
     Do("AppendLinesFromFile", <<b>>), ReplaceBy({a, c}, b), ReplaceBy({a}, a),
     [Do("DeleteLines", {a}) EXCEPT !.excluded = TRUE]}
    \cup {Do(code, a) : code \in {"Append", "AppendIfNoSuchLine", "Prepend",
            "PrependIfNoSuchLine", "InsertLine", "ReplaceLineWith"}}
    \cup {Do("AppendToLine", "b")}
    \cup {Do(code, {a, c}) : code \in {"DeleteLines", "DeleteAfter",
            "DeleteFileItems", "CommentLines", "UnCommentLines"}}
    \cup {Do(code, {b}) : code \in {"AppendIfNoLineMatching", "Break",
            "DeleteToLineMatching", "CommentToLineMatching",
            "LocateLineMatching", "AbortAtLineMatching",
            "ReplaceLinesMatchingField"}}
    \cup {Do("ReplaceLinesMatchingField", {a, b})}
    \cup {Do(code, n) : n \in {1, 2}, code \in {"DeleteNLines", "CommentNLines",
            "UnCommentNLines"}}
    \cup {Do("IncrementPointer", n) : n \in {-1, 1}}
Inner == {p \in Actions : p.code \in {"Append", "LocateLineMatching", "DeleteLines",
            "CommentLines", "DeleteNLines", "InsertLine", "Break"}}
Few == {p \in Inner : p.code \in {"LocateLineMatching", "DeleteLines",
            "CommentLines", "InsertLine"}}
\* Second actions that go on where the first one has left the cursor, or look at
\* what it has left.
Second == {p \in Actions : p.code \notin {"CatchAbort", "EndLoop", "GotoLastLine", "SetLine",
             "Append", "Prepend", "PrependIfNoSuchLine", "AppendLinesFromFile", "ResetSearch",
             "DeleteFileItems", "CommentNLines", "UnCommentNLines", "UnCommentLines"}}
Placing == {p \in Actions : p.code \in {"LocateLineMatching", "IncrementPointer", "ResetSearch",
              "GotoLastLine", "DeleteNLines", "DeleteToLineMatching", "InsertFile", "Break",
              "CatchAbort", "EmptyEntireFilePlease", "RunScript", "ReplaceLinesMatchingField"}}
Groups == {Do(code, {a}) : code \in {"GroupIfNoMatch", "GroupIfNoLineMatching",
             "GroupIfFileIsNewer", "GroupIfDefined"}} \cup {Do("GroupIfNoSuchLine", a)}
EndGroup == Do("EndGroup", {})
ForEach == Do("ForEachLineIn", {})

KeepingActions ==
    {<<p>> : p \in {q \in Actions : q.code \in
       {"DeleteLines", "AppendIfNoSuchLine", "PrependIfNoSuchLine", "ReplaceAll",
        "AppendLinesFromFile", "CommentLines", "UnCommentLines",
        "DeleteToLineMatching"}}}
    \cup {<<Do("SetLine", b), p>> : p \in {Do("AppendIfNoLineMatching", {b}),
                                           Do("ReplaceLinesMatchingField", {a, b})}}
    \cup {<<Do("GroupIfNoSuchLine", a), Do("Append", a), EndGroup>>,
          <<ForEach, Do("AppendIfNoLineMatching", {b}), Do("EndLoop", {})>>}
Programs ==
    {<<>>} \cup KeepingActions \cup {<<p>> : p \in Actions} \cup (Actions \X Second)
    \cup {<<g, p, EndGroup, q>> : g \in Groups, p \in Inner, q \in Inner}
    \cup {<<g, h, p, EndGroup, q, EndGroup>> :
             g \in Groups, h \in Groups, p \in Few, q \in Few}
    \cup {<<ForEach, p, q, Do("EndLoop", {})>> :
             p \in Actions \ {Do("EndLoop", {})}, q \in Few}
    \cup {<<p, q, r>> : p \in Placing, q \in Few, r \in Few}
Files == {<<>>, <<a>>, <<c, a>>, <<a, b>>, <<b, a>>, <<a, a>>}
LeftByScript == {<<>>, <<b, a>>}
LinesOfLoop == <<b, a>>
=============================================================================
