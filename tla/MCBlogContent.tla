--------------------------- MODULE MCBlogContent ---------------------------
(* BlogContent for TLC. *)
EXTENDS BlogContent, TLC
CONSTANTS a, b, m, i1, i2, x, y, c, d

WithTwin == a :> i1 @@ b :> i2 @@ m :> i1    \* a.md, b.md, a.mdx

Post(p, cat, ts, txt) == [path |-> p, category |-> cat, tags |-> ts, text |-> txt, draft |-> FALSE]
OneSeed == a :> Post(a, c, {x}, "old")
OneOrphan == m :> Post(m, d, {y}, "found")

SaveTo(o, p) == [op |-> "save", old |-> o, path |-> p, category |-> c, tags |-> {x}, text |-> "new", draft |-> FALSE]
SaveRequests == {SaveTo(None, a), SaveTo(a, a), SaveTo(a, b), SaveTo(None, m)}
PostRequests ==
    {[op |-> "delete", path |-> a], [op |-> "setDraft", path |-> a, draft |-> TRUE],
     [op |-> "import"], [op |-> "view"]}
NameRequests ==
    {[op |-> "renameTag", from |-> x, to |-> y, category |-> k] : k \in {None, c}} \cup
    {[op |-> "deleteTag", from |-> x, to |-> None, category |-> None]} \cup
    {[op |-> "renameCategory", from |-> c, to |-> d, category |-> None],
     [op |-> "deleteCategory", from |-> c, to |-> None, category |-> None],
     [op |-> "createTag", to |-> x, category |-> d], [op |-> "createCategory", to |-> d, category |-> None]}
AllRequests == SaveRequests \cup PostRequests \cup NameRequests

Symmetry == Permutations(Requests)
=============================================================================
