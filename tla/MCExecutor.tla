----------------------------- MODULE MCExecutor -----------------------------
(* Small instances of Executor for TLC. *)
EXTENDS Executor, TLC

CONSTANTS inbox, done, draft, final, f1, f2, a, b, c

AllDirs == {inbox, done}
AllNames == {draft, final}
There == (f1 :> <<inbox, draft>>) @@ (f2 :> Gone)

N(id, do, to) == [id |-> id, do |-> do, to |-> to]
T(id) == N(id, "trigger", None)

\* A chain that moves the file between two comments.
Chain == GraphOf(<<T("t"), N(a, "comment", None), N(b, "move", done), N(c, "comment", None)>>,
                 <<<<"t", a>>, <<a, b>>, <<b, c>>>>)
\* A fork that joins and leads back.
Cycle == GraphOf(<<T("t"), N(a, "copy", done), N(b, "rename", final), N(c, "tag", None)>>,
                 <<<<"t", a>>, <<"t", b>>, <<b, c>>, <<a, c>>, <<c, "t">>>>)
\* Two nodes with one id, of which the last is kept; two triggers; an edge to nothing;
\* a node that nothing leads to.
Odd == GraphOf(<<N(b, "llm", None), N(a, "other", None), T("t"), T(c), N(a, "comment", None)>>,
               <<<<"t", "x">>, <<"x", a>>, <<a, a>>>>)
\* A trigger without an id.
Nameless == GraphOf(<<T(NoId), N(a, "notify", None)>>, <<<<NoId, a>>>>)
\* A node of a kind that is not known.
Unknown == GraphOf(<<T("t"), N(a, "llm", None), N(b, "other", None)>>,
                   <<<<"t", a>>, <<a, b>>>>)

OnePathOrNone == {<<inbox, draft>>, None}
SomeGraphs == {Chain, Cycle, Odd, Nameless, Unknown}
SomeIds == {"t", "x", a, b, c}
=============================================================================
