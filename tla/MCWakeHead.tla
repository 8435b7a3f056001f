----------------------------- MODULE MCWakeHead -----------------------------
(* Two tickets, and events of every family the builder tells apart.        *)
EXTENDS WakeHead

CONSTANTS ta, tb

Ev(t, k, s, c) == [ticket |-> t, kind |-> k, says |-> s, cause |-> c]

\* A comment whose proposal may be settled, one with a text, an accept, a closure's cascade.
Four ==
    {Ev(ta, "comment_added", "pending", None), Ev(tb, "comment_added", "body", None),
     Ev(ta, "plan_accepted", "nothing", None), Ev(tb, "related_closed", "nothing", ta)}

Everything ==
    Four \cup {Ev(ta, "comment_added", "body", None), Ev(ta, "ticket_created", "body", None),
               Ev(ta, "ticket_closed", "nothing", None), Ev(tb, "ticket_sub_added", "nothing", None),
               Ev(tb, "dependency_closed", "nothing", ta)}

\* An accept, what is typed after it, and another ticket's comment.
Accepted ==
    {Ev(ta, "plan_accepted", "nothing", None), Ev(ta, "comment_added", "body", None),
     Ev(tb, "comment_added", "body", None)}

\* A proposal that may be settled, and another ticket's comment.
FewShapes ==
    {Ev(ta, "comment_added", "pending", None), Ev(tb, "comment_added", "body", None)}

Bound(shapes, events, moved, panics, lost) ==
    [shapes |-> shapes, events |-> events, moves |-> moved, alarms |-> panics, drops |-> lost]

AllCases ==
    {Bound(Everything, 2, 0, 0, 0), Bound(Four, 2, 1, 1, 0), Bound(Four, 2, 0, 0, 2),
     Bound(Accepted, 3, 0, 0, 0)}

StarvingCase == {Bound(FewShapes, 2, 0, 0, 0)}
=============================================================================
