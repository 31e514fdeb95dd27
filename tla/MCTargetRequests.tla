--------------------------- MODULE MCTargetRequests ---------------------------
(* TargetRequests on a few submissions of a narrow and of a wide wish. *)
EXTENDS TargetRequests, TLC

Wish(comments, all, videos, limit) ==
    [includeComments |-> comments, collectAllComments |-> all, collectAllVideos |-> videos,
     limit |-> limit, commentPages |-> 1]

\* One video; two videos with the first page of their comments; with all of them.
Plain == Wish(FALSE, FALSE, FALSE, 1)
Discussed == Wish(TRUE, FALSE, FALSE, 2)
DiscussedDeep == Wish(TRUE, TRUE, FALSE, 2)

\* Every video of the channel, and every video with comments.
Whole == Wish(FALSE, FALSE, TRUE, 1)
WholeDiscussed == Wish(TRUE, FALSE, TRUE, 1)

BoundedWishes == {Plain, Discussed}
DeepWishes == {Discussed, DiscussedDeep}
WholeWishes == {Whole, WholeDiscussed}

NarrowJob == {[includeComments |-> FALSE, maxVideos |-> 1, commentPages |-> 0]}

Symmetry == Permutations(Request)

==============================================================================
