--------------------------- MODULE MCInteractions ---------------------------
(* Instances of Interactions and Authoring for TLC. *)
EXTENDS Authoring, TLC

CONSTANTS l1, l2, r1, i1, i2, i3, p1, p2, w1, w2, m1, m2, t1, t2, tag, near, far

\* Kinds of tasks that share a counter or a row run together.
AllScenes ==
  {{"deleteStatus", "favourite", "unfavourite", "like", "undoLike"},
   {"deleteStatus", "reblog", "unreblog", "deleteBoost", "announce", "undoAnnounce", "inDelete"},
   {"vote", "inVote"},
   {"deleteStatus", "reply", "deleteReply", "inReply", "inDeleteReply"},
   {"reply", "edit"},
   {"media", "reply", "edit"}}

\* One text names a hashtag and a local account, the other a remote account.
Named == (t1 :> {tag, near}) @@ (t2 :> {far})

Interchangeable ==
  Permutations(Ids) \cup Permutations(Workers) \cup Permutations(Locals)
    \cup Permutations(Replies)
=============================================================================
