---------------------------- MODULE Interactions ----------------------------
(***************************************************************************)
(* What accounts do to one status and its poll: favourites, boosts and     *)
(* votes, with the counters that the status, the poll and the accounts     *)
(* keep of them.  services/status.ts serves the local accounts,            *)
(* federation/inboxProcessors the activities of remote ones.               *)
(*                                                                         *)
(* One action is one statement or one batch of a request or a queue task;  *)
(* what it read before is in its task.  A task of the queue that is        *)
(* interrupted is delivered again from its first statement.                *)
(***************************************************************************)
EXTENDS Integers, FiniteSets

CONSTANTS
    Locals, Remotes,  \* accounts without and with a domain
    Ids,              \* ids of rows in favourites and of boosts in statuses
    None,             \* no row
    Options,          \* indices of the poll's options
    Workers,          \* requests and queue tasks that run at the same time
    Scenes,           \* sets of kinds of tasks: which of them a behaviour has
    MaxCrashes,       \* how many tasks may be interrupted
    MaxCount          \* no favourite or vote is started at this count

ASSUME InteractionsAssumption ==
    /\ Locals \cap Remotes = {} /\ None \notin Ids \cup Locals \cup Remotes
    /\ IsFiniteSet(Locals \cup Remotes) /\ IsFiniteSet(Ids)
    /\ IsFiniteSet(Options) /\ IsFiniteSet(Workers)
    /\ MaxCrashes \in Nat /\ MaxCount \in Nat

VARIABLES
    scene,       \* the kinds of tasks that run
    live,        \* the status: deleted_at IS NULL
    multiple,    \* the poll: may an account choose several options
    favourite,   \* favourites: the id of the row of an account
    boostBy,     \* statuses with reblog_of_id: the account of a boost
    boostLive,   \* boosts with deleted_at IS NULL
    votes,       \* poll_votes: pairs <<account, option>>
    favourites, reblogs,  \* statuses.favourites_count, reblogs_count
    posts,       \* accounts.statuses_count of local accounts, boosts only
    tally,       \* polls.options: votes_count of an option
    votesCount, votersCount,  \* polls.votes_count, voters_count
    task,        \* what each worker is doing
    crashes,     \* tasks interrupted so far
    drifted,     \* history: a counter moved without its row, or lost its move
    overwritten  \* history: options written that were not the ones read

Actors == Locals \cup Remotes

fixed    == <<scene, multiple>>
favVars  == <<favourite, favourites>>
boostVars == <<boostBy, boostLive, reblogs, posts>>
pollVars == <<votes, tally, votesCount, votersCount, overwritten>>
others   == <<fixed, live, crashes>>
vars     == <<fixed, live, favVars, boostVars, pollVars, task, crashes, drifted>>

ApiKinds   == {"favourite", "unfavourite", "reblog", "unreblog", "deleteBoost", "vote"}
QueueKinds == {"like", "undoLike", "announce", "undoAnnounce", "inDelete", "inVote"}
KindsOf(a) == IF a \in Locals THEN ApiKinds ELSE QueueKinds

Zero == [o \in Options |-> 0]
Idle == [kind |-> "idle"]
Tasks == [kind : ApiKinds \cup QueueKinds, actor : Actors, phase :
            {"queued", "checked", "read", "found", "absent", "inserted", "removed", "counted"},
          id : Ids \cup {None}, choices : SUBSET Options, seen : [Options -> Nat],
          voters : Nat]

TypeOK ==
    /\ scene \in Scenes
    /\ live \in BOOLEAN /\ multiple \in BOOLEAN
    /\ favourite \in [Actors -> Ids \cup {None}]
    /\ boostBy \in [Ids -> Actors \cup {None}]
    /\ boostLive \subseteq {b \in Ids : boostBy[b] # None}
    /\ votes \subseteq Actors \X Options
    /\ favourites \in Nat /\ reblogs \in Nat
    /\ posts \in [Locals -> Nat]
    /\ tally \in [Options -> Nat]
    /\ votesCount \in Nat /\ votersCount \in Nat
    /\ task \in [Workers -> Tasks \cup {Idle}]
    /\ crashes \in 0 .. MaxCrashes
    /\ drifted \in BOOLEAN /\ overwritten \in BOOLEAN

Init ==
    /\ scene \in Scenes
    /\ live = TRUE
    /\ multiple \in BOOLEAN /\ (multiple => "vote" \in scene)
    /\ favourite = [a \in Actors |-> None]
    /\ boostBy = [b \in Ids |-> None]
    /\ boostLive = {}
    /\ votes = {}
    /\ favourites = 0 /\ reblogs = 0
    /\ posts = [a \in Locals |-> 0]
    /\ tally = Zero
    /\ votesCount = 0 /\ votersCount = 0
    /\ task = [w \in Workers |-> Idle]
    /\ crashes = 0
    /\ drifted = FALSE /\ overwritten = FALSE

-----------------------------------------------------------------------------
(* Helpers. *)

LessUnfloored(n) == n - 1   \* a mistake

\* MAX(0, n - 1)
Less(n) == IF n = 0 THEN 0 ELSE n - 1

BoostsOf(a) == {b \in boostLive : boostBy[b] = a}

Busy(w) == task[w] # Idle
At(w, kinds, phase) == Busy(w) /\ task[w].kind \in kinds /\ task[w].phase = phase
On(w) == task[w].actor

Goto(w, phase) == task' = [task EXCEPT ![w].phase = phase]
See(w, phase, id) == task' = [task EXCEPT ![w].phase = phase, ![w].id = id]
End(w) == task' = [task EXCEPT ![w] = Idle]

\* A new ULID: no row has it and no task remembers it.
Fresh == {i \in Ids : /\ boostBy[i] = None
                      /\ \A a \in Actors : favourite[a] # i
                      /\ \A w \in Workers : Busy(w) => task[w].id # i}

NewTask(kind, a, phase, id, choices) ==
    [kind |-> kind, actor |-> a, phase |-> phase, id |-> id, choices |-> choices,
     seen |-> Zero, voters |-> 0]

\* The request or activity has passed its permission checks, among them that
\* the status is not deleted.  An Announce brings the id its boost will have.
Start(w, kind, a) ==
    /\ ~Busy(w) /\ kind \in (scene \cap KindsOf(a)) \ {"vote", "inVote"}
    /\ live \/ kind \in {"deleteBoost", "inDelete"}
    /\ kind \in {"favourite", "like"} => favourites < MaxCount
    /\ IF kind = "announce"
         THEN \E i \in Fresh : task' = [task EXCEPT ![w] = NewTask(kind, a, "checked", i, {})]
         ELSE task' = [task EXCEPT ![w] = NewTask(kind, a, "checked", None, {})]
    /\ UNCHANGED <<others, favVars, boostVars, pollVars, drifted>>

\* The author deletes the status: a guarded UPDATE.
DeleteStatus ==
    /\ "deleteStatus" \in scene /\ live
    /\ live' = FALSE
    /\ UNCHANGED <<fixed, favVars, boostVars, pollVars, task, crashes, drifted>>

-----------------------------------------------------------------------------
(* Favourites. *)

\* favouriteStatus looks for the row and ends if it is there.
FindFavourite(w) ==
    /\ At(w, {"favourite"}, "checked")
    /\ IF favourite[On(w)] # None THEN End(w) ELSE Goto(w, "absent")
    /\ UNCHANGED <<others, favVars, boostVars, pollVars, drifted>>

\* Its batch inserts and counts.  UNIQUE(account_id, status_id) refuses a second
\* row and with it the count: the request fails.
AddFavourite(w) ==
    /\ At(w, {"favourite"}, "absent")
    /\ IF favourite[On(w)] # None
         THEN UNCHANGED favVars
         ELSE /\ \E i \in Fresh : favourite' = [favourite EXCEPT ![On(w)] = i]
              /\ favourites' = favourites + 1
    /\ End(w)
    /\ UNCHANGED <<others, boostVars, pollVars, drifted>>

SeekFavourite(w) ==
    /\ At(w, {"unfavourite"}, "checked")
    /\ IF favourite[On(w)] = None THEN End(w) ELSE See(w, "found", favourite[On(w)])
    /\ UNCHANGED <<others, favVars, boostVars, pollVars, drifted>>

\* unfavouriteStatus deletes the row it read and counts down in one batch,
\* whether or not the row is still there.
DropFavourite(w) ==
    LET hit == favourite[On(w)] = task[w].id IN
    /\ At(w, {"unfavourite"}, "found")
    /\ favourite' = IF hit THEN [favourite EXCEPT ![On(w)] = None] ELSE favourite
    /\ favourites' = Less(favourites)
    /\ drifted' = (drifted \/ ~hit \/ favourites = 0)
    /\ End(w)
    /\ UNCHANGED <<others, boostVars, pollVars>>

\* Like inserts first; a duplicate ends it, also when it is delivered again.
InsertLike(w) ==
    /\ At(w, {"like"}, "checked")
    /\ IF favourite[On(w)] # None
         THEN End(w) /\ UNCHANGED favourite
         ELSE /\ \E i \in Fresh : favourite' = [favourite EXCEPT ![On(w)] = i]
              /\ Goto(w, "inserted")
    /\ UNCHANGED <<others, favourites, boostVars, pollVars, drifted>>

CountLike(w) ==
    /\ At(w, {"like"}, "inserted")
    /\ favourites' = favourites + 1
    /\ End(w)
    /\ UNCHANGED <<others, favourite, boostVars, pollVars, drifted>>

\* Undo finds the row by the uri of the Like, or goes by account and status.
FindLike(w) ==
    /\ At(w, {"undoLike"}, "checked")
    /\ \E i \in {favourite[On(w)], None} : See(w, "found", i)
    /\ UNCHANGED <<others, favVars, boostVars, pollVars, drifted>>

DeleteLikeUnseen(w) ==   \* a mistake: the number of deleted rows is not looked at
    /\ At(w, {"undoLike"}, "found")
    /\ favourite' = [favourite EXCEPT ![On(w)] = None]
    /\ Goto(w, "removed")
    /\ UNCHANGED <<others, favourites, boostVars, pollVars, drifted>>

\* It counts down only if the DELETE hit.
DeleteLike(w) ==
    /\ At(w, {"undoLike"}, "found")
    /\ IF favourite[On(w)] # None /\ task[w].id \in {None, favourite[On(w)]}
         THEN /\ favourite' = [favourite EXCEPT ![On(w)] = None]
              /\ Goto(w, "removed")
         ELSE End(w) /\ UNCHANGED favourite
    /\ UNCHANGED <<others, favourites, boostVars, pollVars, drifted>>

UncountLike(w) ==
    /\ At(w, {"undoLike"}, "removed")
    /\ favourites' = Less(favourites)
    /\ drifted' = (drifted \/ favourites = 0)
    /\ End(w)
    /\ UNCHANGED <<others, favourite, boostVars, pollVars>>

-----------------------------------------------------------------------------
(* Boosts. *)

\* reblogStatus and Announce end when there is a boost by the account.
FindBoost(w) ==
    /\ At(w, {"reblog", "announce"}, "checked")
    /\ IF BoostsOf(On(w)) # {} THEN End(w) ELSE Goto(w, "absent")
    /\ UNCHANGED <<others, favVars, boostVars, pollVars, drifted>>

\* INSERT ... SELECT: only while the status can be boosted and no boost of the
\* account is live.
InsertBoostUnguarded(w) ==   \* a mistake: the earlier reading is trusted
    /\ At(w, {"reblog"}, "absent")
    /\ \E b \in Fresh :
         /\ boostBy' = [boostBy EXCEPT ![b] = On(w)]
         /\ boostLive' = boostLive \cup {b}
         /\ See(w, "inserted", b)
    /\ UNCHANGED <<others, favVars, reblogs, posts, pollVars, drifted>>

InsertBoost(w) ==
    /\ At(w, {"reblog"}, "absent")
    /\ IF live /\ BoostsOf(On(w)) = {}
         THEN \E b \in Fresh :
                /\ boostBy' = [boostBy EXCEPT ![b] = On(w)]
                /\ boostLive' = boostLive \cup {b}
                /\ See(w, "inserted", b)
         ELSE End(w) /\ UNCHANGED <<boostBy, boostLive>>
    /\ UNCHANGED <<others, favVars, reblogs, posts, pollVars, drifted>>

\* Announce inserts under the id of the activity; statuses.uri is UNIQUE, so one
\* that was inserted before, live or not, throws and the queue tries again.
InsertAnnounce(w) ==
    LET b == task[w].id IN
    /\ At(w, {"announce"}, "absent")
    /\ IF boostBy[b] = None
         THEN /\ boostBy' = [boostBy EXCEPT ![b] = On(w)]
              /\ boostLive' = boostLive \cup {b}
              /\ Goto(w, "inserted")
         ELSE Goto(w, "queued") /\ UNCHANGED <<boostBy, boostLive>>
    /\ UNCHANGED <<others, favVars, reblogs, posts, pollVars, drifted>>

\* reblogs_count, and for a local account statuses_count in the same batch.
CountBoost(w) ==
    /\ At(w, {"reblog", "announce"}, "inserted")
    /\ reblogs' = reblogs + 1
    /\ posts' = [a \in Locals |-> IF a = On(w) THEN posts[a] + 1 ELSE posts[a]]
    /\ End(w)
    /\ UNCHANGED <<others, favVars, boostBy, boostLive, pollVars, drifted>>

\* unreblogStatus, deleteStatus of a boost, Undo and Delete look for the boost.
SeekBoost(w) ==
    /\ At(w, {"unreblog", "deleteBoost", "undoAnnounce", "inDelete"}, "checked")
    /\ IF BoostsOf(On(w)) = {} THEN End(w)
       ELSE \E b \in BoostsOf(On(w)) : See(w, "found", b)
    /\ UNCHANGED <<others, favVars, boostVars, pollVars, drifted>>

\* The UPDATE asks that the boost is not deleted yet, and what it hit decides
\* whether to count.  Delete does neither.
RemoveBoost(w) ==
    LET hit == task[w].id \in boostLive IN
    /\ At(w, {"unreblog", "deleteBoost", "undoAnnounce", "inDelete"}, "found")
    /\ boostLive' = boostLive \ {task[w].id}
    /\ IF hit \/ task[w].kind = "inDelete" THEN Goto(w, "removed") ELSE End(w)
    /\ drifted' = (drifted \/ (~hit /\ task[w].kind = "inDelete"))
    /\ UNCHANGED <<others, favVars, boostBy, reblogs, posts, pollVars>>

UncountBoost(w) ==
    /\ At(w, {"unreblog", "deleteBoost", "undoAnnounce", "inDelete"}, "removed")
    /\ reblogs' = Less(reblogs)
    /\ posts' = [a \in Locals |-> IF a = On(w) THEN Less(posts[a]) ELSE posts[a]]
    /\ drifted' = (drifted \/ reblogs = 0 \/ (On(w) \in Locals /\ posts[On(w)] = 0))
    /\ End(w)
    /\ UNCHANGED <<others, favVars, boostBy, boostLive, pollVars>>

-----------------------------------------------------------------------------
(* The poll. *)

VotersByRow == Cardinality(votes)   \* a mistake: COUNT without DISTINCT

\* COUNT(DISTINCT account_id)
VotersNow == Cardinality({v[1] : v \in votes})

\* votePoll reads the row, options and all, before it checks who votes; Create
\* of a vote checks the voter first.  A remote vote names one option.
StartVote(w, kind, a, C) ==
    /\ ~Busy(w) /\ kind \in (scene \cap KindsOf(a)) \cap {"vote", "inVote"}
    /\ live /\ votesCount + Cardinality(C) <= MaxCount
    /\ C # {} /\ (Cardinality(C) > 1 => multiple /\ kind = "vote")
    /\ task' = [task EXCEPT ![w] = [NewTask(kind, a, "read", None, C) EXCEPT !.seen = tally]]
    /\ UNCHANGED <<others, favVars, boostVars, pollVars, drifted>>

\* An earlier vote of the account ends it; a remote vote looks only if the poll
\* allows one choice.
FindVote(w) ==
    /\ At(w, {"vote", "inVote"}, "read")
    /\ IF \/ (\E o \in Options : <<On(w), o>> \in votes) /\ (task[w].kind = "vote" \/ ~multiple)
          \/ ~live /\ task[w].kind = "vote"
         THEN End(w) ELSE Goto(w, "absent")
    /\ UNCHANGED <<others, favVars, boostVars, pollVars, drifted>>

\* Option o counts the votes <<o, 1>>, <<o, 2>>, ...
Counted(t) == UNION {{o} \X (1 .. t[o]) : o \in Options}

Raised(w) == [o \in Options |-> task[w].seen[o] + (IF o \in task[w].choices THEN 1 ELSE 0)]
Chosen(w) == {On(w)} \X task[w].choices

\* The batch of votePoll: the rows, the options as read plus one, the counters
\* as they are now plus one.  UNIQUE refuses a row, and then the whole batch.
Vote(w) ==
    /\ At(w, {"vote"}, "absent")
    /\ IF Chosen(w) \cap votes # {}
         THEN UNCHANGED <<pollVars, drifted>>
         ELSE /\ votes' = votes \cup Chosen(w)
              /\ tally' = Raised(w)
              /\ votesCount' = votesCount + Cardinality(task[w].choices)
              /\ votersCount' = votersCount + 1
              /\ overwritten' = (overwritten \/ tally # task[w].seen)
              /\ drifted' = (drifted \/ \E v \in votes : v[1] = On(w))
    /\ End(w)
    /\ UNCHANGED <<others, favVars, boostVars>>

\* A remote vote is three statements: the row, ...
InsertVoteIgnoring(w) ==   \* a mistake: INSERT OR IGNORE
    /\ At(w, {"inVote"}, "absent")
    /\ votes' = votes \cup Chosen(w)
    /\ Goto(w, "inserted")
    /\ UNCHANGED <<others, favVars, boostVars, tally, votesCount, votersCount, overwritten, drifted>>

InsertVote(w) ==
    /\ At(w, {"inVote"}, "absent")
    /\ IF Chosen(w) \cap votes # {}
         THEN End(w) /\ UNCHANGED votes
         ELSE votes' = votes \cup Chosen(w) /\ Goto(w, "inserted")
    /\ UNCHANGED <<others, favVars, boostVars, tally, votesCount, votersCount, overwritten, drifted>>

\* ... the number of voters, ...
CountVoters(w) ==
    /\ At(w, {"inVote"}, "inserted")
    /\ task' = [task EXCEPT ![w].phase = "counted", ![w].voters = VotersNow]
    /\ UNCHANGED <<others, favVars, boostVars, pollVars, drifted>>

\* ... and the options as read plus one, their sum, and the number of voters.
WriteVote(w) ==
    /\ At(w, {"inVote"}, "counted")
    /\ tally' = Raised(w)
    /\ votesCount' = Cardinality(Counted(Raised(w)))
    /\ votersCount' = task[w].voters
    /\ overwritten' = (overwritten \/ tally # task[w].seen)
    /\ drifted' = (drifted \/ task[w].voters # VotersNow)
    /\ End(w)
    /\ UNCHANGED <<others, favVars, boostVars, votes>>

-----------------------------------------------------------------------------
(* Interruptions. *)

\* A statement throws or the worker dies.  What it had still to count is lost,
\* for the second delivery finds the row, or none.
Crash(w) ==
    /\ Busy(w) /\ task[w].phase # "queued" /\ crashes < MaxCrashes
    /\ crashes' = crashes + 1
    /\ IF task[w].kind \in QueueKinds THEN Goto(w, "queued") ELSE End(w)
    /\ drifted' = (drifted \/ task[w].phase \in {"inserted", "removed", "counted"})
    /\ UNCHANGED <<fixed, live, favVars, boostVars, pollVars>>

\* Delivered again: the permission checks first.
Redeliver(w) ==
    /\ Busy(w) /\ task[w].phase = "queued"
    /\ \/ ~live /\ task[w].kind # "inDelete" /\ End(w)
       \/ /\ live /\ task[w].kind = "inVote"
          /\ task' = [task EXCEPT ![w].phase = "read", ![w].seen = tally]
       \/ /\ task[w].kind # "inVote" /\ (live \/ task[w].kind = "inDelete")
          /\ Goto(w, "checked")
    /\ UNCHANGED <<others, favVars, boostVars, pollVars, drifted>>

-----------------------------------------------------------------------------
FavouriteStep(w) ==
    \/ FindFavourite(w) \/ AddFavourite(w) \/ SeekFavourite(w) \/ DropFavourite(w)
    \/ InsertLike(w) \/ CountLike(w) \/ FindLike(w) \/ DeleteLike(w) \/ UncountLike(w)

BoostStep(w) ==
    \/ FindBoost(w) \/ InsertBoost(w) \/ InsertAnnounce(w) \/ CountBoost(w)
    \/ SeekBoost(w) \/ RemoveBoost(w) \/ UncountBoost(w)

PollStep(w) ==
    \/ FindVote(w) \/ Vote(w) \/ InsertVote(w) \/ CountVoters(w) \/ WriteVote(w)

Next ==
    \/ DeleteStatus
    \/ \E w \in Workers :
         \/ \E kind \in scene, a \in Actors :
              \/ Start(w, kind, a)
              \/ \E C \in SUBSET Options : StartVote(w, kind, a, C)
         \/ FavouriteStep(w) \/ BoostStep(w) \/ PollStep(w)
         \/ Crash(w) \/ Redeliver(w)

Spec == Init /\ [][Next]_vars

-----------------------------------------------------------------------------
(* Properties. *)

Pending(kinds, phase) == {w \in Workers : At(w, kinds, phase)}

\* favourites_count, reblogs_count and statuses_count are the numbers of rows,
\* give or take what tasks in flight still have to count, as long as no removal
\* met a row that was gone, no counter was held at zero and no task was
\* interrupted while it owed a count.
CountersMatchRows ==
    ~drifted =>
      /\ favourites + Cardinality(Pending({"like"}, "inserted"))
           = Cardinality({a \in Actors : favourite[a] # None})
             + Cardinality(Pending({"undoLike"}, "removed"))
      /\ reblogs + Cardinality(Pending({"reblog", "announce"}, "inserted"))
           = Cardinality(boostLive)
             + Cardinality(Pending({"unreblog", "deleteBoost", "undoAnnounce", "inDelete"}, "removed"))
      /\ \A a \in Locals :
           posts[a] + Cardinality({w \in Pending({"reblog"}, "inserted") : On(w) = a})
             = Cardinality(BoostsOf(a))
               + Cardinality({w \in Pending({"unreblog", "deleteBoost"}, "removed") : On(w) = a})

\* However its requests interleave with each other, with deletions and with
\* removals, a local account never has two live boosts of a status.
OneLocalBoost == \A a \in Locals : Cardinality(BoostsOf(a)) <= 1

RowsFor(o) == Cardinality({a \in Actors : <<a, o>> \in votes})

\* No vote is shown that nobody cast: an option never counts more votes than
\* poll_votes has rows for it.  Overlapping votes can lose one, never add one.
NoPhantomVotes == \A o \in Options : tally[o] <= RowsFor(o)

\* Votes that do not overlap are all counted: unless one wrote options that had
\* changed since it read them, or a task was interrupted or counted an account
\* twice, the options add up to the rows, votes_count to the options, and
\* voters_count is the number of accounts that voted.
VotesAreCounted ==
    ~drifted /\ ~overwritten /\ (\A w \in Workers : ~At(w, {"inVote"}, "inserted") /\ ~At(w, {"inVote"}, "counted")) =>
      /\ \A o \in Options : tally[o] = RowsFor(o)
      /\ votesCount = Cardinality(votes)
      /\ votersCount = Cardinality({a \in Actors : \E o \in Options : <<a, o>> \in votes})
=============================================================================
