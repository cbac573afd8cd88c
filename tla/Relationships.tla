--------------------------- MODULE Relationships ---------------------------
(***************************************************************************)
(* Follows, follow requests, blocks and the two counters of every account: *)
(* the requests of services/account.ts and the activities that             *)
(* federation/inboxProcessors handles, statement by statement.             *)
(*                                                                         *)
(* A request of the API and an activity taken from the queue run as the    *)
(* task of a worker.  One action is one statement or one batch; between    *)
(* two of them every other task may run.  A task of the queue that is      *)
(* interrupted is delivered again and starts over; a request is not.       *)
(***************************************************************************)
EXTENDS Naturals, FiniteSets

CONSTANTS
    Accounts,   \* accounts.id
    Ids,        \* row ids, the ULIDs of follows and follow_requests
    None,       \* no row
    Workers,    \* requests and queue tasks that run at the same time
    MaxCount,   \* no follow of a pair is started once one of its counters is this
    MaxCrashes  \* how many tasks may be interrupted

ASSUME RelationshipsAssumption ==
    /\ IsFiniteSet(Accounts) /\ IsFiniteSet(Workers)
    /\ None \notin Ids
    /\ MaxCount \in Nat
    /\ MaxCrashes \in Nat

VARIABLES
    remote,     \* accounts with a domain
    approves,   \* local accounts with locked or manually_approves_followers
    follow,     \* follows: the id of the row of a pair <<follower, followed>>
    request,    \* follow_requests: likewise
    blocks,     \* blocks: pairs <<blocker, blocked>>
    followers,  \* accounts.followers_count
    following,  \* accounts.following_count
    untold,     \* pairs accepted at once whose Accept(Follow) is not sent yet
    task,       \* what each worker is doing
    crashes,    \* tasks interrupted so far
    drifted,    \* history: a counter has been changed without its row
    overtaken   \* history: pairs whose block met a follow on its way

rows  == <<follow, request, blocks>>
counts == <<followers, following>>
history == <<drifted, overtaken>>
vars  == <<remote, approves, rows, counts, untold, task, crashes, history>>

Pairs == {p \in Accounts \X Accounts : p[1] # p[2]}
Reverse(p) == <<p[2], p[1]>>
Rows == Ids \cup {None}

ApiKinds   == {"follow", "unfollow", "dropFollower"}
QueueKinds == {"import", "inFollow", "inAccept", "inReject", "inUndo", "inBlock"}
Phases == {"queued", "checked", "noFollow", "noRequest", "sawFollow", "sawRequest",
           "seekRequest", "countBoth", "count1", "count2", "tell", "uncount",
           "forward", "forward1", "forward2", "reverse", "reverse1", "reverse2",
           "requests"}

Tasks == [kind : ApiKinds \cup QueueKinds, pair : Pairs, phase : Phases, seen : Rows]
Idle  == [kind |-> "idle"]

TypeOK ==
    /\ remote \subseteq Accounts
    /\ approves \subseteq Accounts \ remote
    /\ follow \in [Pairs -> Rows]
    /\ request \in [Pairs -> Rows]
    /\ blocks \subseteq Pairs
    /\ followers \in [Accounts -> Nat]
    /\ following \in [Accounts -> Nat]
    /\ untold \subseteq Pairs
    /\ task \in [Workers -> Tasks \cup {Idle}]
    /\ crashes \in 0 .. MaxCrashes
    /\ drifted \in BOOLEAN
    /\ overtaken \subseteq Pairs

Init ==
    /\ remote \in SUBSET Accounts
    /\ approves \in SUBSET (Accounts \ remote)
    /\ follow = [p \in Pairs |-> None]
    /\ request = [p \in Pairs |-> None]
    /\ blocks = {}
    /\ followers = [a \in Accounts |-> 0]
    /\ following = [a \in Accounts |-> 0]
    /\ untold = {}
    /\ task = [w \in Workers |-> Idle]
    /\ crashes = 0
    /\ drifted = FALSE
    /\ overtaken = {}

-----------------------------------------------------------------------------
(* Helpers. *)

Local(a) == a \notin remote

\* canFollowAccount, canReceiveFederatedFollow and canProcessFollowRequest:
\* neither account blocks the other.
BlockedPair(p) == p \in blocks \/ Reverse(p) \in blocks

\* createFollow, import: a remote or approving target answers itself.
NeedsAnswer(p) == p[2] \in remote \/ p[2] \in approves

CountsBounded(p) == followers[p[2]] < MaxCount /\ following[p[1]] < MaxCount

Do(w, kind) == task[w].kind = kind
At(w, kinds, phase) == /\ task[w].kind \in kinds
                       /\ task[w].phase = phase
On(w) == task[w].pair

Goto(w, phase) == task' = [task EXCEPT ![w].phase = phase]
End(w) == task' = [task EXCEPT ![w] = Idle]

\* The id of a new row: one that no task remembers.  The code never reuses an id;
\* an id nobody remembers is as good as new.
Fresh(p) == Ids \ {task[w].seen : w \in {v \in Workers : task[v] # Idle /\ On(v) = p}}

\* MAX(0, n - 1)
Less(n) == IF n = 0 THEN 0 ELSE n - 1

\* Both counters of the pairs in P go up, or down.
CountUp(P) ==
    /\ followers' = [a \in Accounts |-> IF \E p \in P : p[2] = a THEN followers[a] + 1 ELSE followers[a]]
    /\ following' = [a \in Accounts |-> IF \E p \in P : p[1] = a THEN following[a] + 1 ELSE following[a]]
CountDown(P) ==
    /\ followers' = [a \in Accounts |-> IF \E p \in P : p[2] = a THEN Less(followers[a]) ELSE followers[a]]
    /\ following' = [a \in Accounts |-> IF \E p \in P : p[1] = a THEN Less(following[a]) ELSE following[a]]

\* A counter that should go down is zero already.
Floored(P) == \E p \in P : followers[p[2]] = 0 \/ following[p[1]] = 0

\* Tasks that have passed their check of the blocks and not inserted yet.
OnItsWay(p) ==
    \E w \in Workers :
        /\ task[w] # Idle
        /\ task[w].kind \in {"follow", "import", "inFollow"}
        /\ task[w].phase \in {"checked", "noFollow", "noRequest"}
        /\ On(w) = p

\* A follow that is there, or may come although a block has been placed.
Coming(p) == OnItsWay(p) \/ request[p] # None \/ follow[p] # None

Start(w, kind, p, phase, seen) ==
    /\ task[w] = Idle
    /\ task' = [task EXCEPT ![w] = [kind |-> kind, pair |-> p, phase |-> phase, seen |-> seen]]
    /\ UNCHANGED <<remote, approves, rows, counts, untold, crashes, history>>

-----------------------------------------------------------------------------
(* Follow: createFollow and the import of a follow. *)

\* POST follow: assertAccountFollowable; or an import item with the same check.
StartFollow(w, p) ==
    /\ Local(p[1])
    /\ CountsBounded(p)
    /\ ~BlockedPair(p)
    /\ \E kind \in {"follow", "import"} : Start(w, kind, p, "checked", None)

\* The follow, then the request of the pair are read; either ends the task.
FindFollow(w) ==
    /\ At(w, {"follow", "import"}, "checked")
    /\ IF follow[On(w)] # None THEN End(w) ELSE Goto(w, "noFollow")
    /\ UNCHANGED <<remote, approves, rows, counts, untold, crashes, history>>

FindRequest(w) ==
    /\ At(w, {"follow", "import"}, "noFollow")
    /\ IF request[On(w)] # None THEN End(w) ELSE Goto(w, "noRequest")
    /\ UNCHANGED <<remote, approves, rows, counts, untold, crashes, history>>

\* UNIQUE(account_id, target_account_id): the insertion fails, the request with
\* it; the import ignores it.
InsertRefused(w) ==
    /\ At(w, {"follow", "import"}, "noRequest")
    /\ IF NeedsAnswer(On(w)) THEN request[On(w)] # None ELSE follow[On(w)] # None
    /\ End(w)
    /\ UNCHANGED <<remote, approves, rows, counts, untold, crashes, history>>

InsertRequest(w) ==
    /\ At(w, {"follow", "import"}, "noRequest")
    /\ NeedsAnswer(On(w))
    /\ request[On(w)] = None
    /\ \E id \in Fresh(On(w)) : request' = [request EXCEPT ![On(w)] = id]
    /\ End(w)
    /\ UNCHANGED <<remote, approves, follow, blocks, counts, untold, crashes, history>>

\* The API raises both counters in the batch of the insertion, the import in a
\* batch of its own.
InsertFollow(w) ==
    LET p == On(w) IN
    /\ At(w, {"follow", "import"}, "noRequest")
    /\ ~NeedsAnswer(p)
    /\ follow[p] = None
    /\ \E id \in Fresh(p) : follow' = [follow EXCEPT ![p] = id]
    /\ IF Do(w, "follow") THEN CountUp({p}) /\ End(w)
                          ELSE UNCHANGED counts /\ Goto(w, "countBoth")
    /\ UNCHANGED <<remote, approves, request, blocks, untold, crashes, history>>

CountImport(w) ==
    /\ At(w, {"import"}, "countBoth")
    /\ CountUp({On(w)})
    /\ End(w)
    /\ UNCHANGED <<remote, approves, rows, untold, crashes, history>>

-----------------------------------------------------------------------------
(* Unfollow and remove follower: removeFollow, removeFollower. *)

StartUnfollow(w, p) ==
    /\ Local(p[1])
    /\ IF follow[p] # None THEN Start(w, "unfollow", p, "sawFollow", follow[p])
                           ELSE Start(w, "unfollow", p, "seekRequest", None)

\* The owner p[2] removes the follower p[1].
StartDropFollower(w, p) ==
    /\ Local(p[2])
    /\ follow[p] # None
    /\ Start(w, "dropFollower", p, "sawFollow", follow[p])

\* The row is deleted by the id that was read; the counters go down in any case.
RemoveSeenFollow(w) ==
    LET p == On(w)
        found == follow[p] = task[w].seen IN
    /\ At(w, {"unfollow", "dropFollower"}, "sawFollow")
    /\ follow' = IF found THEN [follow EXCEPT ![p] = None] ELSE follow
    /\ untold' = IF found THEN untold \ {p} ELSE untold
    /\ CountDown({p})
    /\ drifted' = (drifted \/ ~found \/ Floored({p}))
    /\ IF Do(w, "unfollow")
         THEN task' = [task EXCEPT ![w].phase = "seekRequest", ![w].seen = None]
         ELSE End(w)
    /\ UNCHANGED <<remote, approves, request, blocks, crashes, overtaken>>

SeekRequest(w) ==
    LET p == On(w) IN
    /\ At(w, {"unfollow"}, "seekRequest")
    /\ IF request[p] = None
         THEN End(w)
         ELSE task' = [task EXCEPT ![w].phase = "sawRequest", ![w].seen = request[p]]
    /\ UNCHANGED <<remote, approves, rows, counts, untold, crashes, history>>

\* removeFollow, Reject(Follow) and Undo(Follow) delete the request they read.
DropSeenRequest(w) ==
    LET p == On(w) IN
    /\ At(w, {"unfollow", "inReject", "inUndo"}, "sawRequest")
    /\ request' = IF request[p] = task[w].seen THEN [request EXCEPT ![p] = None] ELSE request
    /\ End(w)
    /\ UNCHANGED <<remote, approves, follow, blocks, counts, untold, crashes, history>>

-----------------------------------------------------------------------------
(* One batch each: authorize, reject, block, unblock. *)

\* A mistake: a request of an account that follows already is counted again.
AuthorizeAgain(p) ==
    /\ Local(p[2])
    /\ request[p] # None
    /\ ~BlockedPair(p)
    /\ \E id \in Fresh(p) : follow' = [follow EXCEPT ![p] = id]
    /\ request' = [request EXCEPT ![p] = None]
    /\ CountUp({p})
    /\ UNCHANGED <<remote, approves, blocks, untold, task, crashes, history>>

\* acceptFollowRequest: the insertion checks the blocks and the follow again.
Authorize(p) ==
    /\ Local(p[2])
    /\ request[p] # None
    /\ ~BlockedPair(p)
    /\ follow[p] = None
    /\ \E id \in Fresh(p) : follow' = [follow EXCEPT ![p] = id]
    /\ request' = [request EXCEPT ![p] = None]
    /\ CountUp({p})
    /\ UNCHANGED <<remote, approves, blocks, untold, task, crashes, history>>

RejectRequest(p) ==
    /\ Local(p[2])
    /\ request[p] # None
    /\ request' = [request EXCEPT ![p] = None]
    /\ UNCHANGED <<remote, approves, follow, blocks, counts, untold, task, crashes, history>>

\* A mistake: only what the blocker follows ends.
CreateBlockOneWay(p) ==
    LET ended == {q \in {p} : follow[q] # None} IN
    /\ Local(p[1])
    /\ blocks' = blocks \cup {p}
    /\ follow' = [follow EXCEPT ![p] = None]
    /\ request' = [request EXCEPT ![p] = None]
    /\ untold' = untold \ {p}
    /\ CountDown(ended)
    /\ drifted' = (drifted \/ Floored(ended))
    /\ overtaken' = (overtaken \ {p}) \cup {q \in {p} : OnItsWay(q)}
    /\ UNCHANGED <<remote, approves, task, crashes>>

\* createBlock: both directions end, with counters for the rows that are there.
CreateBlock(p) ==
    LET both == {p, Reverse(p)}
        ended == {q \in both : follow[q] # None} IN
    /\ Local(p[1])
    /\ blocks' = blocks \cup {p}
    /\ follow' = [q \in Pairs |-> IF q \in both THEN None ELSE follow[q]]
    /\ request' = [q \in Pairs |-> IF q \in both THEN None ELSE request[q]]
    /\ untold' = untold \ both
    /\ CountDown(ended)
    /\ drifted' = (drifted \/ Floored(ended))
    /\ overtaken' = (overtaken \ both) \cup {q \in both : OnItsWay(q)}
    /\ UNCHANGED <<remote, approves, task, crashes>>

\* removeBlock, and Undo(Block).
RemoveBlock(p) ==
    /\ p \in blocks
    /\ blocks' = blocks \ {p}
    /\ overtaken' = IF Reverse(p) \in blocks THEN overtaken ELSE overtaken \ {p, Reverse(p)}
    /\ UNCHANGED <<remote, approves, follow, request, counts, untold, task, crashes, drifted>>
-----------------------------------------------------------------------------
(* Activities from the inbox. *)

\* The actor is remote and the object local.
FromInbox(p) == p[1] \in remote /\ Local(p[2])

\* Follow: canReceiveIncomingFollow.
StartInFollow(w, p) ==
    /\ FromInbox(p)
    /\ CountsBounded(p)
    /\ ~BlockedPair(p)
    /\ Start(w, "inFollow", p, "checked", None)

\* A duplicate row ends the task.
InFollowDuplicate(w) ==
    LET p == On(w) IN
    /\ At(w, {"inFollow"}, "checked")
    /\ IF p[2] \in approves THEN request[p] # None ELSE follow[p] # None
    /\ End(w)
    /\ UNCHANGED <<remote, approves, rows, counts, untold, crashes, history>>

InFollowRequest(w) ==
    LET p == On(w) IN
    /\ At(w, {"inFollow"}, "checked")
    /\ p[2] \in approves
    /\ request[p] = None
    /\ \E id \in Fresh(p) : request' = [request EXCEPT ![p] = id]
    /\ End(w)
    /\ UNCHANGED <<remote, approves, follow, blocks, counts, untold, crashes, history>>

InFollowInsert(w) ==
    LET p == On(w) IN
    /\ At(w, {"inFollow"}, "checked")
    /\ p[2] \notin approves
    /\ follow[p] = None
    /\ \E id \in Fresh(p) : follow' = [follow EXCEPT ![p] = id]
    /\ untold' = untold \cup {p}
    /\ Goto(w, "count1")
    /\ UNCHANGED <<remote, approves, request, blocks, counts, crashes, history>>

\* Follow raises followers_count first, Accept following_count.
CountFollower(w) ==
    /\ \/ At(w, {"inFollow"}, "count1") /\ Goto(w, "count2")
       \/ At(w, {"inAccept"}, "count2") /\ End(w)
    /\ followers' = [followers EXCEPT ![On(w)[2]] = @ + 1]
    /\ UNCHANGED <<remote, approves, rows, following, untold, crashes, history>>

CountFollowing(w) ==
    /\ \/ At(w, {"inAccept"}, "count1") /\ Goto(w, "count2")
       \/ At(w, {"inFollow"}, "count2") /\ Goto(w, "tell")
    /\ following' = [following EXCEPT ![On(w)[1]] = @ + 1]
    /\ UNCHANGED <<remote, approves, rows, followers, untold, crashes, history>>

\* The notification and the Accept(Follow) are queued.
Tell(w) ==
    /\ At(w, {"inFollow"}, "tell")
    /\ untold' = untold \ {On(w)}
    /\ End(w)
    /\ UNCHANGED <<remote, approves, rows, counts, crashes, history>>

\* Accept and Reject of a request of a local account; Undo of a remote follow,
\* which reads the follow or else the request.  p is the pair of the row.
StartAnswer(w, p) ==
    /\ FromInbox(Reverse(p))
    /\ request[p] # None
    /\ \/ CountsBounded(p) /\ Start(w, "inAccept", p, "sawRequest", request[p])
       \/ Start(w, "inReject", p, "sawRequest", request[p])

StartInUndo(w, p) ==
    /\ FromInbox(p)
    /\ \/ follow[p] # None /\ Start(w, "inUndo", p, "sawFollow", follow[p])
       \/ follow[p] = None /\ request[p] # None /\ Start(w, "inUndo", p, "sawRequest", request[p])

\* A mistake: the insertion does not ask whether the request is still there.
AcceptMoveUnasked(w) ==
    LET p == On(w) IN
    /\ At(w, {"inAccept"}, "sawRequest")
    /\ follow[p] = None
    /\ \E id \in Fresh(p) : follow' = [follow EXCEPT ![p] = id]
    /\ request' = [request EXCEPT ![p] = None]
    /\ task' = [task EXCEPT ![w].phase = "count1", ![w].seen = None]
    /\ UNCHANGED <<remote, approves, blocks, counts, untold, crashes, history>>

\* The batch inserts the follow and deletes the request that was read.  A follow
\* that is there already fails it, and the error is caught.
AcceptMove(w) ==
    LET p == On(w)
        moves == request[p] = task[w].seen /\ follow[p] = None IN
    /\ At(w, {"inAccept"}, "sawRequest")
    /\ \/ /\ moves
          /\ \E id \in Fresh(p) : follow' = [follow EXCEPT ![p] = id]
          /\ request' = [request EXCEPT ![p] = None]
          /\ task' = [task EXCEPT ![w].phase = "count1", ![w].seen = None]
       \/ ~moves /\ End(w) /\ UNCHANGED <<follow, request>>
    /\ UNCHANGED <<remote, approves, blocks, counts, untold, crashes, history>>

UndoSeenFollow(w) ==
    LET p == On(w) IN
    /\ At(w, {"inUndo"}, "sawFollow")
    /\ \/ /\ follow[p] = task[w].seen
          /\ follow' = [follow EXCEPT ![p] = None]
          /\ untold' = untold \ {p}
          /\ task' = [task EXCEPT ![w].phase = "uncount", ![w].seen = None]
       \/ follow[p] # task[w].seen /\ End(w) /\ UNCHANGED <<follow, untold>>
    /\ UNCHANGED <<remote, approves, request, blocks, counts, crashes, history>>

UndoCount(w) ==
    /\ At(w, {"inUndo"}, "uncount")
    /\ CountDown({On(w)})
    /\ drifted' = (drifted \/ Floored({On(w)}))
    /\ End(w)
    /\ UNCHANGED <<remote, approves, rows, untold, crashes, overtaken>>

-----------------------------------------------------------------------------
(* Block from the inbox: seven statements. *)

StartInBlock(w, p) ==
    /\ FromInbox(p)
    /\ Start(w, "inBlock", p, "checked", None)

\* A duplicate block ends the task before anything else is done.
InBlockInsert(w) ==
    LET p == On(w) IN
    /\ At(w, {"inBlock"}, "checked")
    /\ \/ /\ p \notin blocks
          /\ blocks' = blocks \cup {p}
          /\ overtaken' = (overtaken \ {p, Reverse(p)})
                \cup {q \in {p, Reverse(p)} : OnItsWay(q) \/ request[q] # None}
          /\ Goto(w, "forward")
       \/ p \in blocks /\ End(w) /\ UNCHANGED <<blocks, overtaken>>
    /\ UNCHANGED <<remote, approves, follow, request, counts, untold, crashes, drifted>>

\* Each direction: DELETE, and when it deleted a row the two counters.
InBlockDelete(w) ==
    \E side \in {"forward", "reverse"} :
        LET q == IF side = "forward" THEN On(w) ELSE Reverse(On(w)) IN
        /\ At(w, {"inBlock"}, side)
        /\ follow' = [follow EXCEPT ![q] = None]
        /\ untold' = untold \ {q}
        /\ Goto(w, CASE side = "forward" /\ follow[q] # None -> "forward1"
                     [] side = "forward" /\ follow[q] = None -> "reverse"
                     [] side = "reverse" /\ follow[q] # None -> "reverse1"
                     [] side = "reverse" /\ follow[q] = None -> "requests")
        /\ UNCHANGED <<remote, approves, request, blocks, counts, crashes, history>>

InBlockUncountFollowing(w) ==
    LET p == On(w) IN
    /\ \/ /\ At(w, {"inBlock"}, "forward1")
          /\ following' = [following EXCEPT ![p[1]] = Less(@)]
          /\ drifted' = (drifted \/ following[p[1]] = 0)
          /\ Goto(w, "forward2")
       \/ /\ At(w, {"inBlock"}, "reverse1")
          /\ following' = [following EXCEPT ![p[2]] = Less(@)]
          /\ drifted' = (drifted \/ following[p[2]] = 0)
          /\ Goto(w, "reverse2")
    /\ UNCHANGED <<remote, approves, rows, followers, untold, crashes, overtaken>>

InBlockUncountFollower(w) ==
    LET p == On(w) IN
    /\ \/ /\ At(w, {"inBlock"}, "forward2")
          /\ followers' = [followers EXCEPT ![p[2]] = Less(@)]
          /\ drifted' = (drifted \/ followers[p[2]] = 0)
          /\ Goto(w, "reverse")
       \/ /\ At(w, {"inBlock"}, "reverse2")
          /\ followers' = [followers EXCEPT ![p[1]] = Less(@)]
          /\ drifted' = (drifted \/ followers[p[1]] = 0)
          /\ Goto(w, "requests")
    /\ UNCHANGED <<remote, approves, rows, following, untold, crashes, overtaken>>

InBlockRequests(w) ==
    LET both == {On(w), Reverse(On(w))} IN
    /\ At(w, {"inBlock"}, "requests")
    /\ request' = [q \in Pairs |-> IF q \in both THEN None ELSE request[q]]
    /\ End(w)
    /\ UNCHANGED <<remote, approves, follow, blocks, counts, untold, crashes, history>>

-----------------------------------------------------------------------------
(* Interruption and redelivery. *)

\* Counters a task still has to raise or lower.
OwesUp(w, field, a) ==
    /\ task[w] # Idle
    /\ a = On(w)[IF field = "followers" THEN 2 ELSE 1]
    /\ \/ At(w, {"import"}, "countBoth")
       \/ At(w, {"inFollow", "inAccept"}, "count1")
       \/ At(w, {IF field = "followers" THEN "inAccept" ELSE "inFollow"}, "count2")
OwesDown(w, field, a) ==
    /\ task[w] # Idle
    /\ \/ At(w, {"inUndo"}, "uncount") /\ a = On(w)[IF field = "followers" THEN 2 ELSE 1]
       \/ At(w, {"inBlock"}, "forward1") /\ a = On(w)[IF field = "followers" THEN 2 ELSE 1]
       \/ At(w, {"inBlock"}, "reverse1") /\ a = On(w)[IF field = "followers" THEN 1 ELSE 2]
       \/ field = "followers" /\ At(w, {"inBlock"}, "forward2") /\ a = On(w)[2]
       \/ field = "followers" /\ At(w, {"inBlock"}, "reverse2") /\ a = On(w)[1]
Owes(w) == \E field \in {"followers", "following"}, a \in Accounts :
               OwesUp(w, field, a) \/ OwesDown(w, field, a)

\* A statement throws or the worker dies.  The queue delivers the message again;
\* a request of the API is over, and so is an Accept, which catches the error.
Crash(w) ==
    /\ crashes < MaxCrashes
    /\ task[w] # Idle
    /\ task[w].phase # "queued"
    /\ crashes' = crashes + 1
    /\ IF task[w].kind \in QueueKinds
         THEN task' = [task EXCEPT ![w].phase = "queued", ![w].seen = None]
         ELSE End(w)
    /\ drifted' = (drifted \/ Owes(w))
    /\ overtaken' = IF Do(w, "inBlock") /\ task[w].phase # "checked" /\ BlockedPair(On(w))
                      THEN overtaken \cup {q \in {On(w), Reverse(On(w))} : Coming(q)} ELSE overtaken
    /\ UNCHANGED <<remote, approves, rows, counts, untold>>

\* The handler runs again from its first read, or finds nothing to do.
Redeliver(w) ==
    LET p == On(w)
        Begin(phase, seen) == task' = [task EXCEPT ![w].phase = phase, ![w].seen = seen] IN
    /\ task[w] # Idle
    /\ task[w].phase = "queued"
    /\ \/ Do(w, "import") /\ (IF BlockedPair(p) THEN End(w) ELSE Begin("checked", None))
       \/ Do(w, "inFollow") /\ (IF BlockedPair(p) THEN End(w) ELSE Begin("checked", None))
       \/ Do(w, "inBlock") /\ Begin("checked", None)
       \/ /\ task[w].kind \in {"inAccept", "inReject"}
          /\ IF request[p] = None THEN End(w) ELSE Begin("sawRequest", request[p])
       \/ /\ Do(w, "inUndo")
          /\ CASE follow[p] # None -> Begin("sawFollow", follow[p])
               [] follow[p] = None /\ request[p] # None -> Begin("sawRequest", request[p])
               [] OTHER -> End(w)
    /\ UNCHANGED <<remote, approves, rows, counts, untold, crashes, history>>

-----------------------------------------------------------------------------
Step(w) ==
    \/ FindFollow(w) \/ FindRequest(w) \/ InsertRefused(w) \/ InsertRequest(w)
    \/ InsertFollow(w) \/ CountImport(w)
    \/ RemoveSeenFollow(w) \/ SeekRequest(w) \/ DropSeenRequest(w)
    \/ InFollowDuplicate(w) \/ InFollowRequest(w) \/ InFollowInsert(w)
    \/ CountFollower(w) \/ CountFollowing(w) \/ Tell(w)
    \/ AcceptMove(w) \/ UndoSeenFollow(w) \/ UndoCount(w)
    \/ InBlockInsert(w) \/ InBlockDelete(w) \/ InBlockUncountFollowing(w)
    \/ InBlockUncountFollower(w) \/ InBlockRequests(w)
    \/ Crash(w) \/ Redeliver(w)

Begin(w, p) ==
    \/ StartFollow(w, p) \/ StartUnfollow(w, p) \/ StartDropFollower(w, p)
    \/ StartInFollow(w, p) \/ StartAnswer(w, p) \/ StartInUndo(w, p)
    \/ StartInBlock(w, p)

Batch(p) ==
    \/ Authorize(p) \/ RejectRequest(p) \/ CreateBlock(p) \/ RemoveBlock(p)

Next ==
    \/ \E w \in Workers : Step(w)
    \/ \E w \in Workers, p \in Pairs : Begin(w, p)
    \/ \E p \in Pairs : Batch(p)

Spec == Init /\ [][Next]_vars

-----------------------------------------------------------------------------
(* Properties. *)

\* Nobody follows an account that answers its requests without its consent:
\* a follow of a remote or approving account appears only in the step that
\* consumes the pending request of the same pair.  Accept and authorize, parallel
\* follows, duplicates and redeliveries must not create one otherwise.
FollowsByConsent ==
    [][\A p \in Pairs :
        /\ follow[p] # follow'[p]
        /\ follow'[p] # None
        /\ NeedsAnswer(p)
        => request[p] # None /\ request'[p] = None]_vars

\* Between two accounts one of which blocks the other there is no follow, unless
\* the block met a follow that had passed its check, or a request that an Accept
\* in flight may still move, or was itself interrupted (overtaken), or is still
\* deleting.  createBlock and processBlock tear both directions down.
BlockedPairsDoNotFollow ==
    \A p \in Pairs :
        BlockedPair(p) /\ follow[p] # None
        => \/ p \in overtaken
           \/ \E w \in Workers : task[w] # Idle /\ Do(w, "inBlock") /\ On(w) \in {p, Reverse(p)}

\* followers_count and following_count are the numbers of rows, less what tasks
\* in flight still have to count, as long as no removal found its row gone, no
\* counter was held at zero and no task was interrupted while it owed a count.
CountersMatchRows ==
    ~drifted =>
      \A a \in Accounts :
        /\ followers[a] + Cardinality({w \in Workers : OwesUp(w, "followers", a)})
             = Cardinality({p \in Pairs : p[2] = a /\ follow[p] # None})
               + Cardinality({w \in Workers : OwesDown(w, "followers", a)})
        /\ following[a] + Cardinality({w \in Workers : OwesUp(w, "following", a)})
             = Cardinality({p \in Pairs : p[1] = a /\ follow[p] # None})
               + Cardinality({w \in Workers : OwesDown(w, "following", a)})

\* The comment on Follow: the follow is accepted at once and an Accept(Follow)
\* is sent back.  Violated: a redelivered Follow finds its row and ends.
FollowersAreTold ==
    \A p \in untold : \E w \in Workers : task[w] # Idle /\ Do(w, "inFollow") /\ On(w) = p
=============================================================================
