----------------------------- MODULE Permissions -----------------------------
(***************************************************************************)
(* Who may see, list, quote and interact with what, and who is notified:   *)
(* packages/shared/permissions.ts (decisions over facts),                  *)
(* services/permissions.ts (the rows behind the facts, and the same        *)
(* decisions once more as SQL predicates for lists), and the queue         *)
(* handlers create_notification, send_web_push and timeline_fanout.        *)
(*                                                                         *)
(* There is one status, written by Author.  An operation that is one batch *)
(* is one action.  A follow is allowed, looked up and inserted in three; a *)
(* Block from the inbox and a domain block insert their row first and tear *)
(* down in later steps; a queue handler reads its permissions in one step  *)
(* and acts in later ones.                                                 *)
(***************************************************************************)
EXTENDS Naturals, FiniteSets

CONSTANTS
    Accounts, Author,
    Nobody,         \* a viewer without an account
    Handlers,       \* runs of queue handlers at the same time
    MaxChanges,     \* changes of rows in a behaviour, ...
    MaxNoted,       \* ... before and beside a notification or a fan-out
    MaxCopies       \* deliveries of the message of one notification

ASSUME PermissionsAssumption ==
    /\ Author \in Accounts /\ Nobody \notin Accounts
    /\ MaxChanges \in Nat /\ MaxNoted \in 0 .. MaxChanges /\ MaxCopies \in Nat

Pairs == {p \in Accounts \X Accounts : p[1] # p[2]}
Visibilities == {"public", "unlisted", "private", "direct"}
Policies == {"public", "followers", "nobody"}

VARIABLES
    local,        \* accounts without a domain: they have a users row
    suspended, silenced, moved,  \* columns of accounts
    disabled, approved,          \* columns of users
    follows, requests, blocks,   \* rows of a pair; all three may be there
    mutes,        \* "none", "posts", or "all" with hide_notifications
    domainBlocks, \* <<x, y>>: x blocks the domain of y
    cleaning,     \* domain blocks inserted whose clean-up has not run
    permitted,    \* pairs with a follow that was allowed, its rows not looked up
    inserting,    \* pairs with a follow that is next to insert its row
    tearing,      \* what a Block from the inbox is next to delete
    overtaken,    \* history: pairs a block did not part, as told at BlockEndsAccess
    visibility, deleted,         \* the status
    mentioned,    \* accounts the status mentions
    threadMuted,  \* accounts that mute its conversation
    note,         \* a notification: recipient, sender, whether about the status
    copies,       \* deliveries of its create_notification message so far
    notifications,\* rows inserted for it
    pushes,       \* send_web_push messages waiting
    handler,      \* what each queue handler is doing; "fresh" as long as no row has
                  \* changed since it looked
    overlapped,   \* history: two deliveries had looked before either inserted
    changes       \* operations begun so far

accounts == <<local, suspended, silenced, moved, disabled, approved>>
pairs    == <<follows, requests, blocks, mutes, domainBlocks, cleaning>>
status   == <<visibility, deleted, mentioned, threadMuted>>
facts    == <<accounts, pairs, status>>
underway == <<permitted, inserting, tearing, overtaken>>
queue    == <<note, copies, notifications, pushes, handler, overlapped>>
vars     == <<facts, underway, queue, changes>>

NoNote == [to |-> Nobody]
Notes  == [to : Accounts, from : Accounts, about : BOOLEAN]
Idle   == [phase |-> "idle"]
Notifying == [phase : {"insert", "enqueue", "send"}, fresh : BOOLEAN]

\* What a run of timeline_fanout holds: the recipients it has loaded, and
\* whether the public streams are to have the status too.
FanOuts == [phase : {"audience", "recheck", "payload", "stream", "public", "broadcast"},
            fresh : BOOLEAN, to : SUBSET Accounts, open : BOOLEAN]

FactsTypeOK ==
    /\ local \subseteq Accounts
    /\ disabled \subseteq local /\ approved \subseteq local
    /\ \A S \in {suspended, silenced, moved, mentioned, threadMuted} : S \subseteq Accounts
    /\ \A R \in {follows, requests, blocks, domainBlocks} : R \subseteq Pairs
    /\ cleaning \subseteq domainBlocks
    /\ \A p \in domainBlocks : p[1] \in local /\ p[2] \notin local
    /\ mutes \in [Pairs -> {"none", "posts", "all"}]
    /\ visibility \in Visibilities /\ deleted \in BOOLEAN

UnderwayTypeOK ==
    /\ \A R \in {permitted, inserting, overtaken} : R \subseteq Pairs
    /\ tearing \in [Pairs -> {"no", "forward", "reverse", "requests"}]
    /\ \A p \in Pairs : tearing[p] # "no" => p[1] \notin local

QueueTypeOK ==
    /\ note \in Notes \cup {NoNote}
    /\ copies \in 0 .. MaxCopies
    /\ notifications \in 0 .. MaxCopies /\ pushes \in 0 .. notifications
    /\ handler \in [Handlers -> {Idle} \cup Notifying \cup FanOuts]
    /\ overlapped \in BOOLEAN
    /\ changes \in 0 .. MaxChanges

TypeOK == FactsTypeOK /\ UnderwayTypeOK /\ QueueTypeOK

Init ==
    /\ local \in {S \in SUBSET Accounts : S # {}}
    /\ suspended = {} /\ silenced = {} /\ moved = {} /\ disabled = {}
    /\ approved \in {local, local \ {Author}}
    /\ follows = {} /\ requests = {} /\ blocks = {} /\ domainBlocks = {} /\ cleaning = {}
    /\ mutes = [p \in Pairs |-> "none"]
    /\ permitted = {} /\ inserting = {} /\ overtaken = {}
    /\ tearing = [p \in Pairs |-> "no"]
    /\ visibility \in Visibilities /\ deleted = FALSE
    /\ mentioned \in SUBSET (Accounts \ {Author})
    /\ threadMuted = {}
    /\ note = NoNote /\ copies = 0 /\ notifications = 0 /\ pushes = 0
    /\ handler = [h \in Handlers |-> Idle] /\ overlapped = FALSE
    /\ changes = 0

-----------------------------------------------------------------------------
(* Decisions over facts: packages/shared/permissions.ts. *)

Open == visibility \in {"public", "unlisted"}
Follows(x, y) == <<x, y>> \in follows
Blocks(x, y)  == <<x, y>> \in blocks
BlocksDomain(x, y) == y \notin local /\ <<x, y>> \in domainBlocks
Muted(x, y)   == x # y /\ x # Nobody /\ mutes[<<x, y>>] # "none"
Hidden(x, y)  == x # y /\ mutes[<<x, y>>] = "all"

\* Local accounts need an enabled and approved user, remote ones have none.
Originates(x) == x \notin suspended /\ (x \in local => x \notin disabled /\ x \in approved)
Operates(x)   == x \in local /\ Originates(x)

CanViewStatus(x, followsAuthor, isMentioned, blocked) ==
    /\ ~deleted
    /\ \/ x = Author
       \/ Open /\ (x = Nobody \/ ~blocked)
       \/ visibility = "private" /\ x # Nobody /\ (followsAuthor \/ isMentioned)
       \/ visibility = "direct" /\ x # Nobody /\ isMentioned

\* The facts of CanViewStatus as the handlers load them, all at once.
Viewable(x) == CanViewStatus(x, Follows(x, Author), x \in mentioned, Blocks(Author, x))

CanSurfaceStatus(x, mutesAuthor) ==
    /\ Viewable(x) /\ Author \notin suspended
    /\ Author \in silenced => x = Author \/ Follows(x, Author)
    /\ ~mutesAuthor
    /\ ~Blocks(x, Author) /\ ~BlocksDomain(x, Author) /\ ~Blocks(Author, x)

CanFanOut == visibility # "direct" /\ ~deleted /\ Author \notin suspended

CanBroadcast == visibility = "public" /\ ~deleted /\ Author \notin suspended \cup silenced

CanSearchAccount(x, y) ==
    /\ y \notin suspended /\ (y \notin local \/ y \in approved) /\ y \notin moved
    /\ ~Muted(x, y)
    /\ ~Blocks(x, y) /\ ~BlocksDomain(x, y) /\ ~Blocks(y, x)

CanSurfaceAccount(x, y) ==
    /\ y \notin suspended /\ (y \notin local \/ y \in approved)
    /\ y \in silenced => x = y \/ Follows(x, y)
    /\ ~Muted(x, y)
    /\ ~Blocks(x, y) /\ ~BlocksDomain(x, y) /\ ~Blocks(y, x)

CanProcessFollowRequest(x, y) ==
    /\ x # y /\ Originates(x)
    /\ ~Blocks(x, y) /\ ~Blocks(y, x) /\ ~BlocksDomain(y, x)

CanQuoteStatus(x, viewable, policy) ==
    /\ viewable /\ visibility # "direct"
    /\ \/ x = Author
       \/ /\ Open /\ ~Blocks(x, Author) /\ ~BlocksDomain(x, Author)
          /\ policy # "nobody" /\ (policy = "followers" => Follows(x, Author))

CanDeliverNotification(n) ==
    /\ Operates(n.to) /\ Originates(n.from)
    /\ ~Hidden(n.to, n.from)
    /\ ~Blocks(n.to, n.from) /\ ~BlocksDomain(n.to, n.from) /\ ~Blocks(n.from, n.to)
    /\ n.about => CanSurfaceStatus(n.to, Hidden(n.to, Author)) /\ n.to \notin threadMuted

-----------------------------------------------------------------------------
(* Decisions on records: services/permissions.ts. *)

\* canViewStatusRecord looks up only the rows the visibility asks for.
CanViewRecord(x) ==
    LET other == x \notin {Nobody, Author} IN
    /\ Author \notin suspended
    /\ CanViewStatus(x, other /\ visibility = "private" /\ Follows(x, Author),
                        other /\ ~Open /\ x \in mentioned,
                        other /\ Open /\ Blocks(Author, x))

CanInteract(x) ==
    /\ Originates(x) /\ CanViewRecord(x)
    /\ x # Author => ~Blocks(x, Author) /\ ~BlocksDomain(x, Author)

\* From the inbox: the author is local and has nothing against the actor.
CanInteractFromInbox(x) ==
    /\ Author \in local /\ ~Blocks(Author, x) /\ ~BlocksDomain(Author, x)
    /\ CanInteract(x)

CanQuoteRecord(x, policy) == CanQuoteStatus(x, CanViewRecord(x), policy)

-----------------------------------------------------------------------------
(* The same once more in SQL. *)

Apart(x, y) == Blocks(x, y) \/ Blocks(y, x) \/ BlocksDomain(x, y)

SqlVisibleUnmentioned(x) ==   \* a mistake: a private status is for followers only
    /\ ~deleted /\ Author \notin suspended
    /\ \/ Open /\ (x = Nobody \/ ~Blocks(Author, x))
       \/ x # Nobody /\ ~Open /\ x = Author
       \/ x # Nobody /\ visibility = "private" /\ Follows(x, Author)
       \/ x # Nobody /\ visibility = "direct" /\ x \in mentioned

SqlVisible(x) ==
    /\ ~deleted /\ Author \notin suspended
    /\ \/ Open /\ (x = Nobody \/ ~Blocks(Author, x))
       \/ x # Nobody /\ ~Open /\ x = Author
       \/ x # Nobody /\ visibility = "private" /\ Follows(x, Author)
       \/ x # Nobody /\ ~Open /\ x \in mentioned

SqlRelationship(x) ==
    /\ Author \notin suspended
    /\ Author \notin silenced \/ x = Author \/ Follows(x, Author)
    /\ ~Muted(x, Author) /\ ~Apart(x, Author)

SqlSurface(x) == SqlVisible(x) /\ SqlRelationship(x)

\* What is listed behind the boost of the status.
SqlReblogOriginal(x) == Open /\ SqlVisible(x) /\ SqlRelationship(x)

SqlSearch(x, y) ==
    /\ y \notin suspended /\ y \notin moved /\ (y \notin local \/ y \in approved)
    /\ ~Muted(x, y) /\ ~Apart(x, y)

SqlDiscovery(x, y) ==
    /\ y \notin suspended /\ (y \notin local \/ y \in approved)
    /\ y \notin silenced \/ x = y \/ Follows(x, y)
    /\ ~Muted(x, y) /\ ~Apart(x, y)

SqlActionableRequest(x, y) ==
    /\ x # y /\ x \notin suspended /\ (x \in local => x \in approved \ disabled)
    /\ ~Blocks(x, y) /\ ~Blocks(y, x) /\ ~BlocksDomain(y, x)

\* Mutes count in notifications only if they hide them.
SqlNotificationRelationship(x, y) ==
    /\ y \notin suspended
    /\ y \notin silenced \/ x = y \/ Follows(x, y)
    /\ ~Hidden(x, y) /\ ~Apart(x, y)

SqlNotification(n) ==
    /\ SqlNotificationRelationship(n.to, n.from)
    /\ n.about => /\ SqlVisible(n.to)
                  /\ SqlNotificationRelationship(n.to, Author)
                  /\ n.to \notin threadMuted

-----------------------------------------------------------------------------
(* Operations that change the rows. *)

\* assertAccountFollowable, or canReceiveIncomingFollow for a remote follower.
Followable(x, y) ==
    /\ Originates(x) /\ y \notin suspended /\ (y \in local => y \in approved)
    /\ y \notin moved
    /\ ~Blocks(x, y) /\ ~BlocksDomain(x, y) /\ ~Blocks(y, x)
    /\ x \notin local => Operates(y) /\ ~BlocksDomain(y, x)

\* The permission of a follow.  Requests for one pair that are at the same point
\* are taken for one.
Follow(x, y) ==
    /\ <<x, y>> \in Pairs /\ {x, y} \cap local # {}
    /\ Followable(x, y)
    /\ IF x \in local
         THEN permitted' = permitted \cup {<<x, y>>} /\ UNCHANGED inserting
         ELSE inserting' = inserting \cup {<<x, y>>} /\ UNCHANGED permitted
    /\ UNCHANGED <<facts, tearing, overtaken>>

\* createFollow looks for the follow and the request, which the inbox does not.
LookUpFollow(x, y) ==
    /\ <<x, y>> \in permitted
    /\ permitted' = permitted \ {<<x, y>>}
    /\ inserting' = IF <<x, y>> \in follows \cup requests THEN inserting
                    ELSE inserting \cup {<<x, y>>}
    /\ UNCHANGED <<facts, tearing, overtaken>>

\* A follow, or a request if y approves by hand or is remote; nothing if the
\* same row is there or the run ends before.
InsertFollow(x, y) ==
    /\ <<x, y>> \in inserting
    /\ inserting' = inserting \ {<<x, y>>}
    /\ \/ /\ y \in local
          /\ follows' = follows \cup {<<x, y>>} /\ UNCHANGED requests
       \/ requests' = requests \cup {<<x, y>>} /\ UNCHANGED follows
       \/ UNCHANGED <<follows, requests>>
    /\ UNCHANGED <<accounts, blocks, mutes, domainBlocks, cleaning, status,
                   permitted, tearing, overtaken>>

\* A local account authorizes a request it may act on, a remote one accepts that
\* of a local one, with a Block of its own under way or not.
Authorize(x, y) ==
    /\ <<x, y>> \in requests \ follows
    /\ IF y \in local THEN CanProcessFollowRequest(x, y)
       ELSE x \in local /\ Originates(x) /\ Originates(y)
    /\ requests' = requests \ {<<x, y>>}
    /\ follows' = follows \cup {<<x, y>>}
    /\ overtaken' = IF tearing[<<y, x>>] # "no" THEN overtaken \cup {<<x, y>>} ELSE overtaken
    /\ UNCHANGED <<accounts, blocks, mutes, domainBlocks, cleaning, status,
                   permitted, inserting, tearing>>

\* removeFollow deletes the follow and then the request; removeFollower, Undo and
\* the two ways to reject delete one of them.
Unfollow(x, y) ==
    /\ <<x, y>> \in follows \cup requests
    /\ follows' \in {follows, follows \ {<<x, y>>}}
    /\ requests' \in {requests, requests \ {<<x, y>>}}
    /\ UNCHANGED <<accounts, blocks, mutes, domainBlocks, cleaning, status, underway>>

\* The pairs between x and y, both ways; a block does not part those that are on
\* their way to a follow.
Between(x, y) == {<<x, y>>, <<y, x>>}
OnTheWay(x, y) == Between(x, y) \cap (permitted \cup inserting)

BlockRowOnly(x, y) ==   \* a mistake: what is between the two stays
    /\ <<x, y>> \in Pairs /\ Operates(x)
    /\ blocks' = blocks \cup {<<x, y>>}
    /\ overtaken' = overtaken \cup OnTheWay(x, y)
    /\ UNCHANGED <<accounts, follows, requests, mutes, domainBlocks, cleaning, status,
                   permitted, inserting, tearing>>

\* createBlock: one batch, which also tears down what an earlier block left.
Block(x, y) ==
    /\ <<x, y>> \in Pairs /\ Operates(x)
    /\ blocks' = blocks \cup {<<x, y>>}
    /\ follows' = follows \ Between(x, y) /\ requests' = requests \ Between(x, y)
    /\ overtaken' = (overtaken \ Between(x, y)) \cup OnTheWay(x, y)
    /\ UNCHANGED <<accounts, mutes, domainBlocks, cleaning, status,
                   permitted, inserting, tearing>>

\* Block from the inbox inserts the row, or ends if it is there, ...
BlockFromInbox(x, y) ==
    /\ <<x, y>> \in Pairs \ blocks /\ x \notin local /\ y \in local /\ Originates(x)
    /\ tearing[<<x, y>>] = "no"
    /\ blocks' = blocks \cup {<<x, y>>}
    /\ tearing' = [tearing EXCEPT ![<<x, y>>] = "forward"]
    /\ overtaken' = overtaken \cup OnTheWay(x, y)
    /\ UNCHANGED <<accounts, follows, requests, mutes, domainBlocks, cleaning, status,
                   permitted, inserting>>

\* ... deletes the follow of x, then that of y, then the requests, ...
TearDown(x, y) ==
    /\ <<x, y>> \in Pairs
    /\ \/ /\ tearing[<<x, y>>] = "forward"
          /\ follows' = follows \ {<<x, y>>} /\ UNCHANGED requests
          /\ tearing' = [tearing EXCEPT ![<<x, y>>] = "reverse"]
       \/ /\ tearing[<<x, y>>] = "reverse"
          /\ follows' = follows \ {<<y, x>>} /\ UNCHANGED requests
          /\ tearing' = [tearing EXCEPT ![<<x, y>>] = "requests"]
       \/ /\ tearing[<<x, y>>] = "requests"
          /\ requests' = requests \ Between(x, y) /\ UNCHANGED follows
          /\ tearing' = [tearing EXCEPT ![<<x, y>>] = "no"]
    /\ UNCHANGED <<accounts, blocks, mutes, domainBlocks, cleaning, status,
                   permitted, inserting, overtaken>>

\* ... and may end before all of it: its redelivery finds the row.
CutBlock(x, y) ==
    /\ <<x, y>> \in Pairs /\ tearing[<<x, y>>] # "no"
    /\ tearing' = [tearing EXCEPT ![<<x, y>>] = "no"]
    /\ overtaken' = overtaken \cup (Between(x, y) \cap (follows \cup requests))
    /\ UNCHANGED <<facts, permitted, inserting>>

Unblock(x, y) ==
    /\ Blocks(x, y)
    /\ blocks' = blocks \ {<<x, y>>}
    /\ UNCHANGED <<accounts, follows, requests, mutes, domainBlocks, cleaning, status,
                   underway>>

\* createMute, removeMute, or expires_at has passed.
Mute(x, y) ==
    /\ <<x, y>> \in Pairs /\ Operates(x)
    /\ \E m \in {"none", "posts", "all"} \ {mutes[<<x, y>>]} :
         mutes' = [mutes EXCEPT ![<<x, y>>] = m]
    /\ UNCHANGED <<accounts, follows, requests, blocks, domainBlocks, cleaning, status,
                   underway>>

\* POST /domain_blocks inserts the row, ...
BlockDomain(x, y) ==
    /\ <<x, y>> \in Pairs /\ Operates(x) /\ y \notin local
    /\ domainBlocks' = domainBlocks \cup {<<x, y>>}
    /\ cleaning' = cleaning \cup {<<x, y>>}
    /\ UNCHANGED <<accounts, follows, requests, blocks, mutes, status, underway>>

\* ... and tears down what is between x and the domain in a batch of its own;
\* if the request dies before, blocking the domain again catches up.
CleanUpDomain(x, y) ==
    /\ <<x, y>> \in cleaning
    /\ cleaning' = cleaning \ {<<x, y>>}
    /\ follows' = follows \ Between(x, y) /\ requests' = requests \ Between(x, y)
    /\ overtaken' = (overtaken \ Between(x, y)) \cup OnTheWay(x, y)
    /\ UNCHANGED <<accounts, blocks, mutes, domainBlocks, status,
                   permitted, inserting, tearing>>

UnblockDomain(x, y) ==
    /\ <<x, y>> \in domainBlocks
    /\ domainBlocks' = domainBlocks \ {<<x, y>>}
    /\ cleaning' = cleaning \ {<<x, y>>}
    /\ UNCHANGED <<accounts, follows, requests, blocks, mutes, status, underway>>

Flip(S, x) == IF x \in S THEN S \ {x} ELSE S \cup {x}

\* suspendAccount, silenceAccount, disableAccount and their opposites, the
\* approval of a user, and moveAccount.
Moderate(x) ==
    /\ \/ suspended' = Flip(suspended, x) /\ UNCHANGED <<silenced, disabled, approved, moved>>
       \/ silenced' = Flip(silenced, x) /\ UNCHANGED <<suspended, disabled, approved, moved>>
       \/ /\ x \in local /\ disabled' = Flip(disabled, x)
          /\ UNCHANGED <<suspended, silenced, approved, moved>>
       \/ /\ x \in local \ approved /\ approved' = approved \cup {x}
          /\ UNCHANGED <<suspended, silenced, disabled, moved>>
       \/ /\ x \notin moved /\ Originates(x) /\ moved' = moved \cup {x}
          /\ UNCHANGED <<suspended, silenced, disabled, approved>>
    /\ UNCHANGED <<local, pairs, status, underway>>

DeleteStatus ==
    /\ ~deleted /\ Originates(Author)
    /\ deleted' = TRUE
    /\ UNCHANGED <<accounts, pairs, visibility, mentioned, threadMuted, underway>>

MuteThread(x) ==
    /\ Operates(x) /\ CanViewRecord(x)
    /\ threadMuted' = Flip(threadMuted, x)
    /\ UNCHANGED <<accounts, pairs, visibility, deleted, mentioned, underway>>

-----------------------------------------------------------------------------
(* The notification handlers. *)

Busy(h) == handler[h] # Idle
At(h, phase) == Busy(h) /\ handler[h].phase = phase
Begin(h, phase) == handler' = [handler EXCEPT ![h] = [phase |-> phase, fresh |-> TRUE]]
Goto(h, phase) == handler' = [handler EXCEPT ![h].phase = phase]
End(h) == handler' = [handler EXCEPT ![h] = Idle]
FanningOut == \E h \in Handlers : "to" \in DOMAIN handler[h]

\* The author mentions x, x interacts with the status, or something without a
\* status, as a follow: a create_notification message is queued.
Notify(n) ==
    /\ note = NoNote /\ ~FanningOut /\ changes <= MaxNoted
    /\ n.to # n.from /\ n.to \in local /\ Originates(n.from)
    /\ n.about => \/ n.from = Author /\ n.to \in mentioned
                  \/ n.to = Author /\ (IF n.from \in local THEN CanInteract(n.from)
                                       ELSE CanInteractFromInbox(n.from))
    /\ note' = n
    /\ UNCHANGED <<copies, notifications, pushes, handler, overlapped>>

CheckUnseen(h) ==   \* a mistake: a row of an earlier delivery is not looked for
    /\ note # NoNote /\ ~Busy(h) /\ copies < MaxCopies
    /\ copies' = copies + 1
    /\ CanDeliverNotification(note)
    /\ Begin(h, "insert")
    /\ overlapped' = (overlapped \/ \E k \in Handlers : At(k, "insert"))
    /\ UNCHANGED <<note, notifications, pushes>>

\* create_notification checks the permission and looks for the same row, ...
Check(h) ==
    /\ note # NoNote /\ ~Busy(h) /\ copies < MaxCopies
    /\ copies' = copies + 1
    /\ IF CanDeliverNotification(note) /\ notifications = 0
         THEN /\ Begin(h, "insert")
              /\ overlapped' = (overlapped \/ \E k \in Handlers : At(k, "insert"))
         ELSE UNCHANGED <<handler, overlapped>>
    /\ UNCHANGED <<note, notifications, pushes>>

\* ... inserts it, ...
Insert(h) ==
    /\ At(h, "insert")
    /\ notifications' = notifications + 1
    /\ Goto(h, "enqueue")
    /\ UNCHANGED <<note, copies, pushes, overlapped>>

\* ... queues send_web_push if the recipient has a subscription, and sends the
\* event to his stream, which is the last thing and changes nothing here.
Enqueue(h) ==
    /\ At(h, "enqueue")
    /\ pushes' \in {pushes, pushes + 1}
    /\ End(h)
    /\ UNCHANGED <<note, copies, notifications, overlapped>>

CheckPushOwner(h) ==   \* a mistake: what was allowed when the row came still is
    /\ ~Busy(h) /\ pushes > 0
    /\ pushes' = pushes - 1
    /\ IF Operates(note.to) THEN Begin(h, "send") ELSE UNCHANGED handler
    /\ UNCHANGED <<note, copies, notifications, overlapped>>

\* send_web_push asks once more, ...
CheckPush(h) ==
    /\ ~Busy(h) /\ pushes > 0
    /\ pushes' = pushes - 1
    /\ IF CanDeliverNotification(note) THEN Begin(h, "send") ELSE UNCHANGED handler
    /\ UNCHANGED <<note, copies, notifications, overlapped>>

\* ... and sends to every subscription.
Send(h) ==
    /\ At(h, "send")
    /\ End(h)
    /\ UNCHANGED <<note, copies, notifications, pushes, overlapped>>

DieRequeueing(h) ==   \* a mistake: any delivery that ends leaves a push to send
    /\ Busy(h)
    /\ End(h)
    /\ pushes' = pushes + 1
    /\ UNCHANGED <<note, copies, notifications, overlapped>>

\* A handler dies or throws; its message is delivered again.
Die(h) ==
    /\ Busy(h)
    /\ End(h)
    /\ pushes' = IF At(h, "send") THEN pushes + 1 ELSE pushes
    /\ UNCHANGED <<note, copies, notifications, overlapped>>

-----------------------------------------------------------------------------
(* timeline_fanout: one run at a time, and not beside a notification; the   *)
(* message may be delivered at any time and again.                          *)

Proceed(h, run) == handler' = [handler EXCEPT ![h] = run]
Held(h, phase) == [handler[h] EXCEPT !.phase = phase]

\* The streams of accounts are done with: the public ones, if any.
ToPublic(h) == Proceed(h, IF handler[h].open THEN Held(h, "public") ELSE Idle)

\* The status is looked up and checked, ...
StartFanOut(h) ==
    /\ note = NoNote /\ changes <= MaxNoted /\ \A k \in Handlers : ~Busy(k)
    /\ CanFanOut
    /\ Proceed(h, [phase |-> "audience", fresh |-> TRUE, to |-> {}, open |-> CanBroadcast])

\* Nothing is between x and the author that keeps the status away.
Welcomes(x) == ~Apart(x, Author) /\ ~Muted(x, Author)

\* ... the followers are loaded, and the author, ...
LoadAudience(h) ==
    /\ At(h, "audience")
    /\ LET to == {x \in Accounts : Operates(x) /\ (x = Author \/ Follows(x, Author))
                                 /\ Welcomes(x)}
       IN  IF to = {} THEN ToPublic(h)
           ELSE Proceed(h, [Held(h, "recheck") EXCEPT !.to = to])

RecheckUsers(h) ==   \* a mistake: what stands between the two is not asked again
    /\ At(h, "recheck")
    /\ LET to == {x \in handler[h].to : Operates(x)}
       IN  IF to = {} THEN ToPublic(h)
           ELSE Proceed(h, [Held(h, "payload") EXCEPT !.to = to, !.fresh = TRUE])

\* ... they are checked once more, except that they still follow, ...
Recheck(h) ==
    /\ At(h, "recheck")
    /\ LET to == {x \in handler[h].to : Operates(x) /\ Welcomes(x)}
       IN  IF to = {} THEN ToPublic(h)
           ELSE Proceed(h, [Held(h, "payload") EXCEPT !.to = to, !.fresh = TRUE])

\* ... one payload is built for all of them, if the first may have it, ...
BuildPayload(h) ==
    /\ At(h, "payload")
    /\ \E first \in handler[h].to :
         IF CanSurfaceStatus(first, Muted(first, Author)) THEN Goto(h, "stream")
         ELSE ToPublic(h)

\* ... and sent to each.
Stream(h) == At(h, "stream") /\ ToPublic(h)

\* The status is checked again for the public streams, and sent to them.
BuildPublic(h) ==
    /\ At(h, "public")
    /\ IF CanBroadcast THEN Proceed(h, [Held(h, "broadcast") EXCEPT !.fresh = TRUE, !.to = {}])
       ELSE End(h)

Broadcast(h) == At(h, "broadcast") /\ End(h)

FanOut(h) ==
    /\ \/ StartFanOut(h) \/ LoadAudience(h) \/ Recheck(h) \/ BuildPayload(h)
       \/ Stream(h) \/ BuildPublic(h) \/ Broadcast(h)
    /\ UNCHANGED <<note, copies, notifications, pushes, overlapped>>

-----------------------------------------------------------------------------
Relate(x, y) ==
    \/ Follow(x, y) \/ Authorize(x, y) \/ Unfollow(x, y)
    \/ Block(x, y) \/ BlockFromInbox(x, y) \/ Unblock(x, y) \/ Mute(x, y)
    \/ BlockDomain(x, y) \/ UnblockDomain(x, y)

\* The later statements of what has begun.
Continue(x, y) ==
    \/ LookUpFollow(x, y) \/ InsertFollow(x, y)
    \/ TearDown(x, y) \/ CutBlock(x, y) \/ CleanUpDomain(x, y)

\* If rows change, what the handlers have looked at is not fresh any more.
Outdate ==
    /\ handler' = IF UNCHANGED facts THEN handler
                  ELSE [h \in Handlers |-> IF Busy(h) THEN [handler[h] EXCEPT !.fresh = FALSE]
                                           ELSE Idle]
    /\ UNCHANGED <<note, copies, notifications, pushes, overlapped>>

Change ==
    /\ changes < IF note = NoNote /\ ~FanningOut THEN MaxChanges ELSE MaxNoted
    /\ changes' = changes + 1
    /\ \/ \E x, y \in Accounts : Relate(x, y)
       \/ \E x \in Accounts : Moderate(x) \/ MuteThread(x)
       \/ DeleteStatus
    /\ Outdate

Handle(h) == Check(h) \/ Insert(h) \/ Enqueue(h) \/ CheckPush(h) \/ Send(h) \/ FanOut(h) \/ Die(h)

Next ==
    \/ Change
    \/ (\E x, y \in Accounts : Continue(x, y)) /\ Outdate /\ UNCHANGED changes
    \/ (\E n \in Notes : Notify(n)) /\ UNCHANGED <<facts, underway, changes>>
    \/ (\E h \in Handlers : Handle(h)) /\ UNCHANGED <<facts, underway, changes>>

Spec == Init /\ [][Next]_vars

-----------------------------------------------------------------------------
(* Properties. *)

Viewers == Accounts \cup {Nobody}

\* The decisions are written several times: over records for one status or
\* account, over facts for streams and handlers, and as SQL for lists.  They
\* agree, for every viewer and in every state the operations reach: a list
\* neither hides what may be fetched nor shows what may not.
DecisionsAgree ==
    /\ \A x \in Viewers :
         /\ SqlVisible(x) <=> CanViewRecord(x)
         /\ SqlSurface(x) <=> CanSurfaceStatus(x, Muted(x, Author))
         /\ \A y \in Accounts : /\ SqlSearch(x, y) <=> CanSearchAccount(x, y)
                                /\ SqlDiscovery(x, y) <=> CanSurfaceAccount(x, y)
    /\ \A p \in requests :
         SqlActionableRequest(p[1], p[2]) <=> CanProcessFollowRequest(p[1], p[2])

\* The blocks and domain blocks whose deletions are over.
Settled == {p \in blocks : tearing[p] = "no"} \cup (domainBlocks \ cleaning)

\* Ways in which a status reaches x, or x reaches it, beside fetching it.
Reached(x) ==
    \/ SqlSurface(x) \/ SqlReblogOriginal(x)
    \/ x # Nobody /\ (CanInteract(x) \/ \E policy \in Policies : CanQuoteRecord(x, policy))
    \/ \E n \in Notes :
         /\ n.about /\ n.to = x /\ n.from # x /\ x \in local
         /\ SqlNotification(n) \/ CanDeliverNotification(n)

\* Nobody reaches a status that he may not fetch.  While its author blocks x, x
\* fetches it only if it is private or direct, and it comes to him in no list;
\* neither does it while x blocks the author or his domain.  Between the two nobody
\* is notified of the other.  To fetch a private or direct status x must then be
\* mentioned, once the block has torn down what was between the two: the decision
\* looks at the follow and not at blocks there.  Three follows are left across a
\* block all the same (overtaken): one that had been allowed and not inserted when
\* the block, or the clean-up of a domain block, came; one that was accepted while a
\* Block from the inbox was still deleting; and one that such a Block did not come
\* to delete before it was interrupted, and its redelivery ended at the row.
BlockEndsAccess ==
    /\ \A x \in Viewers : CanViewRecord(x) \/ ~Reached(x)
    /\ \A x \in Accounts \ {Author} :
         /\ Blocks(Author, x) => ~(CanViewRecord(x) /\ Open)
         /\ Between(x, Author) \cap (blocks \cup domainBlocks) # {} =>
              /\ x \in local => ~SqlSurface(x) /\ ~SqlReblogOriginal(x)
              /\ x \notin local => ~CanInteractFromInbox(x)
              /\ \A n \in Notes : {n.to, n.from} = {x, Author} /\ n.to \in local =>
                   ~SqlNotification(n) /\ ~CanDeliverNotification(n)
         /\ Between(x, Author) \cap Settled # {} /\ CanViewRecord(x) /\ ~Open =>
              x \in mentioned \/ <<x, Author>> \in overtaken

\* What a handler inserts, streams as an event or pushes is in the recipient's
\* list, as long as the rows have not changed since the handler looked: a boundary
\* that was drawn between the notification and the push stops the push.  A silenced
\* sender whom the recipient does not follow is pushed and not listed.  What is
\* streamed to an account is in its timeline, and what is streamed to all may be
\* seen by all, with one exception that the code leaves: a follow that ends
\* after the followers were loaded.
PushedIsListed ==
    \A h \in Handlers : Busy(h) /\ handler[h].fresh =>
        /\ handler[h].phase \in {"insert", "enqueue", "send"} =>
             \/ SqlNotification(note)
             \/ note.from \in silenced /\ ~Follows(note.to, note.from)
        /\ handler[h].phase = "stream" =>
             \A x \in handler[h].to : SqlSurface(x) \/ (x # Author /\ ~Follows(x, Author))
        /\ handler[h].phase = "broadcast" => SqlSurface(Nobody) /\ visibility = "public"

\* A message delivered several times notifies once, unless two deliveries had
\* both looked for the row before either inserted it.
NotifiedOnce == notifications > 1 => overlapped
=============================================================================
