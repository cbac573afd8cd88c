-------------------------- MODULE PermissionsProofs --------------------------
(***************************************************************************)
(* Proofs about Permissions, for any accounts and handlers: the decisions  *)
(* written in code and in SQL agree, a block or a domain block ends what   *)
(* the other may reach, a notification is inserted once unless deliveries  *)
(* overlap, and what is pushed or streamed may be listed.                  *)
(***************************************************************************)
EXTENDS Permissions, FiniteSetTheorems, TLAPS

\* What a block rests on.  Once its deletions are over, the rows that are left
\* between the two are named in overtaken.
LeftOver(x, y) == Between(x, y) \cap (follows \cup requests)

SettledApart ==
  \A x, y \in Accounts : <<x, y>> \in Settled => LeftOver(x, y) \subseteq overtaken

\* Follows that may still come across a block are named there, ...
ComingApart ==
  \A x, y \in Accounts :
    <<x, y>> \in blocks \cup (domainBlocks \ cleaning) => OnTheWay(x, y) \subseteq overtaken

\* ... and those that came back behind the deletions of a Block from the inbox.
TearingApart ==
  \A x, y \in Accounts : <<x, y>> \in blocks =>
    /\ tearing[<<x, y>>] \in {"reverse", "requests"} /\ <<x, y>> \in follows
         => <<x, y>> \in overtaken
    /\ tearing[<<x, y>>] = "requests" /\ <<y, x>> \in follows
         => <<y, x>> \in overtaken

FactsInv == FactsTypeOK /\ UnderwayTypeOK /\ SettledApart /\ ComingApart /\ TearingApart

LEMMA InitFacts == Init => FactsInv
<1> SUFFICES ASSUME Init
             PROVE  FactsInv
  OBVIOUS
<1>1. local \subseteq Accounts /\ approved \subseteq local /\ disabled \subseteq local
  BY DEF Init
<1>2. mutes \in [Pairs -> {"none", "posts", "all"}]
  BY DEF Init
<1>3. mentioned \subseteq Accounts /\ threadMuted \subseteq Accounts /\ suspended \subseteq Accounts
      /\ silenced \subseteq Accounts /\ moved \subseteq Accounts
  BY DEF Init
<1>4. /\ follows = {} /\ requests = {} /\ blocks = {} /\ domainBlocks = {} /\ cleaning = {}
      /\ visibility \in Visibilities /\ deleted = FALSE
  BY DEF Init
<1>5. FactsTypeOK
  BY <1>1, <1>2, <1>3, <1>4 DEF FactsTypeOK
<1>6. UnderwayTypeOK
  BY DEF Init, UnderwayTypeOK
<1>7. SettledApart /\ ComingApart /\ TearingApart
  BY <1>4 DEF SettledApart, ComingApart, TearingApart, Settled
<1> QED
  BY <1>5, <1>6, <1>7 DEF FactsInv

-----------------------------------------------------------------------------
(* Each change of rows keeps the invariant. *)

\* A step that neither adds a follow or a request, nor a follow that may come, nor
\* a block, nor takes one out of overtaken, nor goes on with a tear-down.
LEMMA NothingComes ==
  ASSUME FactsInv, FactsTypeOK', UnderwayTypeOK',
         follows' \subseteq follows, requests' \subseteq requests,
         permitted' \cup inserting' \subseteq permitted \cup inserting,
         blocks' \subseteq blocks,
         domainBlocks' \ cleaning' \subseteq domainBlocks \ cleaning,
         tearing' = tearing, overtaken' = overtaken
  PROVE  FactsInv'
<1>1. Settled' \subseteq Settled
  BY DEF Settled
<1>2. \A x, y \in Accounts : /\ LeftOver(x, y)' \subseteq LeftOver(x, y)
                             /\ OnTheWay(x, y)' \subseteq OnTheWay(x, y)
  BY DEF LeftOver, OnTheWay, Between
<1>3. SettledApart' /\ ComingApart'
  BY <1>1, <1>2 DEF FactsInv, SettledApart, ComingApart
<1>4. TearingApart'
  BY DEF FactsInv, TearingApart
<1> QED
  BY <1>3, <1>4 DEF FactsInv

\* A follow is allowed only if no block is between the two.
LEMMA FollowKeeps ==
  ASSUME FactsInv, NEW x \in Accounts, NEW y \in Accounts, Follow(x, y)
  PROVE  FactsInv'
<1>1. /\ permitted' \cup inserting' = permitted \cup inserting \cup {<<x, y>>}
      /\ UNCHANGED <<facts, tearing, overtaken>> /\ <<x, y>> \in Pairs /\ Followable(x, y)
  BY DEF Follow
<1>2. /\ UNCHANGED <<local, suspended, silenced, moved, disabled, approved>>
      /\ UNCHANGED <<follows, requests, blocks, mutes, domainBlocks, cleaning>>
      /\ UNCHANGED <<visibility, deleted, mentioned, threadMuted>>
  BY <1>1 DEF facts, accounts, pairs, status
<1>3. FactsTypeOK'
  BY <1>2 DEF FactsInv, FactsTypeOK
<1>4. UnderwayTypeOK'
  BY <1>1, <1>2 DEF Follow, FactsInv, UnderwayTypeOK
<1>5. <<x, y>> \notin blocks \cup domainBlocks /\ <<y, x>> \notin blocks \cup domainBlocks
  BY <1>1 DEF Followable, Blocks, BlocksDomain, FactsInv, FactsTypeOK
<1>6. SettledApart' /\ TearingApart'
  BY <1>1, <1>2 DEF FactsInv, SettledApart, TearingApart, Settled, LeftOver, Between
<1>7. ComingApart'
  <2> SUFFICES ASSUME NEW u \in Accounts, NEW v \in Accounts,
                      <<u, v>> \in blocks \cup (domainBlocks \ cleaning)
               PROVE  OnTheWay(u, v)' \subseteq overtaken
    BY <1>1, <1>2 DEF ComingApart
  <2>1. <<x, y>> \notin Between(u, v)
    BY <1>5 DEF Between
  <2>2. OnTheWay(u, v)' = OnTheWay(u, v)
    BY <1>1, <2>1 DEF OnTheWay, Between
  <2> QED
    BY <2>2 DEF FactsInv, ComingApart
<1> QED
  BY <1>3, <1>4, <1>6, <1>7 DEF FactsInv

LEMMA LookUpKeeps ==
  ASSUME FactsInv, NEW x \in Accounts, NEW y \in Accounts, LookUpFollow(x, y)
  PROVE  FactsInv'
<1>1. FactsTypeOK'
  BY DEF FactsInv, FactsTypeOK, LookUpFollow, facts, accounts, pairs, status
<1>2. UnderwayTypeOK'
  BY DEF FactsInv, UnderwayTypeOK, LookUpFollow, facts, accounts, pairs
<1> QED
  BY <1>1, <1>2, NothingComes DEF LookUpFollow, facts, pairs

\* What is inserted was on its way: if a block came since, it is named.
LEMMA InsertFollowKeeps ==
  ASSUME FactsInv, NEW x \in Accounts, NEW y \in Accounts, InsertFollow(x, y)
  PROVE  FactsInv'
<1>1. /\ <<x, y>> \in inserting /\ inserting' = inserting \ {<<x, y>>}
      /\ follows' \subseteq follows \cup {<<x, y>>} /\ requests' \subseteq requests \cup {<<x, y>>}
      /\ UNCHANGED <<accounts, blocks, mutes, domainBlocks, cleaning, status,
                     permitted, tearing, overtaken>>
  BY DEF InsertFollow
<1>2. FactsTypeOK'
  BY <1>1 DEF FactsInv, FactsTypeOK, UnderwayTypeOK, accounts, status
<1>3. UnderwayTypeOK'
  BY <1>1 DEF FactsInv, UnderwayTypeOK, accounts
<1>4. ASSUME NEW u \in Accounts, NEW v \in Accounts, <<x, y>> \in Between(u, v),
             <<u, v>> \in blocks \cup (domainBlocks \ cleaning)
      PROVE  <<x, y>> \in overtaken
  <2>1. <<x, y>> \in OnTheWay(u, v)
    BY <1>1, <1>4 DEF OnTheWay
  <2> QED
    BY <1>4, <2>1 DEF FactsInv, ComingApart
<1>5. SettledApart'
  <2> SUFFICES ASSUME NEW u \in Accounts, NEW v \in Accounts, <<u, v>> \in Settled
               PROVE  LeftOver(u, v)' \subseteq overtaken
    BY <1>1 DEF SettledApart, Settled
  <2>1. LeftOver(u, v)' \subseteq LeftOver(u, v) \cup (Between(u, v) \cap {<<x, y>>})
    BY <1>1 DEF LeftOver, Between
  <2>2. LeftOver(u, v) \subseteq overtaken
    BY DEF FactsInv, SettledApart
  <2>3. <<u, v>> \in blocks \cup (domainBlocks \ cleaning)
    BY DEF Settled
  <2> QED
    BY <1>4, <2>1, <2>2, <2>3
<1>6. ComingApart'
  BY <1>1 DEF FactsInv, ComingApart, OnTheWay, Between
<1>7. TearingApart'
  <2> SUFFICES ASSUME NEW u \in Accounts, NEW v \in Accounts, <<u, v>> \in blocks
               PROVE  /\ tearing[<<u, v>>] \in {"reverse", "requests"} /\ <<u, v>> \in follows'
                           => <<u, v>> \in overtaken
                      /\ tearing[<<u, v>>] = "requests" /\ <<v, u>> \in follows'
                           => <<v, u>> \in overtaken
    BY <1>1 DEF TearingApart
  <2>1. <<x, y>> \in Between(u, v) => <<x, y>> \in overtaken
    BY <1>4
  <2>2. /\ <<u, v>> \in follows' => <<u, v>> \in follows \/ <<u, v>> = <<x, y>>
        /\ <<v, u>> \in follows' => <<v, u>> \in follows \/ <<v, u>> = <<x, y>>
    BY <1>1
  <2> QED
    BY <2>1, <2>2 DEF FactsInv, TearingApart, Between
<1> QED
  BY <1>2, <1>3, <1>5, <1>6, <1>7 DEF FactsInv

\* A request across a settled block is named already; one that is accepted while a
\* Block is still deleting becomes so.
LEMMA AuthorizeKeeps ==
  ASSUME FactsInv, NEW x \in Accounts, NEW y \in Accounts, Authorize(x, y)
  PROVE  FactsInv'
<1>1. /\ <<x, y>> \in requests /\ requests' = requests \ {<<x, y>>}
      /\ follows' = follows \cup {<<x, y>>}
      /\ overtaken' = IF tearing[<<y, x>>] # "no" THEN overtaken \cup {<<x, y>>} ELSE overtaken
      /\ UNCHANGED <<accounts, blocks, mutes, domainBlocks, cleaning, status,
                     permitted, inserting, tearing>>
  BY DEF Authorize
<1>2. <<x, y>> \in Pairs /\ <<y, x>> \in Pairs
  BY <1>1 DEF FactsInv, FactsTypeOK, Pairs
<1>3. FactsTypeOK'
  BY <1>1 DEF FactsInv, FactsTypeOK, accounts, status
<1>4. UnderwayTypeOK'
  BY <1>1, <1>2 DEF FactsInv, UnderwayTypeOK, accounts
<1>5. overtaken \subseteq overtaken'
  BY <1>1
<1>6. SettledApart'
  <2> SUFFICES ASSUME NEW u \in Accounts, NEW v \in Accounts, <<u, v>> \in Settled
               PROVE  LeftOver(u, v)' \subseteq overtaken'
    BY <1>1 DEF SettledApart, Settled
  <2>1. LeftOver(u, v)' \subseteq LeftOver(u, v)
    BY <1>1 DEF LeftOver, Between
  <2> QED
    BY <1>5, <2>1 DEF FactsInv, SettledApart
<1>7. ComingApart'
  BY <1>1, <1>5 DEF FactsInv, ComingApart, OnTheWay, Between
<1>8. TearingApart'
  <2> SUFFICES ASSUME NEW u \in Accounts, NEW v \in Accounts, <<u, v>> \in blocks
               PROVE  /\ tearing[<<u, v>>] \in {"reverse", "requests"} /\ <<u, v>> \in follows'
                           => <<u, v>> \in overtaken'
                      /\ tearing[<<u, v>>] = "requests" /\ <<v, u>> \in follows'
                           => <<v, u>> \in overtaken'
    BY <1>1 DEF TearingApart
  <2>1. CASE u = y /\ v = x
    <3>1. tearing[<<u, v>>] # "no" => <<x, y>> \in overtaken'
      BY <1>1, <2>1
    <3>2. <<u, v>> \in follows' => <<u, v>> \in follows
      BY <1>1, <1>2, <2>1 DEF Pairs
    <3> QED
      BY <1>5, <2>1, <3>1, <3>2 DEF FactsInv, TearingApart
  <2>2. CASE u = x /\ v = y
    <3>1. y \notin local
      BY <2>2 DEF Authorize, CanProcessFollowRequest, Blocks
    <3>2. x \in local
      BY <3>1 DEF Authorize
    <3>3. tearing[<<u, v>>] = "no"
      BY <1>2, <2>2, <3>2 DEF FactsInv, UnderwayTypeOK
    <3> QED
      BY <3>3
  <2>3. CASE <<x, y>> \notin {<<u, v>>, <<v, u>>}
    BY <1>1, <1>5, <2>3 DEF FactsInv, TearingApart
  <2> QED
    BY <2>1, <2>2, <2>3
<1> QED
  BY <1>3, <1>4, <1>6, <1>7, <1>8 DEF FactsInv

LEMMA UnfollowKeeps ==
  ASSUME FactsInv, NEW x \in Accounts, NEW y \in Accounts, Unfollow(x, y)
  PROVE  FactsInv'
<1>1. FactsTypeOK' /\ UnderwayTypeOK'
  BY DEF FactsInv, FactsTypeOK, UnderwayTypeOK, Unfollow, accounts, status, underway
<1> QED
  BY <1>1, NothingComes DEF Unfollow, underway

\* A batch that deletes everything between x and y: a block, or the clean-up of a
\* domain block.
LEMMA BatchKeeps ==
  ASSUME FactsInv, NEW x \in Accounts, NEW y \in Accounts, FactsTypeOK', UnderwayTypeOK',
         follows' = follows \ Between(x, y), requests' = requests \ Between(x, y),
         overtaken' = (overtaken \ Between(x, y)) \cup OnTheWay(x, y),
         blocks' \subseteq blocks \cup {<<x, y>>},
         domainBlocks' \ cleaning' \subseteq (domainBlocks \ cleaning) \cup {<<x, y>>},
         UNCHANGED <<permitted, inserting, tearing>>
  PROVE  FactsInv'
<1>1. ASSUME NEW u \in Accounts, NEW v \in Accounts, Between(u, v) = Between(x, y)
      PROVE  /\ LeftOver(u, v)' = {}
             /\ OnTheWay(u, v)' \subseteq overtaken'
             /\ <<u, v>> \notin follows' /\ <<v, u>> \notin follows'
  <2>1. <<u, v>> \in Between(x, y) /\ <<v, u>> \in Between(x, y)
    BY <1>1 DEF Between
  <2>2. Between(u, v)' = Between(u, v)
    BY DEF Between
  <2>3. OnTheWay(u, v)' = OnTheWay(u, v) /\ OnTheWay(u, v) = OnTheWay(x, y)
    BY <1>1, <2>2 DEF OnTheWay
  <2>4. LeftOver(u, v)' = Between(u, v) \cap (follows' \cup requests')
    BY <2>2 DEF LeftOver
  <2> QED
    BY <1>1, <2>1, <2>3, <2>4
<1>2. ASSUME NEW u \in Accounts, NEW v \in Accounts, Between(u, v) # Between(x, y)
      PROVE  /\ <<u, v>> \notin Between(x, y) /\ <<v, u>> \notin Between(x, y)
             /\ <<u, v>> # <<x, y>>
             /\ LeftOver(u, v)' = LeftOver(u, v) /\ OnTheWay(u, v)' = OnTheWay(u, v)
             /\ \A p \in Between(u, v) : p \in overtaken => p \in overtaken'
  <2>1. <<u, v>> \notin Between(x, y) /\ <<v, u>> \notin Between(x, y)
    BY <1>2 DEF Between
  <2>2. <<u, v>> # <<x, y>>
    BY <2>1 DEF Between
  <2>3. \A p \in Between(u, v) : p \notin Between(x, y)
    BY <2>1 DEF Between
  <2>4. Between(u, v)' = Between(u, v)
    BY DEF Between
  <2>5. LeftOver(u, v)' = LeftOver(u, v) /\ OnTheWay(u, v)' = OnTheWay(u, v)
    BY <2>3, <2>4 DEF LeftOver, OnTheWay
  <2> QED
    BY <2>1, <2>2, <2>3, <2>5
<1>3. Settled' \subseteq Settled \cup {<<x, y>>}
  BY DEF Settled
<1>4. SettledApart'
  <2> SUFFICES ASSUME NEW u \in Accounts, NEW v \in Accounts, <<u, v>> \in Settled'
               PROVE  LeftOver(u, v)' \subseteq overtaken'
    BY DEF SettledApart
  <2>1. CASE Between(u, v) = Between(x, y)
    BY <1>1, <2>1
  <2>2. CASE Between(u, v) # Between(x, y)
    <3>1. <<u, v>> \in Settled
      BY <1>2, <1>3, <2>2
    <3>2. LeftOver(u, v) \subseteq overtaken /\ LeftOver(u, v) \subseteq Between(u, v)
      BY <3>1 DEF FactsInv, SettledApart, LeftOver
    <3> QED
      BY <1>2, <2>2, <3>2
  <2> QED
    BY <2>1, <2>2
<1>5. ComingApart'
  <2> SUFFICES ASSUME NEW u \in Accounts, NEW v \in Accounts,
                      <<u, v>> \in blocks' \cup (domainBlocks' \ cleaning')
               PROVE  OnTheWay(u, v)' \subseteq overtaken'
    BY DEF ComingApart
  <2>1. CASE Between(u, v) = Between(x, y)
    BY <1>1, <2>1
  <2>2. CASE Between(u, v) # Between(x, y)
    <3>1. <<u, v>> \in blocks \cup (domainBlocks \ cleaning)
      BY <1>2, <2>2
    <3>2. OnTheWay(u, v) \subseteq overtaken /\ OnTheWay(u, v) \subseteq Between(u, v)
      BY <3>1 DEF FactsInv, ComingApart, OnTheWay
    <3> QED
      BY <1>2, <2>2, <3>2
  <2> QED
    BY <2>1, <2>2
<1>6. TearingApart'
  <2> SUFFICES ASSUME NEW u \in Accounts, NEW v \in Accounts, <<u, v>> \in blocks'
               PROVE  /\ tearing[<<u, v>>] \in {"reverse", "requests"} /\ <<u, v>> \in follows'
                           => <<u, v>> \in overtaken'
                      /\ tearing[<<u, v>>] = "requests" /\ <<v, u>> \in follows'
                           => <<v, u>> \in overtaken'
    BY DEF TearingApart
  <2>1. CASE Between(u, v) = Between(x, y)
    BY <1>1, <2>1
  <2>2. CASE Between(u, v) # Between(x, y)
    <3>1. <<u, v>> \in blocks /\ <<u, v>> \in Between(u, v) /\ <<v, u>> \in Between(u, v)
      BY <1>2, <2>2 DEF Between
    <3> QED
      BY <1>2, <2>2, <3>1 DEF FactsInv, TearingApart
  <2> QED
    BY <2>1, <2>2
<1> QED
  BY <1>4, <1>5, <1>6 DEF FactsInv

LEMMA BlockKeeps ==
  ASSUME FactsInv, NEW x \in Accounts, NEW y \in Accounts, Block(x, y)
  PROVE  FactsInv'
<1>1. FactsTypeOK'
  BY DEF FactsInv, FactsTypeOK, Block, accounts, status
<1>2. UnderwayTypeOK'
  BY DEF FactsInv, UnderwayTypeOK, Block, OnTheWay, accounts
<1> QED
  BY <1>1, <1>2, BatchKeeps DEF Block

LEMMA CleanUpKeeps ==
  ASSUME FactsInv, NEW x \in Accounts, NEW y \in Accounts, CleanUpDomain(x, y)
  PROVE  FactsInv'
<1>1. FactsTypeOK'
  BY DEF FactsInv, FactsTypeOK, CleanUpDomain, accounts, status
<1>2. UnderwayTypeOK'
  BY DEF FactsInv, UnderwayTypeOK, CleanUpDomain, OnTheWay, accounts
<1> QED
  BY <1>1, <1>2, BatchKeeps DEF CleanUpDomain

\* A Block from the inbox is not settled before its deletions are over.
LEMMA InboxBlockKeeps ==
  ASSUME FactsInv, NEW x \in Accounts, NEW y \in Accounts, BlockFromInbox(x, y)
  PROVE  FactsInv'
<1>1. /\ <<x, y>> \in Pairs \ blocks /\ x \notin local
      /\ blocks' = blocks \cup {<<x, y>>}
      /\ tearing' = [tearing EXCEPT ![<<x, y>>] = "forward"]
      /\ overtaken' = overtaken \cup OnTheWay(x, y)
      /\ UNCHANGED <<accounts, follows, requests, mutes, domainBlocks, cleaning, status,
                     permitted, inserting>>
  BY DEF BlockFromInbox
<1>2. FactsTypeOK'
  BY <1>1 DEF FactsInv, FactsTypeOK, accounts, status
<1>3. UnderwayTypeOK'
  BY <1>1 DEF FactsInv, UnderwayTypeOK, OnTheWay, accounts
<1>4. \A p \in Pairs : tearing'[p] = IF p = <<x, y>> THEN "forward" ELSE tearing[p]
  BY <1>1 DEF FactsInv, UnderwayTypeOK
<1>5. SettledApart'
  <2>1. Settled' \subseteq Settled
    BY <1>1, <1>4 DEF Settled, FactsInv, FactsTypeOK
  <2>2. \A u, v \in Accounts : LeftOver(u, v)' = LeftOver(u, v)
    BY <1>1 DEF LeftOver, Between
  <2> QED
    BY <1>1, <2>1, <2>2 DEF FactsInv, SettledApart
<1>6. ComingApart'
  <2>1. \A u, v \in Accounts : OnTheWay(u, v)' = OnTheWay(u, v)
    BY <1>1 DEF OnTheWay, Between
  <2> QED
    BY <1>1, <2>1 DEF FactsInv, ComingApart
<1>7. TearingApart'
  <2> SUFFICES ASSUME NEW u \in Accounts, NEW v \in Accounts, <<u, v>> \in blocks'
               PROVE  /\ tearing'[<<u, v>>] \in {"reverse", "requests"} /\ <<u, v>> \in follows
                           => <<u, v>> \in overtaken'
                      /\ tearing'[<<u, v>>] = "requests" /\ <<v, u>> \in follows
                           => <<v, u>> \in overtaken'
    BY <1>1 DEF TearingApart
  <2>1. <<u, v>> \in Pairs
    BY <1>2 DEF FactsTypeOK
  <2>2. CASE <<u, v>> = <<x, y>>
    BY <1>4, <2>1, <2>2
  <2>3. CASE <<u, v>> # <<x, y>>
    BY <1>1, <1>4, <2>1, <2>3 DEF FactsInv, TearingApart
  <2> QED
    BY <2>2, <2>3
<1> QED
  BY <1>2, <1>3, <1>5, <1>6, <1>7 DEF FactsInv

\* Each deletion moves what TearingApart says on; after the last one everything is
\* deleted or named.
LEMMA TearDownKeeps ==
  ASSUME FactsInv, NEW x \in Accounts, NEW y \in Accounts, TearDown(x, y)
  PROVE  FactsInv'
<1>1. /\ <<x, y>> \in Pairs /\ tearing[<<x, y>>] # "no"
      /\ follows' \subseteq follows /\ requests' \subseteq requests
      /\ UNCHANGED <<accounts, blocks, mutes, domainBlocks, cleaning, status,
                     permitted, inserting, overtaken>>
  BY DEF TearDown
<1>2. /\ tearing' \in [Pairs -> {"no", "forward", "reverse", "requests"}]
      /\ \A p \in Pairs : p # <<x, y>> => tearing'[p] = tearing[p]
  BY <1>1 DEF TearDown, FactsInv, UnderwayTypeOK
<1>3. FactsTypeOK'
  BY <1>1 DEF FactsInv, FactsTypeOK, accounts, status
<1>4. UnderwayTypeOK'
  BY <1>1, <1>2 DEF FactsInv, UnderwayTypeOK, accounts
<1>5. \A u, v \in Accounts : /\ LeftOver(u, v)' \subseteq LeftOver(u, v)
                             /\ OnTheWay(u, v)' = OnTheWay(u, v)
  BY <1>1 DEF LeftOver, OnTheWay, Between
<1>6. ComingApart'
  BY <1>1, <1>5 DEF FactsInv, ComingApart
<1>7. SettledApart'
  <2> SUFFICES ASSUME NEW u \in Accounts, NEW v \in Accounts, <<u, v>> \in Settled'
               PROVE  LeftOver(u, v)' \subseteq overtaken
    BY <1>1 DEF SettledApart
  <2>1. CASE <<u, v>> \in Settled
    BY <1>5, <2>1 DEF FactsInv, SettledApart
  <2>2. CASE <<u, v>> \notin Settled
    <3>1. <<u, v>> \in blocks /\ <<u, v>> = <<x, y>> /\ tearing'[<<x, y>>] = "no"
      BY <1>1, <1>2, <2>2 DEF Settled, FactsInv, FactsTypeOK
    <3>2. /\ tearing[<<x, y>>] = "requests" /\ requests' = requests \ Between(x, y)
          /\ follows' = follows
      BY <1>1, <3>1 DEF TearDown, FactsInv, UnderwayTypeOK
    <3>3. Between(x, y) \cap follows \subseteq overtaken
      BY <3>1, <3>2 DEF FactsInv, TearingApart, Between
    <3>4. u = x /\ v = y
      BY <3>1
    <3>5. LeftOver(u, v)' = Between(x, y) \cap follows
      BY <3>2, <3>4 DEF LeftOver, Between
    <3> QED
      BY <3>3, <3>5
  <2> QED
    BY <2>1, <2>2
<1>8. TearingApart'
  <2> SUFFICES ASSUME NEW u \in Accounts, NEW v \in Accounts, <<u, v>> \in blocks
               PROVE  /\ tearing'[<<u, v>>] \in {"reverse", "requests"} /\ <<u, v>> \in follows'
                           => <<u, v>> \in overtaken
                      /\ tearing'[<<u, v>>] = "requests" /\ <<v, u>> \in follows'
                           => <<v, u>> \in overtaken
    BY <1>1 DEF TearingApart
  <2>1. <<u, v>> \in Pairs
    BY DEF FactsInv, FactsTypeOK
  <2>2. CASE <<u, v>> # <<x, y>>
    BY <1>1, <1>2, <2>1, <2>2 DEF FactsInv, TearingApart
  <2>3. CASE <<u, v>> = <<x, y>>
    <3>1. u = x /\ v = y
      BY <2>3
    <3>2. tearing \in [Pairs -> {"no", "forward", "reverse", "requests"}]
      BY DEF FactsInv, UnderwayTypeOK
    <3>3. CASE tearing[<<x, y>>] = "forward"
      <4>1. <<x, y>> \notin follows' /\ tearing'[<<x, y>>] = "reverse"
        BY <1>1, <3>2, <3>3 DEF TearDown
      <4> QED
        BY <3>1, <4>1
    <3>4. CASE tearing[<<x, y>>] = "reverse"
      <4>1. <<y, x>> \notin follows' /\ tearing'[<<x, y>>] = "requests"
        BY <1>1, <3>2, <3>4 DEF TearDown
      <4> QED
        BY <1>1, <3>1, <3>4, <4>1 DEF FactsInv, TearingApart
    <3>5. CASE tearing[<<x, y>>] = "requests"
      <4>1. tearing'[<<x, y>>] = "no"
        BY <1>1, <3>2, <3>5 DEF TearDown
      <4> QED
        BY <3>1, <4>1
    <3> QED
      BY <1>1, <3>2, <3>3, <3>4, <3>5
  <2> QED
    BY <2>2, <2>3
<1> QED
  BY <1>3, <1>4, <1>6, <1>7, <1>8 DEF FactsInv

\* What an interrupted Block leaves is named.
LEMMA CutBlockKeeps ==
  ASSUME FactsInv, NEW x \in Accounts, NEW y \in Accounts, CutBlock(x, y)
  PROVE  FactsInv'
<1>1. /\ <<x, y>> \in Pairs /\ tearing' = [tearing EXCEPT ![<<x, y>>] = "no"]
      /\ overtaken' = overtaken \cup LeftOver(x, y)
      /\ UNCHANGED <<facts, permitted, inserting>>
  BY DEF CutBlock, LeftOver
<1>2. /\ UNCHANGED <<local, suspended, silenced, moved, disabled, approved>>
      /\ UNCHANGED <<follows, requests, blocks, mutes, domainBlocks, cleaning>>
      /\ UNCHANGED <<visibility, deleted, mentioned, threadMuted>>
  BY <1>1 DEF facts, accounts, pairs, status
<1>3. FactsTypeOK'
  BY <1>2 DEF FactsInv, FactsTypeOK
<1>4. \A p \in Pairs : tearing'[p] = IF p = <<x, y>> THEN "no" ELSE tearing[p]
  BY <1>1 DEF FactsInv, UnderwayTypeOK
<1>5. UnderwayTypeOK'
  BY <1>1, <1>2 DEF FactsInv, FactsTypeOK, UnderwayTypeOK, LeftOver
<1>6. \A u, v \in Accounts : /\ LeftOver(u, v)' = LeftOver(u, v)
                             /\ OnTheWay(u, v)' = OnTheWay(u, v)
  BY <1>1, <1>2 DEF LeftOver, OnTheWay, Between
<1>7. SettledApart'
  <2> SUFFICES ASSUME NEW u \in Accounts, NEW v \in Accounts, <<u, v>> \in Settled'
               PROVE  LeftOver(u, v) \subseteq overtaken'
    BY <1>6 DEF SettledApart
  <2>1. CASE <<u, v>> \in Settled
    BY <1>1, <2>1 DEF FactsInv, SettledApart
  <2>2. CASE <<u, v>> \notin Settled
    <3>1. <<u, v>> = <<x, y>>
      BY <1>2, <1>4, <2>2 DEF Settled, FactsInv, FactsTypeOK
    <3>2. u = x /\ v = y
      BY <3>1
    <3> QED
      BY <1>1, <3>2
  <2> QED
    BY <2>1, <2>2
<1>8. ComingApart'
  BY <1>1, <1>2, <1>6 DEF FactsInv, ComingApart
<1>9. TearingApart'
  <2>1. \A u, v \in Accounts : <<u, v>> \in blocks => <<u, v>> \in Pairs
    BY DEF FactsInv, FactsTypeOK
  <2> QED
    BY <1>1, <1>2, <1>4, <2>1 DEF FactsInv, TearingApart
<1> QED
  BY <1>3, <1>5, <1>7, <1>8, <1>9 DEF FactsInv

LEMMA UnblockKeeps ==
  ASSUME FactsInv, NEW x \in Accounts, NEW y \in Accounts, Unblock(x, y)
  PROVE  FactsInv'
<1>1. FactsTypeOK' /\ UnderwayTypeOK'
  BY DEF FactsInv, FactsTypeOK, UnderwayTypeOK, Unblock, accounts, status, underway
<1> QED
  BY <1>1, NothingComes DEF Unblock, underway

LEMMA MuteKeeps ==
  ASSUME FactsInv, NEW x \in Accounts, NEW y \in Accounts, Mute(x, y)
  PROVE  FactsInv'
<1>1. FactsTypeOK' /\ UnderwayTypeOK'
  BY DEF FactsInv, FactsTypeOK, UnderwayTypeOK, Mute, accounts, status, underway
<1> QED
  BY <1>1, NothingComes DEF Mute, underway

LEMMA BlockDomainKeeps ==
  ASSUME FactsInv, NEW x \in Accounts, NEW y \in Accounts, BlockDomain(x, y)
  PROVE  FactsInv'
<1>1. FactsTypeOK'
  BY DEF FactsInv, FactsTypeOK, BlockDomain, Operates, accounts, status
<1>2. UnderwayTypeOK'
  BY DEF FactsInv, UnderwayTypeOK, BlockDomain, accounts, underway
<1> QED
  BY <1>1, <1>2, NothingComes DEF BlockDomain, underway

LEMMA UnblockDomainKeeps ==
  ASSUME FactsInv, NEW x \in Accounts, NEW y \in Accounts, UnblockDomain(x, y)
  PROVE  FactsInv'
<1>1. FactsTypeOK' /\ UnderwayTypeOK'
  BY DEF FactsInv, FactsTypeOK, UnderwayTypeOK, UnblockDomain, accounts, status, underway
<1> QED
  BY <1>1, NothingComes DEF UnblockDomain, underway

\* A step that changes no pair.
LEMMA SamePairs ==
  ASSUME FactsInv, FactsTypeOK', UNCHANGED <<local, pairs, underway>>
  PROVE  FactsInv'
<1>1. UnderwayTypeOK'
  BY DEF FactsInv, UnderwayTypeOK, underway
<1> QED
  BY <1>1, NothingComes DEF pairs, underway

LEMMA ModerateKeeps ==
  ASSUME FactsInv, NEW x \in Accounts, Moderate(x)
  PROVE  FactsInv'
<1>1. \A S \in SUBSET Accounts : Flip(S, x) \subseteq Accounts
  BY DEF Flip
<1>2. disabled' \subseteq local' /\ approved' \subseteq local'
  BY DEF Moderate, Flip, FactsInv, FactsTypeOK
<1>3. suspended' \subseteq Accounts /\ silenced' \subseteq Accounts /\ moved' \subseteq Accounts
  BY <1>1 DEF Moderate, FactsInv, FactsTypeOK
<1>4. FactsTypeOK'
  BY <1>2, <1>3 DEF Moderate, FactsInv, FactsTypeOK, pairs, status
<1> QED
  BY <1>4, SamePairs DEF Moderate

LEMMA MuteThreadKeeps ==
  ASSUME FactsInv, NEW x \in Accounts, MuteThread(x)
  PROVE  FactsInv'
<1>1. FactsTypeOK'
  BY DEF FactsInv, FactsTypeOK, MuteThread, Flip, accounts, pairs
<1> QED
  BY <1>1, SamePairs DEF MuteThread, accounts

LEMMA DeleteKeeps == FactsInv /\ DeleteStatus => FactsInv'
<1> SUFFICES ASSUME FactsInv, DeleteStatus
             PROVE  FactsInv'
  OBVIOUS
<1>1. FactsTypeOK'
  BY DEF FactsInv, FactsTypeOK, DeleteStatus, accounts, pairs
<1> QED
  BY <1>1, SamePairs DEF DeleteStatus, accounts

LEMMA SameFacts == FactsInv /\ UNCHANGED <<facts, underway>> => FactsInv'
<1> SUFFICES ASSUME FactsInv, UNCHANGED <<facts, underway>>
             PROVE  FactsInv'
  OBVIOUS
<1>1. FactsTypeOK'
  BY DEF FactsInv, FactsTypeOK, facts, accounts, pairs, status
<1> QED
  BY <1>1, SamePairs DEF facts, accounts

LEMMA NextFacts == FactsInv /\ [Next]_vars => FactsInv'
<1> SUFFICES ASSUME FactsInv, [Next]_vars
             PROVE  FactsInv'
  OBVIOUS
<1>1. CASE Change
  <2>1. ASSUME NEW x \in Accounts, NEW y \in Accounts, Relate(x, y)
        PROVE  FactsInv'
    BY <2>1, FollowKeeps, AuthorizeKeeps, UnfollowKeeps, BlockKeeps, InboxBlockKeeps,
       UnblockKeeps, MuteKeeps, BlockDomainKeeps, UnblockDomainKeeps DEF Relate
  <2>2. ASSUME NEW x \in Accounts, Moderate(x) \/ MuteThread(x)
        PROVE  FactsInv'
    BY <2>2, ModerateKeeps, MuteThreadKeeps
  <2> QED
    BY <1>1, <2>1, <2>2, DeleteKeeps DEF Change
<1>2. ASSUME NEW x \in Accounts, NEW y \in Accounts, Continue(x, y)
      PROVE  FactsInv'
  BY <1>2, LookUpKeeps, InsertFollowKeeps, TearDownKeeps, CutBlockKeeps, CleanUpKeeps
     DEF Continue
<1>3. CASE UNCHANGED <<facts, underway>>
  BY <1>3, SameFacts
<1> QED
  BY <1>1, <1>2, <1>3 DEF Next, vars

\* The rows stay well formed, and what is left between accounts that a block parts,
\* or is on its way there, is named.
THEOREM RowsTornDown == Spec => []FactsInv
BY InitFacts, NextFacts, PTL DEF Spec

-----------------------------------------------------------------------------
(* The decisions agree. *)

LEMMA StatusDecisions ==
  ASSUME FactsTypeOK, NEW x \in Viewers
  PROVE  /\ SqlVisible(x) <=> CanViewRecord(x)
         /\ SqlSurface(x) <=> CanSurfaceStatus(x, Muted(x, Author))
<1>1. Author \in Accounts /\ Nobody \notin Accounts /\ ~Blocks(Author, Author)
  BY PermissionsAssumption DEF FactsTypeOK, Blocks, Pairs
<1>2. SqlVisible(x) <=> CanViewRecord(x)
  BY <1>1 DEF SqlVisible, CanViewRecord, CanViewStatus, Visibilities, Open, FactsTypeOK, Viewers
<1>3. Nobody \in Viewers => ~Follows(Nobody, Author) /\ ~Blocks(Author, Nobody)
  BY <1>1 DEF FactsTypeOK, Follows, Blocks, Pairs
<1>4. SqlVisible(x) /\ SqlRelationship(x) <=> CanSurfaceStatus(x, Muted(x, Author))
  BY <1>1, <1>3 DEF SqlVisible, SqlRelationship, CanSurfaceStatus, Viewable, CanViewStatus,
     Apart, Visibilities, Open, FactsTypeOK, Viewers
<1> QED
  BY <1>2, <1>4 DEF SqlSurface

LEMMA AccountDecisions ==
  ASSUME FactsTypeOK, NEW x \in Viewers, NEW y \in Accounts
  PROVE  /\ SqlSearch(x, y) <=> CanSearchAccount(x, y)
         /\ SqlDiscovery(x, y) <=> CanSurfaceAccount(x, y)
BY DEF SqlSearch, CanSearchAccount, SqlDiscovery, CanSurfaceAccount, Apart

LEMMA RequestDecisions ==
  ASSUME FactsTypeOK, NEW p \in requests
  PROVE  SqlActionableRequest(p[1], p[2]) <=> CanProcessFollowRequest(p[1], p[2])
BY DEF SqlActionableRequest, CanProcessFollowRequest, Originates

\* The decisions in code and in SQL agree in every state, for any accounts.
THEOREM AllDecisionsAgree == Spec => []DecisionsAgree
<1>1. FactsInv => DecisionsAgree
  BY StatusDecisions, AccountDecisions, RequestDecisions DEF FactsInv, DecisionsAgree
<1> QED
  BY <1>1, RowsTornDown, PTL

-----------------------------------------------------------------------------
(* A block ends access. *)

\* Whoever finds the status by himself in a list or a notification may fetch it.
LEMMA ViewableIsFetched ==
  ASSUME FactsTypeOK, NEW x \in Viewers, Viewable(x), Author \notin suspended
  PROVE  CanViewRecord(x)
BY PermissionsAssumption DEF Viewable, CanViewRecord, CanViewStatus, Open, Visibilities,
   FactsTypeOK, Viewers

LEMMA ReachedIsFetched ==
  ASSUME FactsTypeOK, NEW x \in Viewers, Reached(x)
  PROVE  CanViewRecord(x)
<1>1. SqlVisible(x) => CanViewRecord(x)
  BY StatusDecisions
<1>2. CASE SqlSurface(x) \/ SqlReblogOriginal(x)
  BY <1>1, <1>2 DEF SqlSurface, SqlReblogOriginal
<1>3. CASE CanInteract(x)
  BY <1>3 DEF CanInteract
<1>4. CASE \E policy \in Policies : CanQuoteRecord(x, policy)
  BY <1>4 DEF CanQuoteRecord, CanQuoteStatus
<1>5. ASSUME NEW n \in Notes, n.about, n.to = x, SqlNotification(n)
      PROVE  CanViewRecord(x)
  BY <1>1, <1>5 DEF SqlNotification
<1>6. ASSUME NEW n \in Notes, n.about, n.to = x, CanDeliverNotification(n)
      PROVE  CanViewRecord(x)
  BY <1>6, ViewableIsFetched DEF CanDeliverNotification, CanSurfaceStatus
<1> QED
  BY <1>2, <1>3, <1>4, <1>5, <1>6 DEF Reached

\* A follow between accounts whose block is settled is one of those named.
LEMMA NoFollowAcross ==
  ASSUME FactsInv, NEW x \in Accounts, NEW y \in Accounts,
         Between(x, y) \cap Settled # {}, Follows(x, y)
  PROVE  <<x, y>> \in overtaken
<1>1. <<x, y>> \in LeftOver(x, y) /\ <<x, y>> \in LeftOver(y, x)
  BY DEF LeftOver, Between, Follows
<1>2. <<x, y>> \in Settled \/ <<y, x>> \in Settled
  BY DEF Between
<1> QED
  BY <1>1, <1>2 DEF FactsInv, SettledApart

LEMMA BlockedFromOpen ==
  ASSUME NEW x \in Accounts \ {Author}, Blocks(Author, x)
  PROVE  ~(CanViewRecord(x) /\ Open)
BY PermissionsAssumption DEF CanViewRecord, CanViewStatus, Open

\* To fetch a private or direct status across a settled block x must be mentioned,
\* but for the follows that are named.
LEMMA SettledIsOutside ==
  ASSUME FactsInv, NEW x \in Accounts \ {Author},
         Between(x, Author) \cap Settled # {}, CanViewRecord(x), ~Open
  PROVE  x \in mentioned \/ <<x, Author>> \in overtaken
<1>1. Author \in Accounts
  BY PermissionsAssumption
<1>2. Follows(x, Author) => <<x, Author>> \in overtaken
  BY <1>1, NoFollowAcross
<1>3. Follows(x, Author) \/ x \in mentioned
  BY DEF CanViewRecord, CanViewStatus
<1> QED
  BY <1>2, <1>3

LEMMA ApartIsOutside ==
  ASSUME FactsInv, NEW x \in Accounts \ {Author},
         Between(x, Author) \cap (blocks \cup domainBlocks) # {}
  PROVE  /\ x \in local => ~SqlSurface(x) /\ ~SqlReblogOriginal(x)
         /\ x \notin local => ~CanInteractFromInbox(x)
         /\ \A n \in Notes : {n.to, n.from} = {x, Author} /\ n.to \in local =>
              ~SqlNotification(n) /\ ~CanDeliverNotification(n)
<1>1. Author \in Accounts
  BY PermissionsAssumption
<1>2. \/ <<x, Author>> \in blocks \/ <<Author, x>> \in blocks
      \/ <<x, Author>> \in domainBlocks /\ x \in local /\ Author \notin local
      \/ <<Author, x>> \in domainBlocks /\ Author \in local /\ x \notin local
  <2>1. \/ <<x, Author>> \in blocks \/ <<Author, x>> \in blocks
        \/ <<x, Author>> \in domainBlocks \/ <<Author, x>> \in domainBlocks
    BY DEF Between
  <2> QED
    BY <2>1 DEF FactsInv, FactsTypeOK
<1>4. ASSUME x \in local
      PROVE  Apart(x, Author)
  BY <1>2, <1>4 DEF Apart, Blocks, BlocksDomain
<1>5. x \in local => ~SqlSurface(x) /\ ~SqlReblogOriginal(x)
  BY <1>4 DEF SqlSurface, SqlReblogOriginal, SqlRelationship
<1>6. x \notin local => ~CanInteractFromInbox(x)
  BY <1>2 DEF CanInteractFromInbox, CanInteract, Blocks, BlocksDomain
<1>7. ASSUME NEW n \in Notes, {n.to, n.from} = {x, Author}, n.to \in local
      PROVE  ~SqlNotification(n) /\ ~CanDeliverNotification(n)
  <2>1. (n.to = x /\ n.from = Author) \/ (n.to = Author /\ n.from = x)
    <3>1. n.to \in {x, Author} /\ n.from \in {x, Author}
      BY <1>7
    <3>2. x \in {n.to, n.from} /\ Author \in {n.to, n.from}
      BY <1>7
    <3> QED
      BY <3>1, <3>2
  <2>2. Apart(n.to, n.from)
    BY <1>2, <1>7, <2>1 DEF Apart, Blocks, BlocksDomain
  <2> QED
    BY <2>2 DEF SqlNotification, SqlNotificationRelationship, CanDeliverNotification, Apart
<1> QED
  BY <1>5, <1>6, <1>7

\* A block ends what the other reaches, for any accounts: nobody reaches a status
\* that he may not fetch, no list or notification crosses a block, and once its
\* deletions are over a follow opens a private status only if it is one of the
\* three that the code leaves: allowed before the block and inserted after it,
\* accepted while a Block from the inbox was deleting, or left by one that was
\* interrupted.
THEOREM BlocksHold == Spec => []BlockEndsAccess
<1>1. FactsInv => BlockEndsAccess
  <2> SUFFICES ASSUME FactsInv
               PROVE  BlockEndsAccess
    OBVIOUS
  <2>1. \A x \in Viewers : CanViewRecord(x) \/ ~Reached(x)
    BY ReachedIsFetched DEF FactsInv
  <2>2. \A x \in Accounts \ {Author} : Blocks(Author, x) => ~(CanViewRecord(x) /\ Open)
    BY BlockedFromOpen
  <2> QED
    BY <2>1, <2>2, ApartIsOutside, SettledIsOutside DEF BlockEndsAccess
<1> QED
  BY <1>1, RowsTornDown, PTL

-----------------------------------------------------------------------------
(* The queue handlers: types and counts. *)

Doing(phase) == {h \in Handlers : handler[h].phase = phase}

\* Each row has a delivery of its message, and each push a row: what the types of
\* notifications and pushes rest on.
Counted ==
  /\ \A phase \in {"insert", "enqueue", "send"} : IsFiniteSet(Doing(phase))
  /\ notifications + Cardinality(Doing("insert")) <= copies
  /\ pushes + Cardinality(Doing("enqueue")) + Cardinality(Doing("send")) <= notifications

\* While no two deliveries have looked before either inserted, there is one row
\* or one delivery about to insert it.
Single == ~overlapped => notifications + Cardinality(Doing("insert")) <= 1

QueueInv == QueueTypeOK /\ Counted /\ Single

HandlerStates == {Idle} \cup Notifying \cup FanOuts

\* One handler goes on, the others stay where they are, and the sets of handlers
\* in a phase change by that handler.
LEMMA OneHandler ==
  ASSUME QueueInv, NEW h \in Handlers, NEW x \in HandlerStates,
         handler' = [handler EXCEPT ![h] = x],
         NEW phase \in {"insert", "enqueue", "send"}
  PROVE  /\ handler' \in [Handlers -> HandlerStates]
         /\ handler'[h] = x /\ \A k \in Handlers : k # h => handler'[k] = handler[k]
         /\ IsFiniteSet(Doing(phase)) /\ Cardinality(Doing(phase)) \in Nat
         /\ IsFiniteSet(Doing(phase)')
         /\ Cardinality(Doing(phase)') =
              Cardinality(Doing(phase)) + (IF x.phase = phase THEN 1 ELSE 0)
                                        - (IF handler[h].phase = phase THEN 1 ELSE 0)
<1>1. handler \in [Handlers -> HandlerStates]
  BY DEF QueueInv, QueueTypeOK, HandlerStates, Notifying
<1>2. /\ handler' \in [Handlers -> HandlerStates]
      /\ handler'[h] = x /\ \A k \in Handlers : k # h => handler'[k] = handler[k]
  BY <1>1
<1>3. IsFiniteSet(Doing(phase)) /\ Cardinality(Doing(phase)) \in Nat
  BY FS_CardinalityType DEF QueueInv, Counted
<1>4. h \in Doing(phase) <=> handler[h].phase = phase
  BY DEF Doing
<1>5. CASE x.phase = phase /\ handler[h].phase # phase
  <2>1. Doing(phase)' = Doing(phase) \cup {h} /\ h \notin Doing(phase)
    BY <1>2, <1>5 DEF Doing
  <2>2. /\ IsFiniteSet(Doing(phase)')
        /\ Cardinality(Doing(phase)') = Cardinality(Doing(phase)) + 1
    BY <1>3, <2>1, FS_AddElement
  <2> QED
    BY <1>2, <1>3, <1>5, <2>2
<1>6. CASE x.phase # phase /\ handler[h].phase = phase
  <2>1. Doing(phase)' = Doing(phase) \ {h} /\ h \in Doing(phase)
    BY <1>2, <1>6 DEF Doing
  <2> QED
    BY <1>2, <1>3, <1>6, <2>1, FS_RemoveElement
<1>7. CASE x.phase = phase <=> handler[h].phase = phase
  <2>1. Doing(phase)' = Doing(phase)
    BY <1>2, <1>7 DEF Doing
  <2> QED
    BY <1>2, <1>3, <1>7, <2>1
<1> QED
  BY <1>5, <1>6, <1>7

\* The same for the three phases that are counted.
LEMMA CountHandlers ==
  ASSUME QueueInv, NEW h \in Handlers, NEW x \in HandlerStates,
         handler' = [handler EXCEPT ![h] = x]
  PROVE  /\ handler' \in [Handlers -> HandlerStates]
         /\ \A phase \in {"insert", "enqueue", "send"} :
              /\ IsFiniteSet(Doing(phase)')
              /\ Cardinality(Doing(phase)) \in Nat
              /\ Cardinality(Doing(phase)') =
                   Cardinality(Doing(phase)) + (IF x.phase = phase THEN 1 ELSE 0)
                                             - (IF handler[h].phase = phase THEN 1 ELSE 0)
<1>1. /\ handler' \in [Handlers -> HandlerStates]
      /\ handler'[h] = x /\ \A k \in Handlers : k # h => handler'[k] = handler[k]
  BY OneHandler
<1> QED
  BY <1>1, OneHandler

LEMMA InitQueue == Init => QueueInv
<1> SUFFICES ASSUME Init
             PROVE  QueueInv
  OBVIOUS
<1>1. QueueTypeOK
  <2>1. handler \in [Handlers -> {Idle} \cup Notifying \cup FanOuts]
    BY DEF Init
  <2>2. /\ 0 \in 0 .. MaxCopies /\ 0 \in 0 .. 0 /\ 0 \in 0 .. MaxChanges
    BY PermissionsAssumption
  <2> QED
    BY <2>1, <2>2 DEF Init, QueueTypeOK, Notifying
<1>2. \A h \in Handlers : handler[h].phase = "idle"
  BY DEF Init, Idle
<1>3. \A phase \in {"insert", "enqueue", "send"} : Doing(phase) = {}
  BY <1>2 DEF Doing
<1>4. \A phase \in {"insert", "enqueue", "send"} :
        IsFiniteSet(Doing(phase)) /\ Cardinality(Doing(phase)) = 0
  BY <1>3, FS_EmptySet
<1>5. Counted /\ Single
  BY <1>4 DEF Init, Counted, Single
<1> QED
  BY <1>1, <1>5 DEF QueueInv

LEMMA CheckKeepsQueue ==
  ASSUME QueueInv, NEW h \in Handlers, Check(h), changes' = changes
  PROVE  QueueInv'
<1>1. /\ copies < MaxCopies /\ copies' = copies + 1 /\ handler[h] = Idle
      /\ UNCHANGED <<note, notifications, pushes>>
  BY DEF Check, Busy
<1>2. /\ copies \in 0 .. MaxCopies /\ notifications \in 0 .. MaxCopies
      /\ pushes \in 0 .. notifications /\ changes \in 0 .. MaxChanges /\ MaxCopies \in Nat
      /\ note \in Notes \cup {NoNote} /\ overlapped \in BOOLEAN /\ MaxChanges \in Nat
  BY PermissionsAssumption DEF QueueInv, QueueTypeOK
<1>3. CASE notifications = 0 /\ Begin(h, "insert")
           /\ overlapped' = (overlapped \/ \E k \in Handlers : At(k, "insert"))
  <2> DEFINE x == [phase |-> "insert", fresh |-> TRUE]
  <2>1. x \in HandlerStates /\ x.phase = "insert"
    BY DEF HandlerStates, Notifying
  <2>2. handler' = [handler EXCEPT ![h] = x]
    BY <1>3 DEF Begin
  <2> HIDE DEF x
  <2>3. handler[h].phase = "idle"
    BY <1>1 DEF Idle
  <2>9. /\ handler' \in [Handlers -> HandlerStates]
        /\ \A phase \in {"insert", "enqueue", "send"} :
             /\ IsFiniteSet(Doing(phase)') /\ Cardinality(Doing(phase)) \in Nat
             /\ Cardinality(Doing(phase)') =
                  Cardinality(Doing(phase)) + (IF x.phase = phase THEN 1 ELSE 0)
                                            - (IF handler[h].phase = phase THEN 1 ELSE 0)
    BY <2>1, <2>2, CountHandlers
  <2>4. /\ handler' \in [Handlers -> HandlerStates]
        /\ \A phase \in {"insert", "enqueue", "send"} :
             IsFiniteSet(Doing(phase)') /\ Cardinality(Doing(phase)) \in Nat
        /\ Cardinality(Doing("insert")') = Cardinality(Doing("insert")) + 1
        /\ Cardinality(Doing("enqueue")') = Cardinality(Doing("enqueue"))
        /\ Cardinality(Doing("send")') = Cardinality(Doing("send"))
    BY <2>1, <2>3, <2>9
  <2>5. QueueTypeOK'
    BY <1>1, <1>2, <1>3, <2>4 DEF QueueTypeOK, HandlerStates, Notifying
  <2>6. Counted'
    BY <1>1, <1>2, <2>4 DEF QueueInv, Counted
  <2>7. ASSUME ~overlapped'
        PROVE  Cardinality(Doing("insert")) = 0
    <3>1. \A k \in Handlers : ~At(k, "insert")
      BY <1>3, <2>7
    <3>2. \A k \in Handlers : handler[k].phase = "insert" => handler[k] # Idle
      BY DEF Idle
    <3>3. Doing("insert") = {}
      BY <3>1, <3>2 DEF Doing, At, Busy
    <3> QED
      BY <3>3, FS_EmptySet
  <2>8. Single'
    BY <1>1, <1>3, <2>4, <2>7 DEF Single
  <2> QED
    BY <2>4, <2>5, <2>6, <2>8 DEF QueueInv
<1>4. CASE UNCHANGED <<handler, overlapped>>
  <2>1. QueueTypeOK'
    BY <1>1, <1>2, <1>4 DEF QueueInv, QueueTypeOK
  <2>2. \A phase : Doing(phase)' = Doing(phase)
    BY <1>4 DEF Doing
  <2>3. \A phase \in {"insert", "enqueue", "send"} : Cardinality(Doing(phase)) \in Nat
    BY FS_CardinalityType DEF QueueInv, Counted
  <2>4. Counted' /\ Single'
    BY <1>1, <1>2, <1>4, <2>2, <2>3 DEF QueueInv, Counted, Single
  <2> QED
    BY <2>1, <2>4 DEF QueueInv
<1> QED
  BY <1>3, <1>4 DEF Check

\* What the steps of a handler that notifies have in common.
LEMMA StepKeepsQueue ==
  ASSUME QueueInv, NEW h \in Handlers, NEW x \in HandlerStates,
         handler' = [handler EXCEPT ![h] = x],
         UNCHANGED <<note, copies, overlapped, changes>>,
         x.phase = "insert" => handler[h].phase = "insert",
         notifications' = IF handler[h].phase = "insert" /\ x.phase = "enqueue"
                            THEN notifications + 1 ELSE notifications,
         x.phase = "enqueue" => handler[h].phase = "insert",
         \/ x.phase # "send" /\ pushes' = pushes
         \/ x.phase # "send" /\ handler[h].phase \in {"send", "enqueue"} /\ pushes' = pushes + 1
         \/ handler[h].phase # "send" /\ pushes > 0 /\ pushes' = pushes - 1
  PROVE  QueueInv'
<1>1. /\ copies \in 0 .. MaxCopies /\ notifications \in 0 .. MaxCopies
      /\ pushes \in 0 .. notifications /\ changes \in 0 .. MaxChanges /\ MaxCopies \in Nat
      /\ note \in Notes \cup {NoNote} /\ overlapped \in BOOLEAN
  BY PermissionsAssumption DEF QueueInv, QueueTypeOK
<1> DEFINE ins == Cardinality(Doing("insert"))
           enq == Cardinality(Doing("enqueue"))
           snd == Cardinality(Doing("send"))
           One(b) == IF b THEN 1 ELSE 0
<1>2. /\ handler' \in [Handlers -> HandlerStates]
      /\ \A phase \in {"insert", "enqueue", "send"} : IsFiniteSet(Doing(phase)')
      /\ ins \in Nat /\ enq \in Nat /\ snd \in Nat
      /\ ins' = ins + One(x.phase = "insert") - One(handler[h].phase = "insert")
      /\ enq' = enq + One(x.phase = "enqueue") - One(handler[h].phase = "enqueue")
      /\ snd' = snd + One(x.phase = "send") - One(handler[h].phase = "send")
  BY CountHandlers
<1>3. ins' \in Nat /\ enq' \in Nat /\ snd' \in Nat
  BY <1>2, FS_CardinalityType
<1>4. /\ notifications + ins <= copies /\ pushes + enq + snd <= notifications
      /\ ~overlapped => notifications + ins <= 1
  BY DEF QueueInv, Counted, Single
<1> HIDE DEF ins, enq, snd
<1>5. notifications' + ins' <= notifications + ins
  BY <1>1, <1>2, <1>3
<1>6. /\ pushes' \in Nat /\ notifications' \in Nat
      /\ pushes' + enq' + snd' <= notifications'
  BY <1>1, <1>2, <1>3, <1>4
<1>7. /\ notifications' + ins' <= copies
      /\ ~overlapped => notifications' + ins' <= 1
  BY <1>1, <1>2, <1>3, <1>4, <1>5, <1>6
<1>8. notifications' \in 0 .. MaxCopies /\ pushes' \in 0 .. notifications'
  <2>1. copies \in Nat
    BY <1>1
  <2>2. notifications' <= notifications' + ins'
    BY <1>3, <1>6
  <2>3. notifications' <= copies
    BY <1>3, <1>6, <1>7, <2>1, <2>2
  <2>4. notifications' <= MaxCopies
    BY <1>1, <1>6, <2>3
  <2>5. pushes' <= notifications'
    BY <1>2, <1>3, <1>6
  <2> QED
    BY <1>6, <2>4, <2>5
<1>9. QueueTypeOK'
  BY <1>1, <1>2, <1>8 DEF QueueTypeOK, HandlerStates, Notifying
<1>10. copies' = copies /\ overlapped' = overlapped
  OBVIOUS
<1>11. Counted'
  BY <1>2, <1>6, <1>7, <1>10 DEF Counted, ins, enq, snd
<1>12. Single'
  BY <1>7, <1>10 DEF Single, ins
<1> QED
  BY <1>9, <1>11, <1>12 DEF QueueInv

\* The phase tells what kind of run a handler holds.
LEMMA HandlerKinds ==
  ASSUME QueueInv, NEW h \in Handlers
  PROVE  /\ handler[h] \in HandlerStates
         /\ handler[h] = Idle <=> handler[h].phase = "idle"
         /\ handler[h] \in Notifying <=> handler[h].phase \in {"insert", "enqueue", "send"}
         /\ handler[h] \in FanOuts <=> handler[h].phase \in
              {"audience", "recheck", "payload", "stream", "public", "broadcast"}
<1>1. handler[h] \in HandlerStates
  BY DEF QueueInv, QueueTypeOK, HandlerStates, Notifying
<1>2. Idle.phase = "idle"
  BY DEF Idle
<1>3. \A x \in Notifying : x.phase \in {"insert", "enqueue", "send"}
  BY DEF Notifying
<1>4. \A x \in FanOuts : x.phase \in
        {"audience", "recheck", "payload", "stream", "public", "broadcast"}
  BY DEF FanOuts
<1> QED
  BY <1>1, <1>2, <1>3, <1>4 DEF HandlerStates

LEMMA NotifyingKeepsQueue ==
  ASSUME QueueInv, NEW h \in Handlers,
         Insert(h) \/ Enqueue(h) \/ CheckPush(h) \/ Send(h) \/ Die(h),
         changes' = changes
  PROVE  QueueInv'
<1>1. UNCHANGED <<note, copies, overlapped, changes>>
  BY DEF Insert, Enqueue, CheckPush, Send, Die
<1>2. Idle \in HandlerStates /\ Idle.phase = "idle"
  BY DEF HandlerStates, Idle
<1>3. CASE Insert(h)
  <2>1. handler[h].phase = "insert" /\ handler[h] \in Notifying
    BY <1>3, HandlerKinds DEF Insert, At
  <2> DEFINE x == [handler[h] EXCEPT !.phase = "enqueue"]
  <2>2. x \in HandlerStates /\ x.phase = "enqueue"
    BY <2>1 DEF HandlerStates, Notifying
  <2>4. handler' = [handler EXCEPT ![h] = x]
    BY <1>3 DEF Insert, Goto
  <2>5. notifications' = notifications + 1 /\ pushes' = pushes
    BY <1>3 DEF Insert
  <2> HIDE DEF x
  <2> QED
    BY <1>1, <2>1, <2>2, <2>4, <2>5, StepKeepsQueue
<1>4. CASE Enqueue(h)
  <2>1. /\ handler[h].phase = "enqueue" /\ handler' = [handler EXCEPT ![h] = Idle]
        /\ notifications' = notifications /\ (pushes' = pushes \/ pushes' = pushes + 1)
    BY <1>4 DEF Enqueue, At, End
  <2> QED
    BY <1>1, <1>2, <2>1, StepKeepsQueue
<1>5. CASE CheckPush(h) /\ Begin(h, "send")
  <2> DEFINE x == [phase |-> "send", fresh |-> TRUE]
  <2>1. x \in HandlerStates /\ x.phase = "send"
    BY DEF HandlerStates, Notifying
  <2>2. handler' = [handler EXCEPT ![h] = x]
    BY <1>5 DEF Begin
  <2>3. handler[h].phase = "idle"
    BY <1>5, <1>2 DEF CheckPush, Busy
  <2>4. pushes > 0 /\ pushes' = pushes - 1 /\ notifications' = notifications
    BY <1>5 DEF CheckPush
  <2> HIDE DEF x
  <2> QED
    BY <1>1, <2>1, <2>2, <2>3, <2>4, StepKeepsQueue
<1>6. CASE CheckPush(h) /\ UNCHANGED handler
  <2>1. /\ handler[h].phase = "idle" /\ handler[h] = Idle
    BY <1>6, <1>2 DEF CheckPush, Busy
  <2>2. handler' = [handler EXCEPT ![h] = Idle]
    BY <1>6, <2>1 DEF QueueInv, QueueTypeOK
  <2>3. pushes > 0 /\ pushes' = pushes - 1 /\ notifications' = notifications
    BY <1>6 DEF CheckPush
  <2> QED
    BY <1>1, <1>2, <2>1, <2>2, <2>3, StepKeepsQueue
<1>7. CASE Send(h)
  <2>1. /\ handler[h].phase = "send" /\ handler' = [handler EXCEPT ![h] = Idle]
        /\ notifications' = notifications /\ pushes' = pushes
    BY <1>7 DEF Send, At, End
  <2> QED
    BY <1>1, <1>2, <2>1, StepKeepsQueue
<1>8. CASE Die(h)
  <2>1. /\ handler' = [handler EXCEPT ![h] = Idle] /\ notifications' = notifications
        /\ \/ handler[h].phase = "send" /\ pushes' = pushes + 1
           \/ pushes' = pushes
    BY <1>8 DEF Die, At, End
  <2> QED
    BY <1>1, <1>2, <2>1, StepKeepsQueue
<1> QED
  BY <1>3, <1>4, <1>5, <1>6, <1>7, <1>8 DEF CheckPush

\* What a step of a fan-out does to its handler.
FannedOut(h) ==
  \E x \in {Idle} \cup FanOuts :
    /\ handler' = [handler EXCEPT ![h] = x]
    /\ handler[h].phase \notin {"insert", "enqueue", "send"}
    /\ handler[h].phase = "idle" => CanFanOut

LEMMA FanOutStep ==
  ASSUME QueueInv, NEW h \in Handlers, FanOut(h)
  PROVE  FannedOut(h)
<1>2. \A phase \in {"audience", "recheck", "payload", "stream", "public", "broadcast"} :
        At(h, phase) => handler[h] \in FanOuts /\ handler[h].phase = phase
  BY HandlerKinds DEF At
<1>3. handler[h] \in FanOuts => handler[h].phase \notin {"idle", "insert", "enqueue", "send"}
  BY HandlerKinds
<1>4. ASSUME handler[h] \in FanOuts, NEW x \in {Idle} \cup FanOuts,
              handler' = [handler EXCEPT ![h] = x]
       PROVE  FannedOut(h)
  BY <1>3, <1>4 DEF FannedOut
<1>5. ASSUME handler[h] \in FanOuts, ToPublic(h)
      PROVE  FannedOut(h)
  <2>1. CASE handler[h].open
    <3>1. Held(h, "public") \in FanOuts
      BY <1>5 DEF Held, FanOuts
    <3> QED
      BY <1>5, <1>4, <2>1, <3>1 DEF ToPublic, Proceed
  <2>2. CASE ~handler[h].open
    BY <1>5, <1>4, <2>2 DEF ToPublic, Proceed
  <2> QED
    BY <2>1, <2>2
<1>6. ASSUME handler[h] \in FanOuts,
             NEW to \in SUBSET Accounts, NEW phase \in {"recheck", "payload"},
             \/ Proceed(h, [Held(h, phase) EXCEPT !.to = to])
             \/ Proceed(h, [Held(h, phase) EXCEPT !.to = to, !.fresh = TRUE])
      PROVE  FannedOut(h)
  <2>1. /\ [Held(h, phase) EXCEPT !.to = to] \in FanOuts
        /\ [Held(h, phase) EXCEPT !.to = to, !.fresh = TRUE] \in FanOuts
    BY <1>6 DEF Held, FanOuts
  <2> QED
    BY <1>6, <1>4, <2>1 DEF Proceed
<1>7. CASE StartFanOut(h)
  <2> DEFINE x == [phase |-> "audience", fresh |-> TRUE, to |-> {}, open |-> CanBroadcast]
  <2>1. x \in FanOuts
    BY DEF FanOuts, CanBroadcast
  <2>2. handler' = [handler EXCEPT ![h] = x] /\ CanFanOut
    BY <1>7 DEF StartFanOut, Proceed
  <2>3. handler[h].phase = "idle"
    BY <1>7 DEF StartFanOut, Busy, Idle
  <2> QED
    BY <2>1, <2>2, <2>3 DEF FannedOut
<1>8. CASE LoadAudience(h)
  <2>1. handler[h] \in FanOuts /\ handler[h].phase = "audience"
    BY <1>2, <1>8 DEF LoadAudience
  <2> DEFINE to == {x \in Accounts : Operates(x) /\ (x = Author \/ Follows(x, Author))
                                      /\ Welcomes(x)}
  <2>2. \/ ToPublic(h)
        \/ Proceed(h, [Held(h, "recheck") EXCEPT !.to = to])
    BY <1>8 DEF LoadAudience
  <2>4. to \in SUBSET Accounts
    OBVIOUS
  <2> HIDE DEF to
  <2> QED
    BY <1>5, <1>6, <2>1, <2>2, <2>4
<1>9. CASE Recheck(h)
  <2>1. handler[h] \in FanOuts /\ handler[h].phase = "recheck"
    BY <1>2, <1>9 DEF Recheck
  <2> DEFINE to == {x \in handler[h].to : Operates(x) /\ Welcomes(x)}
  <2>2. \/ ToPublic(h)
        \/ Proceed(h, [Held(h, "payload") EXCEPT !.to = to, !.fresh = TRUE])
    BY <1>9 DEF Recheck
  <2>3. to \in SUBSET Accounts
    BY <2>1 DEF FanOuts
  <2> HIDE DEF to
  <2> QED
    BY <1>5, <1>6, <2>1, <2>2, <2>3
<1>10. CASE BuildPayload(h)
  <2>1. handler[h] \in FanOuts /\ handler[h].phase = "payload"
    BY <1>2, <1>10 DEF BuildPayload
  <2>2. Goto(h, "stream") \/ ToPublic(h)
    BY <1>10 DEF BuildPayload
  <2>3. [handler[h] EXCEPT !.phase = "stream"] \in FanOuts
    BY <2>1 DEF FanOuts
  <2> QED
    BY <1>5, <1>4, <2>1, <2>2, <2>3 DEF Goto
<1>11. CASE Stream(h)
  BY <1>2, <1>5, <1>11 DEF Stream
<1>12. CASE BuildPublic(h)
  <2>1. handler[h] \in FanOuts /\ handler[h].phase = "public"
    BY <1>2, <1>12 DEF BuildPublic
  <2> DEFINE x == [Held(h, "broadcast") EXCEPT !.fresh = TRUE, !.to = {}]
  <2>2. x \in FanOuts
    BY <2>1 DEF Held, FanOuts
  <2>3. handler' = [handler EXCEPT ![h] = x] \/ handler' = [handler EXCEPT ![h] = Idle]
    BY <1>12 DEF BuildPublic, Proceed, End
  <2> HIDE DEF x
  <2> QED
    BY <1>4, <2>1, <2>2, <2>3
<1>13. CASE Broadcast(h)
  <2>1. handler[h] \in FanOuts /\ handler[h].phase = "broadcast"
    BY <1>2, <1>13 DEF Broadcast
  <2> QED
    BY <1>13, <1>4, <2>1 DEF Broadcast, End
<1> QED
  BY <1>7, <1>8, <1>9, <1>10, <1>11, <1>12, <1>13 DEF FanOut

LEMMA FanOutKeepsQueue ==
  ASSUME QueueInv, NEW h \in Handlers, FanOut(h), changes' = changes
  PROVE  QueueInv'
<1>1. UNCHANGED <<note, copies, notifications, pushes, overlapped>>
  BY DEF FanOut
<1>2. PICK x \in {Idle} \cup FanOuts :
        /\ handler' = [handler EXCEPT ![h] = x]
        /\ handler[h].phase \notin {"insert", "enqueue", "send"}
  BY FanOutStep DEF FannedOut
<1>3. x \in HandlerStates /\ x.phase \notin {"insert", "enqueue", "send"}
  BY <1>2 DEF HandlerStates, Idle, FanOuts
<1> QED
  BY <1>1, <1>2, <1>3, StepKeepsQueue

\* A change of rows leaves the handlers in their phases; what they have looked at
\* is not fresh any more, if rows have changed.
LEMMA OutdateHandlers ==
  ASSUME QueueInv, Outdate
  PROVE  /\ handler' \in [Handlers -> HandlerStates]
         /\ \A h \in Handlers : handler'[h].phase = handler[h].phase
         /\ \/ UNCHANGED <<facts, handler>>
            \/ \A h \in Handlers : handler'[h].phase # "idle" => ~handler'[h].fresh
<1>1. handler \in [Handlers -> HandlerStates]
  BY DEF QueueInv, QueueTypeOK, HandlerStates
<1>2. CASE UNCHANGED facts
  BY <1>1, <1>2 DEF Outdate
<1>3. CASE ~UNCHANGED facts
  <2>1. ASSUME NEW h \in Handlers, Busy(h)
        PROVE  /\ [handler[h] EXCEPT !.fresh = FALSE] \in HandlerStates
               /\ [handler[h] EXCEPT !.fresh = FALSE].phase = handler[h].phase
               /\ ~[handler[h] EXCEPT !.fresh = FALSE].fresh
    <3>1. CASE handler[h] \in Notifying
      BY <3>1 DEF Notifying, HandlerStates
    <3>2. CASE handler[h] \in FanOuts
      BY <3>2 DEF FanOuts, HandlerStates
    <3> QED
      BY <1>1, <2>1, <3>1, <3>2 DEF Busy, HandlerStates
  <2>2. handler' = [h \in Handlers |-> IF Busy(h) THEN [handler[h] EXCEPT !.fresh = FALSE]
                                       ELSE Idle]
    BY <1>3 DEF Outdate
  <2>3. Idle \in HandlerStates /\ Idle.phase = "idle"
    BY DEF HandlerStates, Idle
  <2>4. ASSUME NEW h \in Handlers
        PROVE  /\ handler'[h] \in HandlerStates /\ handler'[h].phase = handler[h].phase
               /\ handler'[h].phase # "idle" => ~handler'[h].fresh
    <3>1. CASE Busy(h)
      BY <2>1, <2>2, <3>1
    <3>2. CASE ~Busy(h)
      BY <2>2, <2>3, <3>2 DEF Busy
    <3> QED
      BY <3>1, <3>2
  <2>5. handler' \in [Handlers -> HandlerStates]
    <3>1. handler' = [h \in Handlers |-> handler'[h]]
      BY <2>2
    <3> QED
      BY <2>4, <3>1
  <2> QED
    BY <2>4, <2>5
<1> QED
  BY <1>2, <1>3

LEMMA OutdateKeepsQueue ==
  ASSUME QueueInv, Outdate, changes' \in 0 .. MaxChanges
  PROVE  QueueInv'
<1>1. /\ UNCHANGED <<note, copies, notifications, pushes, overlapped>>
      /\ handler' \in [Handlers -> HandlerStates]
      /\ \A h \in Handlers : handler'[h].phase = handler[h].phase
  BY OutdateHandlers DEF Outdate
<1>2. QueueTypeOK'
  BY <1>1 DEF QueueInv, QueueTypeOK, HandlerStates
<1>3. \A phase : Doing(phase)' = Doing(phase)
  BY <1>1 DEF Doing
<1>4. Counted' /\ Single'
  BY <1>1, <1>3 DEF QueueInv, Counted, Single
<1> QED
  BY <1>2, <1>4 DEF QueueInv

LEMMA NextQueue == QueueInv /\ [Next]_vars => QueueInv'
<1> SUFFICES ASSUME QueueInv, [Next]_vars
             PROVE  QueueInv'
  OBVIOUS
<1>1. changes \in 0 .. MaxChanges /\ MaxChanges \in Nat /\ MaxNoted \in 0 .. MaxChanges
  BY PermissionsAssumption DEF QueueInv, QueueTypeOK
<1>2. CASE Change
  <2>1. changes' \in 0 .. MaxChanges
    BY <1>1, <1>2 DEF Change
  <2> QED
    BY <1>2, <2>1, OutdateKeepsQueue DEF Change
<1>3. CASE Outdate /\ UNCHANGED changes
  BY <1>1, <1>3, OutdateKeepsQueue
<1>4. ASSUME NEW h \in Handlers, Handle(h), UNCHANGED changes
      PROVE  QueueInv'
  BY <1>4, CheckKeepsQueue, NotifyingKeepsQueue, FanOutKeepsQueue DEF Handle
<1>5. ASSUME note' \in Notes \cup {NoNote},
             UNCHANGED <<copies, notifications, pushes, handler, overlapped, changes>>
      PROVE  QueueInv'
  <2>1. QueueTypeOK'
    BY <1>5 DEF QueueInv, QueueTypeOK
  <2>2. Counted' /\ Single'
    BY <1>5 DEF QueueInv, Counted, Single, Doing
  <2> QED
    BY <2>1, <2>2 DEF QueueInv
<1>6. ASSUME NEW n \in Notes, Notify(n), UNCHANGED changes
      PROVE  QueueInv'
  BY <1>5, <1>6 DEF Notify
<1>7. CASE UNCHANGED <<queue, changes>>
  BY <1>5, <1>7 DEF queue, QueueInv, QueueTypeOK
<1> QED
  BY <1>2, <1>3, <1>4, <1>6, <1>7 DEF Next, vars

LEMMA SpecQueue == Spec => []QueueInv
BY InitQueue, NextQueue, PTL DEF Spec

\* Rows, queue and handlers always have their types: there are never more rows
\* than deliveries, nor more pushes under way than rows, and only a Block of a
\* remote account is torn down in steps.
THEOREM PermissionsTyped == Spec => []TypeOK
<1>1. FactsInv /\ QueueInv => TypeOK
  BY DEF FactsInv, QueueInv, TypeOK
<1> QED
  BY <1>1, RowsTornDown, SpecQueue, PTL

\* However often its message is delivered, a notification is inserted once,
\* unless two deliveries had looked for the row before either inserted it.
THEOREM NotifiedAtMostOnce == Spec => []NotifiedOnce
<1>1. QueueInv => NotifiedOnce
  <2> SUFFICES ASSUME QueueInv, ~overlapped
               PROVE  notifications <= 1
    BY DEF NotifiedOnce, QueueInv, QueueTypeOK
  <2>1. notifications \in 0 .. MaxCopies /\ MaxCopies \in Nat
    BY PermissionsAssumption DEF QueueInv, QueueTypeOK
  <2>2. Cardinality(Doing("insert")) \in Nat
    BY FS_CardinalityType DEF QueueInv, Counted
  <2>3. notifications + Cardinality(Doing("insert")) <= 1
    BY DEF QueueInv, Single
  <2> QED
    BY <2>1, <2>2, <2>3
<1> QED
  BY <1>1, SpecQueue, PTL

-----------------------------------------------------------------------------
(* What a handler acts on. *)

Fanning(h) == handler[h].phase \in
  {"audience", "recheck", "payload", "stream", "public", "broadcast"}

\* What PushedIsListed rests on: as long as the rows are those a handler has
\* looked at, what it looked for still holds.
Checked ==
  \A h \in Handlers : handler[h].phase # "idle" /\ handler[h].fresh =>
    /\ handler[h].phase \in {"insert", "enqueue", "send"} => CanDeliverNotification(note)
    /\ handler[h].phase \in {"payload", "stream"} => \A x \in handler[h].to : Welcomes(x)
    /\ handler[h].phase = "stream" => ~deleted /\ Author \notin suspended
    /\ handler[h].phase = "broadcast" => CanBroadcast

\* A direct status is not fanned out, and a status keeps its visibility.
Indirect == \A h \in Handlers : Fanning(h) => visibility # "direct"

SeenInv == Checked /\ Indirect

LEMMA InitSeen == Init => SeenInv
BY DEF Init, SeenInv, Checked, Indirect, Fanning, Idle

\* What the handlers look at is made of the rows.
LEMMA SameDecisions ==
  ASSUME UNCHANGED <<facts, note>>
  PROVE  /\ CanDeliverNotification(note)' <=> CanDeliverNotification(note)
         /\ \A x : Welcomes(x)' <=> Welcomes(x)
         /\ CanBroadcast' <=> CanBroadcast
<1>1. /\ UNCHANGED <<local, suspended, silenced, moved, disabled, approved>>
      /\ UNCHANGED <<follows, requests, blocks, mutes, domainBlocks, cleaning>>
      /\ UNCHANGED <<visibility, deleted, mentioned, threadMuted, note>>
  BY DEF facts, accounts, pairs, status
<1>2. /\ CanBroadcast' <=> CanBroadcast
      /\ \A x : Welcomes(x)' <=> Welcomes(x)
  BY <1>1 DEF CanBroadcast, Welcomes, Apart, Muted, Blocks, BlocksDomain
<1>3. CanDeliverNotification(note)' <=> CanDeliverNotification(note)
  BY <1>1 DEF CanDeliverNotification, Operates, Originates, Hidden, Blocks, BlocksDomain,
     CanSurfaceStatus, Viewable, CanViewStatus, Follows, Open
<1> QED
  BY <1>2, <1>3

\* A step of one handler, which has looked for what it goes on with.
LEMMA HandlerKeepsSeen ==
  ASSUME QueueInv, SeenInv, NEW h \in Handlers, NEW x \in HandlerStates,
         handler' = [handler EXCEPT ![h] = x], UNCHANGED <<facts, note>>,
         x.phase # "idle" /\ x.fresh =>
           /\ x.phase \in {"insert", "enqueue", "send"} => CanDeliverNotification(note)
           /\ x.phase \in {"payload", "stream"} => \A y \in x.to : Welcomes(y)
           /\ x.phase = "stream" => ~deleted /\ Author \notin suspended
           /\ x.phase = "broadcast" => CanBroadcast,
         x \in FanOuts => Fanning(h) \/ CanFanOut
  PROVE  SeenInv'
<1>1. /\ handler'[h] = x /\ \A k \in Handlers : k # h => handler'[k] = handler[k]
  BY OneHandler
<1>2. UNCHANGED <<visibility, deleted, suspended>>
  BY DEF facts, accounts, status
<1>3. Checked'
  <2> SUFFICES ASSUME NEW k \in Handlers, handler'[k].phase # "idle", handler'[k].fresh
               PROVE  /\ handler'[k].phase \in {"insert", "enqueue", "send"} =>
                           CanDeliverNotification(note)'
                      /\ handler'[k].phase \in {"payload", "stream"} =>
                           \A y \in handler'[k].to : Welcomes(y)'
                      /\ handler'[k].phase = "stream" => ~deleted' /\ Author \notin suspended'
                      /\ handler'[k].phase = "broadcast" => CanBroadcast'
    BY DEF Checked
  <2>1. /\ handler'[k].phase \in {"insert", "enqueue", "send"} =>
             CanDeliverNotification(note)
        /\ handler'[k].phase \in {"payload", "stream"} => \A y \in handler'[k].to : Welcomes(y)
        /\ handler'[k].phase = "stream" => ~deleted /\ Author \notin suspended
        /\ handler'[k].phase = "broadcast" => CanBroadcast
    BY <1>1 DEF SeenInv, Checked
  <2> QED
    BY <1>2, <2>1, SameDecisions
<1>4. Indirect'
  <2>1. x.phase \in {"audience", "recheck", "payload", "stream", "public", "broadcast"}
          => x \in FanOuts
    BY DEF HandlerStates, Idle, Notifying
  <2> QED
    BY <1>1, <1>2, <2>1 DEF SeenInv, Indirect, Fanning, CanFanOut
<1> QED
  BY <1>3, <1>4 DEF SeenInv

LEMMA NotifyingKeepsSeen ==
  ASSUME QueueInv, SeenInv, NEW h \in Handlers, UNCHANGED facts,
         Check(h) \/ Insert(h) \/ Enqueue(h) \/ CheckPush(h) \/ Send(h) \/ Die(h)
  PROVE  SeenInv'
<1>1. handler \in [Handlers -> HandlerStates]
  BY DEF QueueInv, QueueTypeOK, HandlerStates
<1>2. UNCHANGED <<facts, note>>
  BY DEF Check, Insert, Enqueue, CheckPush, Send, Die
<1>3. ASSUME End(h)
      PROVE  SeenInv'
  <2>1. Idle \in HandlerStates /\ Idle.phase = "idle" /\ Idle \notin FanOuts
    BY DEF HandlerStates, Idle, FanOuts
  <2> QED
    BY <1>2, <1>3, <2>1, HandlerKeepsSeen DEF End
<1>4. ASSUME NEW phase \in {"insert", "send"}, Begin(h, phase), CanDeliverNotification(note)
      PROVE  SeenInv'
  <2> DEFINE x == [phase |-> phase, fresh |-> TRUE]
  <2>1. x \in HandlerStates /\ x.phase = phase /\ x \notin FanOuts
    BY DEF HandlerStates, Notifying, FanOuts
  <2>2. handler' = [handler EXCEPT ![h] = x]
    BY <1>4 DEF Begin
  <2> HIDE DEF x
  <2> QED
    BY <1>2, <1>4, <2>1, <2>2, HandlerKeepsSeen
<1>5. ASSUME UNCHANGED handler
      PROVE  SeenInv'
  <2>1. \A k \in Handlers : Fanning(k)' = Fanning(k)
    BY <1>5 DEF Fanning
  <2>2. UNCHANGED <<visibility, deleted, suspended>>
    BY <1>2 DEF facts, accounts, status
  <2>3. Checked'
    BY <1>2, <1>5, <2>2, SameDecisions DEF SeenInv, Checked
  <2> QED
    BY <2>1, <2>2, <2>3 DEF SeenInv, Indirect
<1>6. CASE Check(h)
  BY <1>4, <1>5, <1>6 DEF Check
\* A handler that goes on takes along what it has looked for.
<1>7. CASE Insert(h)
  <2>1. handler[h] \in Notifying /\ handler[h].phase = "insert"
    BY <1>7, HandlerKinds DEF Insert, At
  <2> DEFINE x == [handler[h] EXCEPT !.phase = "enqueue"]
  <2>2. /\ x \in HandlerStates /\ x.phase = "enqueue" /\ x.fresh = handler[h].fresh
        /\ x \notin FanOuts
    BY <2>1 DEF HandlerStates, Notifying, FanOuts
  <2>3. handler' = [handler EXCEPT ![h] = x]
    BY <1>7 DEF Insert, Goto
  <2> HIDE DEF x
  <2>4. x.fresh => CanDeliverNotification(note)
    BY <2>1, <2>2 DEF SeenInv, Checked
  <2> QED
    BY <1>2, <2>2, <2>3, <2>4, HandlerKeepsSeen
<1>8. CASE CheckPush(h)
  BY <1>4, <1>5, <1>8 DEF CheckPush
<1> QED
  BY <1>3, <1>6, <1>7, <1>8 DEF Enqueue, Send, Die

LEMMA FanOutKeepsSeen ==
  ASSUME QueueInv, SeenInv, NEW h \in Handlers, UNCHANGED facts, FanOut(h)
  PROVE  SeenInv'
<1>2. UNCHANGED <<facts, note>>
  BY DEF FanOut
<1>3. \A phase \in {"audience", "recheck", "payload", "stream", "public", "broadcast"} :
        At(h, phase) => handler[h] \in FanOuts /\ handler[h].phase = phase /\ Fanning(h)
  BY HandlerKinds DEF At, Fanning
\* The phases in which nothing is acted on.
<1>4. ASSUME NEW x \in {Idle} \cup FanOuts, handler' = [handler EXCEPT ![h] = x],
             x = Idle \/ x.phase \in {"audience", "recheck", "public"},
             Fanning(h) \/ CanFanOut
      PROVE  SeenInv'
  BY <1>2, <1>4, HandlerKeepsSeen DEF HandlerStates, Idle
<1>5. ASSUME handler[h] \in FanOuts, Fanning(h), ToPublic(h)
      PROVE  SeenInv'
  <2>1. Held(h, "public") \in FanOuts /\ Held(h, "public").phase = "public"
    BY <1>5 DEF Held, FanOuts
  <2> QED
    BY <1>4, <1>5, <2>1 DEF ToPublic, Proceed
<1>6. CASE StartFanOut(h)
  <2> DEFINE x == [phase |-> "audience", fresh |-> TRUE, to |-> {}, open |-> CanBroadcast]
  <2>1. x \in FanOuts /\ x.phase = "audience"
    BY DEF FanOuts, CanBroadcast
  <2>2. handler' = [handler EXCEPT ![h] = x] /\ CanFanOut
    BY <1>6 DEF StartFanOut, Proceed
  <2> HIDE DEF x
  <2> QED
    BY <1>4, <2>1, <2>2
<1>7. CASE LoadAudience(h)
  <2>1. handler[h] \in FanOuts /\ Fanning(h)
    BY <1>3, <1>7 DEF LoadAudience
  <2> DEFINE to == {x \in Accounts : Operates(x) /\ (x = Author \/ Follows(x, Author))
                                      /\ Welcomes(x)}
             x == [Held(h, "recheck") EXCEPT !.to = to]
  <2>2. ToPublic(h) \/ handler' = [handler EXCEPT ![h] = x]
    BY <1>7 DEF LoadAudience, Proceed
  <2>3. to \in SUBSET Accounts
    OBVIOUS
  <2> HIDE DEF to
  <2>4. x \in FanOuts /\ x.phase = "recheck"
    BY <2>1, <2>3 DEF Held, FanOuts
  <2> HIDE DEF x
  <2> QED
    BY <1>4, <1>5, <2>1, <2>2, <2>4
<1>8. CASE Recheck(h)
  <2>1. handler[h] \in FanOuts /\ Fanning(h)
    BY <1>3, <1>8 DEF Recheck
  <2> DEFINE to == {x \in handler[h].to : Operates(x) /\ Welcomes(x)}
             x == [Held(h, "payload") EXCEPT !.to = to, !.fresh = TRUE]
  <2>2. ToPublic(h) \/ handler' = [handler EXCEPT ![h] = x]
    BY <1>8 DEF Recheck, Proceed
  <2>3. to \in SUBSET Accounts /\ \A y \in to : Welcomes(y)
    BY <2>1 DEF FanOuts
  <2> HIDE DEF to
  <2>4. x \in FanOuts /\ x.phase = "payload" /\ x.to = to
    BY <2>1, <2>3 DEF Held, FanOuts
  <2> HIDE DEF x
  <2> QED
    BY <1>2, <1>5, <2>1, <2>2, <2>3, <2>4, HandlerKeepsSeen DEF HandlerStates
<1>9. CASE BuildPayload(h)
  <2>1. handler[h] \in FanOuts /\ handler[h].phase = "payload" /\ Fanning(h)
    BY <1>3, <1>9 DEF BuildPayload
  <2> DEFINE x == [handler[h] EXCEPT !.phase = "stream"]
  <2>2. /\ x \in FanOuts /\ x.phase = "stream" /\ x.to = handler[h].to
        /\ x.fresh = handler[h].fresh
    BY <2>1 DEF FanOuts
  <2>3. ToPublic(h) \/ (/\ handler' = [handler EXCEPT ![h] = x]
                        /\ ~deleted /\ Author \notin suspended)
    BY <1>9 DEF BuildPayload, Goto, CanSurfaceStatus, Viewable, CanViewStatus
  <2> HIDE DEF x
  <2>4. x.fresh => \A y \in x.to : Welcomes(y)
    BY <2>1, <2>2 DEF SeenInv, Checked
  <2> QED
    BY <1>2, <1>5, <2>1, <2>2, <2>3, <2>4, HandlerKeepsSeen DEF HandlerStates
<1>10. CASE Stream(h)
  BY <1>3, <1>5, <1>10 DEF Stream
<1>11. CASE BuildPublic(h)
  <2>1. handler[h] \in FanOuts /\ Fanning(h)
    BY <1>3, <1>11 DEF BuildPublic
  <2> DEFINE x == [Held(h, "broadcast") EXCEPT !.fresh = TRUE, !.to = {}]
  <2>2. x \in FanOuts /\ x.phase = "broadcast"
    BY <2>1 DEF Held, FanOuts
  <2>3. \/ handler' = [handler EXCEPT ![h] = x] /\ CanBroadcast
        \/ handler' = [handler EXCEPT ![h] = Idle]
    BY <1>11 DEF BuildPublic, Proceed, End
  <2> HIDE DEF x
  <2> QED
    BY <1>2, <1>4, <2>1, <2>2, <2>3, HandlerKeepsSeen DEF HandlerStates
<1>12. CASE Broadcast(h)
  <2>1. Fanning(h)
    BY <1>3, <1>12 DEF Broadcast
  <2> QED
    BY <1>4, <1>12, <2>1 DEF Broadcast, End
<1> QED
  BY <1>6, <1>7, <1>8, <1>9, <1>10, <1>11, <1>12 DEF FanOut

\* If rows change, nothing that was looked at is fresh.
LEMMA OutdateKeepsSeen ==
  ASSUME QueueInv, SeenInv, Outdate, visibility' = visibility
  PROVE  SeenInv'
<1>1. UNCHANGED note /\ \A h \in Handlers : handler'[h].phase = handler[h].phase
  BY OutdateHandlers DEF Outdate
<1>2. Checked'
  <2>1. CASE UNCHANGED <<facts, handler>>
    <3>1. UNCHANGED <<deleted, suspended>>
      BY <2>1 DEF facts, accounts, status
    <3> QED
      BY <1>1, <2>1, <3>1, SameDecisions DEF SeenInv, Checked
  <2>2. CASE \A h \in Handlers : handler'[h].phase # "idle" => ~handler'[h].fresh
    BY <2>2 DEF Checked
  <2> QED
    BY <2>1, <2>2, OutdateHandlers
<1>3. Indirect'
  BY <1>1 DEF SeenInv, Indirect, Fanning
<1> QED
  BY <1>2, <1>3 DEF SeenInv

LEMMA SameVisibility ==
  ASSUME Change \/ \E x, y \in Accounts : Continue(x, y)
  PROVE  visibility' = visibility
<1>1. ASSUME NEW x \in Accounts, NEW y \in Accounts, Relate(x, y)
      PROVE  visibility' = visibility
  BY <1>1 DEF Relate, Follow, Authorize, Unfollow, Block, BlockFromInbox, Unblock, Mute,
     BlockDomain, UnblockDomain, facts, status
<1>2. ASSUME NEW x \in Accounts, Moderate(x) \/ MuteThread(x)
      PROVE  visibility' = visibility
  BY <1>2 DEF Moderate, MuteThread, status
<1>3. ASSUME NEW x \in Accounts, NEW y \in Accounts, Continue(x, y)
      PROVE  visibility' = visibility
  BY <1>3 DEF Continue, LookUpFollow, InsertFollow, TearDown, CutBlock, CleanUpDomain, facts,
     status
<1> QED
  BY <1>1, <1>2, <1>3 DEF Change, DeleteStatus

\* There is no notification to deliver before there is one.
LEMMA NotifyKeepsSeen ==
  ASSUME FactsInv, SeenInv, NEW n \in Notes, Notify(n), UNCHANGED facts
  PROVE  SeenInv'
<1>1. note = NoNote /\ UNCHANGED <<handler, visibility, deleted, suspended>>
  BY DEF Notify, facts, status, accounts
<1>2. ~CanDeliverNotification(note)
  BY <1>1, PermissionsAssumption
     DEF CanDeliverNotification, Operates, NoNote, FactsInv, FactsTypeOK
<1>3. /\ \A x : Welcomes(x)' <=> Welcomes(x)
      /\ CanBroadcast' <=> CanBroadcast
  BY DEF facts, accounts, pairs, status, CanBroadcast, Welcomes, Apart, Muted, Blocks, BlocksDomain
<1>4. Checked'
  BY <1>1, <1>2, <1>3 DEF SeenInv, Checked
<1>5. Indirect'
  BY <1>1 DEF SeenInv, Indirect, Fanning
<1> QED
  BY <1>4, <1>5 DEF SeenInv

LEMMA NextSeen == FactsInv /\ QueueInv /\ SeenInv /\ [Next]_vars => SeenInv'
<1> SUFFICES ASSUME FactsInv, QueueInv, SeenInv, [Next]_vars
             PROVE  SeenInv'
  OBVIOUS
<1>1. CASE Change
  BY <1>1, SameVisibility, OutdateKeepsSeen DEF Change
<1>2. CASE (\E x, y \in Accounts : Continue(x, y)) /\ Outdate
  BY <1>2, SameVisibility, OutdateKeepsSeen
<1>3. ASSUME NEW n \in Notes, Notify(n), UNCHANGED facts
      PROVE  SeenInv'
  BY <1>3, NotifyKeepsSeen
<1>4. ASSUME NEW h \in Handlers, Handle(h), UNCHANGED facts
      PROVE  SeenInv'
  BY <1>4, NotifyingKeepsSeen, FanOutKeepsSeen DEF Handle
<1>5. CASE UNCHANGED vars
  <2>1. UNCHANGED <<facts, note, handler, visibility, deleted, suspended>>
    BY <1>5 DEF vars, queue, facts, accounts, status
  <2>2. Checked'
    BY <2>1, SameDecisions DEF SeenInv, Checked
  <2>3. Indirect'
    BY <2>1 DEF SeenInv, Indirect, Fanning
  <2> QED
    BY <2>2, <2>3 DEF SeenInv
<1> QED
  BY <1>1, <1>2, <1>3, <1>4, <1>5 DEF Next

\* A notification that may be delivered is in its recipient's list, unless its
\* sender is silenced and not followed.
LEMMA DeliveredIsListed ==
  ASSUME FactsInv, QueueInv, CanDeliverNotification(note)
  PROVE  SqlNotification(note) \/ (note.from \in silenced /\ ~Follows(note.to, note.from))
<1>1. note.to \in local /\ note.to \in Accounts
  BY DEF CanDeliverNotification, Operates, FactsInv, FactsTypeOK
<1>2. note.from \notin suspended
  BY DEF CanDeliverNotification, Originates
<1>3. ~Apart(note.to, note.from) /\ ~Hidden(note.to, note.from)
  BY DEF CanDeliverNotification, Apart
<1>4. ASSUME note.about
      PROVE  /\ SqlVisible(note.to) /\ SqlNotificationRelationship(note.to, Author)
             /\ note.to \notin threadMuted
  <2>1. CanSurfaceStatus(note.to, Hidden(note.to, Author)) /\ note.to \notin threadMuted
    BY <1>4 DEF CanDeliverNotification
  <2>2. Viewable(note.to) /\ Author \notin suspended
    BY <2>1 DEF CanSurfaceStatus
  <2>3. SqlVisible(note.to)
    BY <1>1, <2>2, ViewableIsFetched, StatusDecisions DEF FactsInv, Viewers
  <2>4. SqlNotificationRelationship(note.to, Author)
    BY <2>1 DEF CanSurfaceStatus, SqlNotificationRelationship, Apart
  <2> QED
    BY <2>1, <2>3, <2>4
<1> QED
  BY <1>2, <1>3, <1>4 DEF SqlNotification, SqlNotificationRelationship

\* Whoever still follows the author, and the author, find in their timelines what
\* is streamed to them.
LEMMA StreamedIsListed ==
  ASSUME FactsTypeOK, NEW x \in Accounts, Welcomes(x), x = Author \/ Follows(x, Author),
         ~deleted, Author \notin suspended, visibility # "direct"
  PROVE  SqlSurface(x)
<1>1. SqlRelationship(x)
  BY DEF SqlRelationship, Welcomes
<1>2. ~Blocks(Author, x)
  BY DEF Welcomes, Apart
<1>3. Open \/ visibility = "private"
  BY DEF Open, FactsTypeOK, Visibilities
<1>4. SqlVisible(x)
  BY <1>2, <1>3, PermissionsAssumption DEF SqlVisible, Open
<1> QED
  BY <1>1, <1>4 DEF SqlSurface

\* What the handlers insert, push and stream is in the recipients' lists, as long
\* as the rows are those the handler looked at.
THEOREM PushedWhatIsListed == Spec => []PushedIsListed
<1>1. Init => SeenInv
  BY InitSeen
<1>2. FactsInv /\ QueueInv /\ SeenInv /\ [Next]_vars => SeenInv'
  BY NextSeen
<1>3. FactsInv /\ QueueInv /\ SeenInv => PushedIsListed
  <2> SUFFICES ASSUME FactsInv, QueueInv, SeenInv,
                      NEW h \in Handlers, Busy(h), handler[h].fresh
               PROVE  /\ handler[h].phase \in {"insert", "enqueue", "send"} =>
                           \/ SqlNotification(note)
                           \/ note.from \in silenced /\ ~Follows(note.to, note.from)
                      /\ handler[h].phase = "stream" =>
                           \A x \in handler[h].to :
                             SqlSurface(x) \/ (x # Author /\ ~Follows(x, Author))
                      /\ handler[h].phase = "broadcast" =>
                           SqlSurface(Nobody) /\ visibility = "public"
    BY DEF PushedIsListed
  <2>1. handler[h].phase # "idle"
    BY HandlerKinds DEF Busy
  <2>2. ASSUME handler[h].phase \in {"insert", "enqueue", "send"}
        PROVE  \/ SqlNotification(note)
               \/ note.from \in silenced /\ ~Follows(note.to, note.from)
    BY <2>1, <2>2, DeliveredIsListed DEF SeenInv, Checked
  <2>3. ASSUME handler[h].phase = "stream", NEW x \in handler[h].to
        PROVE  SqlSurface(x) \/ (x # Author /\ ~Follows(x, Author))
    <3>1. handler[h] \in FanOuts /\ visibility # "direct"
      BY <2>3, HandlerKinds DEF SeenInv, Indirect, Fanning
    <3>2. x \in Accounts
      BY <2>3, <3>1 DEF FanOuts
    <3>3. Welcomes(x) /\ ~deleted /\ Author \notin suspended
      BY <2>1, <2>3 DEF SeenInv, Checked
    <3> QED
      BY <3>1, <3>2, <3>3, StreamedIsListed DEF FactsInv
  <2>4. ASSUME handler[h].phase = "broadcast"
        PROVE  SqlSurface(Nobody) /\ visibility = "public"
    <3>1. CanBroadcast
      BY <2>1, <2>4 DEF SeenInv, Checked
    <3>2. ~Apart(Nobody, Author) /\ ~Muted(Nobody, Author)
      BY PermissionsAssumption
         DEF Apart, Muted, Blocks, BlocksDomain, FactsInv, FactsTypeOK, Pairs
    <3> QED
      BY <3>1, <3>2 DEF CanBroadcast, SqlSurface, SqlVisible, SqlRelationship, Open
  <2> QED
    BY <2>2, <2>3, <2>4
<1> QED
  BY <1>1, <1>2, <1>3, RowsTornDown, SpecQueue, PTL DEF Spec
=============================================================================
