-------------------------- MODULE InteractionsProofs --------------------------
(***************************************************************************)
(* Proofs about Interactions, for any accounts, ids, options and workers:  *)
(* the counters of a status and of its poll are the numbers of their rows, *)
(* a local account boosts once, and no vote is shown that nobody cast.     *)
(***************************************************************************)
EXTENDS Interactions, FiniteSetTheorems, TLAPS

Boosters == {"reblog", "announce"}
Removers == {"unreblog", "deleteBoost", "undoAnnounce", "inDelete"}
Phases   == {"queued", "checked", "read", "found", "absent", "inserted", "removed", "counted"}

FavType ==
  /\ favourite \in [Actors -> Ids \cup {None}]
  /\ favourites \in Nat

BoostType ==
  /\ boostBy \in [Ids -> Actors \cup {None}]
  /\ boostLive \subseteq {b \in Ids : boostBy[b] # None}
  /\ reblogs \in Nat
  /\ posts \in [Locals -> Nat]

PollType ==
  /\ votes \subseteq Actors \X Options
  /\ tally \in [Options -> Nat]
  /\ votesCount \in Nat /\ votersCount \in Nat
  /\ overwritten \in BOOLEAN

RestType ==
  /\ scene \in Scenes
  /\ live \in BOOLEAN /\ multiple \in BOOLEAN
  /\ crashes \in 0 .. MaxCrashes

TaskType == task \in [Workers -> Tasks \cup {Idle}] /\ drifted \in BOOLEAN

\* A task is of a kind its actor can have, and what it remembers is a row: one of
\* the actor, if it is a boost to be removed.
Remembered ==
  \A w \in Workers : Busy(w) =>
    /\ task[w].kind \in KindsOf(On(w))
    /\ task[w].kind = "announce" => task[w].id \in Ids
    /\ task[w].kind = "unfavourite" /\ task[w].phase = "found" => task[w].id \in Ids
    /\ task[w].kind \in Removers /\ task[w].phase = "found" =>
         task[w].id \in Ids /\ boostBy[task[w].id] = On(w)

TypeInv == FavType /\ BoostType /\ PollType /\ RestType /\ TaskType /\ Remembered

LEMMA TypeParts == TypeOK <=> FavType /\ BoostType /\ PollType /\ RestType /\ TaskType
BY DEF TypeOK, FavType, BoostType, PollType, RestType, TaskType

LEMMA TypeInit == Init => TypeInv
<1> SUFFICES ASSUME Init
             PROVE  TypeInv
  OBVIOUS
<1>1. FavType /\ BoostType
  BY DEF Init, FavType, BoostType
<1>2. PollType
  BY DEF Init, PollType, Zero
<1>3. RestType
  BY InteractionsAssumption DEF Init, RestType
<1>4. TaskType /\ Remembered
  BY DEF Init, TaskType, Remembered, Busy
<1> QED
  BY <1>1, <1>2, <1>3, <1>4 DEF TypeInv

LEMMA BusyTask ==
  ASSUME TaskType, NEW w \in Workers
  PROVE  Busy(w) <=> task[w] \in Tasks
BY DEF TaskType, Busy, Tasks, Idle, ApiKinds, QueueKinds

\* What a step of worker w does to its task.
LEMMA GotoTask ==
  ASSUME TaskType, NEW w \in Workers, Busy(w), NEW phase \in Phases, Goto(w, phase)
  PROVE  /\ task' \in [Workers -> Tasks \cup {Idle}]
         /\ task'[w] = [task[w] EXCEPT !.phase = phase] /\ task'[w] \in Tasks
         /\ \A v \in Workers : v # w => task'[v] = task[v]
<1>1. task \in [Workers -> Tasks \cup {Idle}] /\ task[w] \in Tasks
  BY BusyTask DEF TaskType
<1>2. [task[w] EXCEPT !.phase = phase] \in Tasks
  BY <1>1 DEF Tasks, Phases
<1> QED
  BY <1>1, <1>2 DEF Goto

LEMMA SeeTask ==
  ASSUME TaskType, NEW w \in Workers, Busy(w), NEW phase \in Phases, NEW id \in Ids \cup {None},
         See(w, phase, id)
  PROVE  /\ task' \in [Workers -> Tasks \cup {Idle}]
         /\ task'[w] = [task[w] EXCEPT !.phase = phase, !.id = id] /\ task'[w] \in Tasks
         /\ \A v \in Workers : v # w => task'[v] = task[v]
<1>1. task \in [Workers -> Tasks \cup {Idle}] /\ task[w] \in Tasks
  BY BusyTask DEF TaskType
<1>2. [task[w] EXCEPT !.phase = phase, !.id = id] \in Tasks
  BY <1>1 DEF Tasks, Phases
<1> QED
  BY <1>1, <1>2 DEF See

LEMMA EndTask ==
  ASSUME TaskType, NEW w \in Workers, End(w)
  PROVE  /\ task' \in [Workers -> Tasks \cup {Idle}]
         /\ task'[w] = Idle
         /\ \A v \in Workers : v # w => task'[v] = task[v]
BY DEF TaskType, End

\* A task that ends or goes on without having found a row.

LEMMA RememberedStep ==
  ASSUME TypeInv, NEW w \in Workers,
         \A v \in Workers : v # w => task'[v] = task[v],
         \A b \in Ids : boostBy[b] # None => boostBy'[b] = boostBy[b],
         \/ task'[w] = Idle
         \/ task'[w] = task[w]
         \/ /\ Busy(w) /\ task'[w].kind = task[w].kind /\ task'[w].actor = task[w].actor
            /\ task[w].kind = "announce" => task'[w].id = task[w].id
            /\ task'[w].phase # "found"
  PROVE  Remembered'
<1> SUFFICES ASSUME NEW v \in Workers, Busy(v)'
             PROVE  /\ task'[v].kind \in KindsOf(task'[v].actor)
                    /\ task'[v].kind = "announce" => task'[v].id \in Ids
                    /\ task'[v].kind = "unfavourite" /\ task'[v].phase = "found" => task'[v].id \in Ids
                    /\ task'[v].kind \in Removers /\ task'[v].phase = "found" =>
                         task'[v].id \in Ids /\ boostBy'[task'[v].id] = task'[v].actor
  BY DEF Remembered, On, KindsOf
<1>1. CASE task'[v] = task[v]
  <2>1. Busy(v) /\ task[v].actor \in Actors
    BY <1>1, BusyTask DEF Busy, Tasks, TypeInv
  <2> QED
    BY <1>1, <2>1, InteractionsAssumption DEF TypeInv, Remembered, On, Actors
<1>2. CASE v = w /\ task'[v] # task[v]
  BY <1>2 DEF TypeInv, Remembered, On, Busy
<1> QED
  BY <1>1, <1>2

\* The task of w ends or goes on, and remembers nothing new.
Onward(w) == End(w) \/ \E phase \in Phases \ {"found"} : Goto(w, phase)

LEMMA TaskStep ==
  ASSUME TypeInv, NEW w \in Workers, drifted' \in BOOLEAN,
         \A b \in Ids : boostBy[b] # None => boostBy'[b] = boostBy[b],
         Busy(w), Onward(w)
  PROVE  TaskType' /\ Remembered'
<1>1. CASE End(w)
  <2>1. /\ task' \in [Workers -> Tasks \cup {Idle}] /\ task'[w] = Idle
        /\ \A v \in Workers : v # w => task'[v] = task[v]
    BY <1>1, EndTask DEF TypeInv
  <2> QED
    BY <2>1, RememberedStep DEF TaskType
<1>2. ASSUME NEW phase \in Phases \ {"found"}, Goto(w, phase)
      PROVE  TaskType' /\ Remembered'
  <2>1. /\ task' \in [Workers -> Tasks \cup {Idle}]
        /\ task'[w] = [task[w] EXCEPT !.phase = phase] /\ task[w] \in Tasks
        /\ \A v \in Workers : v # w => task'[v] = task[v]
    BY <1>2, GotoTask, BusyTask DEF TypeInv
  <2>2. /\ task'[w].kind = task[w].kind /\ task'[w].actor = task[w].actor
        /\ task'[w].id = task[w].id /\ task'[w].phase # "found"
    BY <2>1 DEF Tasks
  <2> QED
    BY <1>2, <2>1, <2>2, RememberedStep DEF TaskType
<1> QED
  BY <1>1, <1>2 DEF Onward

\* It sees the row it will remove.
LEMMA FoundStep ==
  ASSUME TypeInv, NEW w \in Workers, Busy(w), drifted' = drifted, boostBy' = boostBy,
         NEW id \in Ids \cup {None}, See(w, "found", id), task[w].kind # "announce",
         task[w].kind = "unfavourite" => id \in Ids,
         task[w].kind \in Removers => id \in Ids /\ boostBy[id] = On(w)
  PROVE  TaskType' /\ Remembered'
<1>1. /\ task' \in [Workers -> Tasks \cup {Idle}] /\ task[w] \in Tasks
      /\ task'[w] = [task[w] EXCEPT !.phase = "found", !.id = id]
      /\ \A v \in Workers : v # w => task'[v] = task[v]
  BY SeeTask, BusyTask DEF TypeInv, Phases
<1>2. /\ task'[w].kind = task[w].kind /\ task'[w].actor = task[w].actor
      /\ task'[w].id = id
  BY <1>1 DEF Tasks
<1>3. \A v \in Workers : v # w /\ Busy(v)' => Busy(v)
  BY <1>1 DEF Busy
<1>4. Remembered'
  BY <1>1, <1>2, <1>3 DEF TypeInv, Remembered, On, KindsOf
<1> QED
  BY <1>1, <1>4 DEF TaskType, TypeInv

LEMMA FavouriteStepType ==
  ASSUME TypeInv, NEW w \in Workers, FavouriteStep(w)
  PROVE  TypeInv'
<1>1. BoostType' /\ PollType' /\ RestType' /\ boostBy' = boostBy
  BY DEF FavouriteStep, FindFavourite, AddFavourite, SeekFavourite, DropFavourite, InsertLike,
     CountLike, FindLike, DeleteLike, UncountLike, others, fixed, boostVars, pollVars,
     TypeInv, BoostType, PollType, RestType
<1>2. FavType'
  BY DEF FavouriteStep, FindFavourite, AddFavourite, SeekFavourite, DropFavourite, InsertLike,
     CountLike, FindLike, DeleteLike, UncountLike, favVars, TypeInv, FavType, Less, Fresh
<1>3. drifted' \in BOOLEAN
  BY DEF FavouriteStep, FindFavourite, AddFavourite, SeekFavourite, DropFavourite, InsertLike,
     CountLike, FindLike, DeleteLike, UncountLike, TypeInv, TaskType
<1>4. Busy(w) /\ On(w) \in Actors
  <2>1. Busy(w)
    BY DEF FavouriteStep, FindFavourite, AddFavourite, SeekFavourite, DropFavourite, InsertLike,
       CountLike, FindLike, DeleteLike, UncountLike, At
  <2> QED
    BY <2>1, BusyTask DEF TypeInv, Tasks, On
<1>5. CASE SeekFavourite(w) /\ favourite[On(w)] # None
  <2>1. /\ See(w, "found", favourite[On(w)]) /\ task[w].kind = "unfavourite"
        /\ favourite[On(w)] \in Ids /\ drifted' = drifted
    BY <1>4, <1>5 DEF SeekFavourite, At, TypeInv, FavType
  <2>2. TaskType' /\ Remembered'
    BY <1>1, <1>4, <2>1, FoundStep DEF Removers
  <2> QED
    BY <1>1, <1>2, <2>2 DEF TypeInv
<1>6. CASE FindLike(w)
  <2>1. PICK i \in {favourite[On(w)], None} : See(w, "found", i)
    BY <1>6 DEF FindLike
  <2>2. task[w].kind = "undoLike" /\ i \in Ids \cup {None} /\ drifted' = drifted
    BY <1>4, <1>6 DEF FindLike, At, TypeInv, FavType
  <2>3. TaskType' /\ Remembered'
    BY <1>1, <1>4, <2>1, <2>2, FoundStep DEF Removers
  <2> QED
    BY <1>1, <1>2, <2>3 DEF TypeInv
<1>7. CASE ~(SeekFavourite(w) /\ favourite[On(w)] # None) /\ ~FindLike(w)
  <2>1. Onward(w)
    BY <1>7 DEF FavouriteStep, FindFavourite, AddFavourite, SeekFavourite, DropFavourite,
       InsertLike, CountLike, DeleteLike, UncountLike, Onward, Phases
  <2>2. TaskType' /\ Remembered'
    BY <1>1, <1>3, <1>4, <2>1, TaskStep
  <2> QED
    BY <1>1, <1>2, <2>2 DEF TypeInv
<1> QED
  BY <1>5, <1>6, <1>7

LEMMA BoostStepType ==
  ASSUME TypeInv, NEW w \in Workers, BoostStep(w)
  PROVE  /\ TypeInv'
         /\ \A b \in Ids : boostBy[b] # None => boostBy'[b] = boostBy[b]
<1>1. FavType' /\ PollType' /\ RestType'
  BY DEF BoostStep, FindBoost, InsertBoost, InsertAnnounce, CountBoost, SeekBoost, RemoveBoost,
     UncountBoost, others, fixed, favVars, pollVars, TypeInv, FavType, PollType, RestType
<1>2. Busy(w) /\ On(w) \in Actors /\ task[w] \in Tasks
  <2>1. Busy(w)
    BY DEF BoostStep, FindBoost, InsertBoost, InsertAnnounce, CountBoost, SeekBoost, RemoveBoost,
       UncountBoost, At
  <2> QED
    BY <2>1, BusyTask DEF TypeInv, Tasks, On
<1>3. drifted' \in BOOLEAN
  BY DEF BoostStep, FindBoost, InsertBoost, InsertAnnounce, CountBoost, SeekBoost, RemoveBoost,
     UncountBoost, TypeInv, TaskType
<1>4. CASE FindBoost(w) \/ CountBoost(w) \/ RemoveBoost(w) \/ UncountBoost(w)
  <2>1. BoostType' /\ boostBy' = boostBy
    BY <1>4 DEF FindBoost, CountBoost, RemoveBoost, UncountBoost, boostVars, TypeInv, BoostType, Less
  <2>2. Onward(w)
    BY <1>4 DEF FindBoost, CountBoost, RemoveBoost, UncountBoost, Onward, Phases
  <2>3. TaskType' /\ Remembered'
    BY <1>2, <1>3, <2>1, <2>2, TaskStep
  <2> QED
    BY <1>1, <2>1, <2>3 DEF TypeInv
<1>5. CASE SeekBoost(w)
  <2>1. BoostType' /\ boostBy' = boostBy /\ drifted' = drifted
    BY <1>5 DEF SeekBoost, boostVars, TypeInv, BoostType
  <2>2. task[w].kind \in Removers
    BY <1>5 DEF SeekBoost, At, Removers
  <2>3. CASE End(w)
    <3>1. TaskType' /\ Remembered'
      BY <1>2, <1>3, <2>1, <2>3, TaskStep DEF Onward
    <3> QED
      BY <1>1, <2>1, <3>1 DEF TypeInv
  <2>4. ASSUME NEW b \in BoostsOf(On(w)), See(w, "found", b)
        PROVE  TaskType' /\ Remembered'
    <3>1. b \in Ids /\ boostBy[b] = On(w)
      BY <2>4 DEF BoostsOf, TypeInv, BoostType
    <3> QED
      BY <1>2, <2>1, <2>2, <2>4, <3>1, FoundStep DEF Removers
  <2> QED
    BY <1>1, <1>5, <2>1, <2>3, <2>4 DEF SeekBoost, TypeInv
<1>6. CASE InsertBoost(w)
  <2>1. UNCHANGED <<reblogs, posts>> /\ drifted' = drifted /\ task[w].kind = "reblog"
    BY <1>6 DEF InsertBoost, At
  <2>2. CASE UNCHANGED <<boostBy, boostLive>> /\ End(w)
    <3>1. BoostType'
      BY <2>1, <2>2 DEF TypeInv, BoostType
    <3>2. TaskType' /\ Remembered'
      BY <1>2, <1>3, <2>2, TaskStep DEF Onward
    <3> QED
      BY <1>1, <2>2, <3>1, <3>2 DEF TypeInv
  <2>3. ASSUME NEW b \in Fresh, See(w, "inserted", b),
               boostBy' = [boostBy EXCEPT ![b] = On(w)], boostLive' = boostLive \cup {b}
        PROVE  TypeInv' /\ \A c \in Ids : boostBy[c] # None => boostBy'[c] = boostBy[c]
    <3>1. b \in Ids /\ boostBy[b] = None
      BY <2>3 DEF Fresh
    <3>2. \A c \in Ids : boostBy[c] # None => boostBy'[c] = boostBy[c]
      BY <2>3, <3>1 DEF TypeInv, BoostType
    <3>3. BoostType'
      BY <1>2, <2>1, <2>3, <3>1, InteractionsAssumption DEF TypeInv, BoostType, Actors
    <3>4. /\ task' \in [Workers -> Tasks \cup {Idle}]
          /\ task'[w] = [task[w] EXCEPT !.phase = "inserted", !.id = b]
          /\ \A v \in Workers : v # w => task'[v] = task[v]
      <4>1. "inserted" \in Phases /\ b \in Ids \cup {None} /\ TaskType
        BY <3>1 DEF Phases, TypeInv
      <4> QED
        BY <1>2, <2>3, <4>1, SeeTask
    <3>5. /\ task'[w].kind = "reblog" /\ task'[w].actor = task[w].actor
          /\ task'[w].phase # "found"
      BY <1>2, <2>1, <3>4 DEF Tasks
    <3>6. Remembered'
      BY <1>2, <2>1, <3>2, <3>4, <3>5, RememberedStep
    <3> QED
      BY <1>1, <1>3, <3>2, <3>3, <3>4, <3>6 DEF TypeInv, TaskType
  <2> QED
    BY <1>6, <2>2, <2>3 DEF InsertBoost
<1>7. CASE InsertAnnounce(w)
  <2> DEFINE b == task[w].id
  <2>1. /\ UNCHANGED <<reblogs, posts>> /\ b \in Ids
        /\ \/ /\ boostBy[b] = None
              /\ boostBy' = [boostBy EXCEPT ![b] = On(w)] /\ boostLive' = boostLive \cup {b}
           \/ UNCHANGED <<boostBy, boostLive>>
    BY <1>2, <1>7 DEF InsertAnnounce, At, TypeInv, Remembered
  <2>2. Onward(w)
    BY <1>7 DEF InsertAnnounce, Onward, Phases
  <2> HIDE DEF b
  <2>3. \A c \in Ids : boostBy[c] # None => boostBy'[c] = boostBy[c]
    BY <2>1 DEF TypeInv, BoostType
  <2>4. BoostType'
    BY <1>2, <2>1, InteractionsAssumption DEF TypeInv, BoostType, Actors
  <2>5. TaskType' /\ Remembered'
    BY <1>2, <1>3, <2>2, <2>3, TaskStep
  <2> QED
    BY <1>1, <2>3, <2>4, <2>5 DEF TypeInv
<1> QED
  BY <1>4, <1>5, <1>6, <1>7 DEF BoostStep

-----------------------------------------------------------------------------
(* Counting *)

LEMMA FiniteActors == IsFiniteSet(Actors) /\ IsFiniteSet(votes \cap (Actors \X Options))
<1>1. IsFiniteSet(Actors)
  BY InteractionsAssumption DEF Actors
<1>2. IsFiniteSet(Actors \X Options)
  BY <1>1, InteractionsAssumption, FS_Product
<1> QED
  BY <1>1, <1>2, FS_Subset

\* The votes that the options of a poll count are finitely many.
LEMMA CountedFinite ==
  ASSUME NEW t \in [Options -> Nat]
  PROVE  IsFiniteSet(Counted(t)) /\ Cardinality(Counted(t)) \in Nat
<1> DEFINE of   == [o \in Options |-> {o} \X (1 .. t[o])]
           sets == {{o} \X (1 .. t[o]) : o \in Options}
<1>1. of \in Surjection(Options, sets)
  BY DEF Surjection
<1>2. IsFiniteSet(sets)
  BY <1>1, InteractionsAssumption, FS_Surjection
<1>3. ASSUME NEW o \in Options
      PROVE  IsFiniteSet({o} \X (1 .. t[o]))
  <2>1. 1 \in Int /\ t[o] \in Int
    OBVIOUS
  <2>2. IsFiniteSet({o}) /\ IsFiniteSet(1 .. t[o])
    BY <2>1, FS_Singleton, FS_Interval
  <2> QED
    BY <2>2, FS_Product
<1>4. \A s \in sets : IsFiniteSet(s)
  BY <1>3
<1>5. IsFiniteSet(UNION sets)
  BY <1>2, <1>4, FS_UNION
<1> QED
  BY <1>5, FS_CardinalityType DEF Counted

LEMMA VotersNowType ==
  ASSUME PollType
  PROVE  VotersNow \in Nat
<1>1. {v[1] : v \in votes} \subseteq Actors
  BY DEF PollType
<1> QED
  BY <1>1, FiniteActors, FS_Subset, FS_CardinalityType DEF VotersNow

LEMMA PollStepType ==
  ASSUME TypeInv, NEW w \in Workers, PollStep(w)
  PROVE  TypeInv'
<1>1. FavType' /\ BoostType' /\ RestType' /\ boostBy' = boostBy
  BY DEF PollStep, FindVote, Vote, InsertVote, CountVoters, WriteVote, others, fixed, favVars,
     boostVars, TypeInv, FavType, BoostType, RestType
<1>2. Busy(w) /\ On(w) \in Actors /\ task[w] \in Tasks
  <2>1. Busy(w)
    BY DEF PollStep, FindVote, Vote, InsertVote, CountVoters, WriteVote, At
  <2> QED
    BY <2>1, BusyTask DEF TypeInv, Tasks, On
<1>3. drifted' \in BOOLEAN
  BY DEF PollStep, FindVote, Vote, InsertVote, CountVoters, WriteVote, pollVars, TypeInv, TaskType
<1>4. /\ task[w].seen \in [Options -> Nat] /\ task[w].choices \in SUBSET Options
      /\ task[w].voters \in Nat
  BY <1>2 DEF Tasks
<1>5. Raised(w) \in [Options -> Nat] /\ Chosen(w) \subseteq Actors \X Options
  BY <1>2, <1>4 DEF Raised, Chosen
<1>6. Cardinality(task[w].choices) \in Nat
  BY <1>4, InteractionsAssumption, FS_Subset, FS_CardinalityType
<1>7. PollType'
  <2>1. CASE FindVote(w) \/ InsertVote(w) \/ CountVoters(w)
    BY <1>5, <2>1 DEF FindVote, InsertVote, CountVoters, pollVars, TypeInv, PollType
  <2>2. CASE Vote(w)
    <3>1. CASE UNCHANGED pollVars
      BY <3>1 DEF pollVars, TypeInv, PollType
    <3>2. CASE /\ votes' = votes \cup Chosen(w) /\ tally' = Raised(w)
               /\ votesCount' = votesCount + Cardinality(task[w].choices)
               /\ votersCount' = votersCount + 1
               /\ overwritten' = (overwritten \/ tally # task[w].seen)
      BY <1>5, <1>6, <3>2 DEF TypeInv, PollType
    <3> QED
      BY <2>2, <3>1, <3>2 DEF Vote
  <2>3. CASE WriteVote(w)
    BY <1>4, <1>5, <2>3, CountedFinite DEF WriteVote, TypeInv, PollType
  <2> QED
    BY <2>1, <2>2, <2>3 DEF PollStep
<1>8. CASE ~CountVoters(w)
  <2>1. Onward(w)
    BY <1>8 DEF PollStep, FindVote, Vote, InsertVote, WriteVote, Onward, Phases
  <2>2. TaskType' /\ Remembered'
    BY <1>1, <1>2, <1>3, <2>1, TaskStep
  <2> QED
    BY <1>1, <1>7, <2>2 DEF TypeInv
<1>9. CASE CountVoters(w)
  <2>1. VotersNow \in Nat
    BY VotersNowType DEF TypeInv
  <2>2. task' = [task EXCEPT ![w] = [task[w] EXCEPT !.phase = "counted", !.voters = VotersNow]]
    BY <1>2, <1>9 DEF CountVoters, TypeInv, TaskType
  <2>3. [task[w] EXCEPT !.phase = "counted", !.voters = VotersNow] \in Tasks
    BY <1>2, <2>1 DEF Tasks
  <2>4. /\ task' \in [Workers -> Tasks \cup {Idle}]
        /\ task'[w] = [task[w] EXCEPT !.phase = "counted", !.voters = VotersNow]
        /\ \A v \in Workers : v # w => task'[v] = task[v]
    BY <2>2, <2>3 DEF TypeInv, TaskType
  <2>5. /\ task'[w].kind = task[w].kind /\ task'[w].actor = task[w].actor
        /\ task'[w].id = task[w].id /\ task'[w].phase # "found"
    BY <1>2, <2>4 DEF Tasks
  <2>6. Remembered'
    BY <1>1, <1>2, <2>4, <2>5, RememberedStep
  <2> QED
    BY <1>1, <1>3, <1>7, <2>4, <2>6 DEF TypeInv, TaskType
<1> QED
  BY <1>8, <1>9

\* A new task remembers no row, but for an Announce the id its boost will have.
LEMMA NewTaskType ==
  ASSUME TypeInv, NEW w \in Workers, ~Busy(w), NEW a \in Actors, NEW kind \in KindsOf(a),
         NEW phase \in {"checked", "read"}, NEW id \in Ids \cup {None}, NEW C \in SUBSET Options,
         kind = "announce" => id \in Ids, NEW seen \in [Options -> Nat],
         task' = [task EXCEPT ![w] = [NewTask(kind, a, phase, id, C) EXCEPT !.seen = seen]],
         drifted' = drifted, boostBy' = boostBy
  PROVE  /\ TaskType' /\ Remembered'
         /\ task'[w].phase = phase /\ task'[w] \in Tasks
         /\ \A v \in Workers : v # w => task'[v] = task[v]
<1> DEFINE t == [NewTask(kind, a, phase, id, C) EXCEPT !.seen = seen]
<1>1. /\ t \in Tasks /\ t.kind = kind /\ t.actor = a /\ t.phase = phase /\ t.id = id
  BY DEF NewTask, Tasks, KindsOf
<1>2. /\ task' \in [Workers -> Tasks \cup {Idle}] /\ task'[w] = t
      /\ \A v \in Workers : v # w => task'[v] = task[v]
  BY <1>1 DEF TypeInv, TaskType
<1> HIDE DEF t
<1>3. \A v \in Workers : v # w /\ Busy(v)' => Busy(v)
  BY <1>2 DEF Busy
<1>4. Remembered'
  BY <1>1, <1>2, <1>3 DEF TypeInv, Remembered, On, KindsOf
<1> QED
  BY <1>1, <1>2, <1>4 DEF TypeInv, TaskType

LEMMA StartType ==
  ASSUME TypeInv, NEW w \in Workers, NEW kind, NEW a \in Actors,
         Start(w, kind, a) \/ \E C \in SUBSET Options : StartVote(w, kind, a, C)
  PROVE  /\ TypeInv' /\ ~Busy(w) /\ task'[w].phase \in {"checked", "read"}
         /\ \A v \in Workers : v # w => task'[v] = task[v]
         /\ UNCHANGED <<others, favVars, boostVars, pollVars, drifted>>
<1>1. /\ ~Busy(w) /\ kind \in KindsOf(a)
      /\ UNCHANGED <<others, favVars, boostVars, pollVars, drifted>>
  BY DEF Start, StartVote
<1>2. FavType' /\ BoostType' /\ PollType' /\ RestType'
  BY <1>1 DEF others, fixed, favVars, boostVars, pollVars, TypeInv, FavType, BoostType, PollType,
     RestType
<1>3. Zero \in [Options -> Nat] /\ tally \in [Options -> Nat] /\ boostBy' = boostBy
  BY <1>1 DEF Zero, TypeInv, PollType, boostVars
<1>4. CASE Start(w, kind, a)
  <2>1. PICK id \in Ids \cup {None} :
          /\ task' = [task EXCEPT ![w] = NewTask(kind, a, "checked", id, {})]
          /\ kind = "announce" => id \in Ids
    BY <1>4 DEF Start, Fresh
  <2>2. NewTask(kind, a, "checked", id, {}) =
          [NewTask(kind, a, "checked", id, {}) EXCEPT !.seen = Zero]
    BY DEF NewTask
  <2>3. /\ task' = [task EXCEPT ![w] = [NewTask(kind, a, "checked", id, {}) EXCEPT !.seen = Zero]]
        /\ "checked" \in {"checked", "read"} /\ {} \in SUBSET Options
    BY <2>1, <2>2
  <2>4. drifted' = drifted /\ boostBy' = boostBy /\ (kind = "announce" => id \in Ids)
    BY <1>1, <2>1, <1>3
  <2>5. /\ TaskType' /\ Remembered' /\ task'[w].phase = "checked"
        /\ \A v \in Workers : v # w => task'[v] = task[v]
    BY <1>1, <1>3, <2>3, <2>4, NewTaskType
  <2> QED
    BY <1>1, <1>2, <2>5 DEF TypeInv
<1>5. ASSUME NEW C \in SUBSET Options, StartVote(w, kind, a, C)
      PROVE  /\ TypeInv' /\ task'[w].phase \in {"checked", "read"}
             /\ \A v \in Workers : v # w => task'[v] = task[v]
  <2>1. /\ task' = [task EXCEPT ![w] = [NewTask(kind, a, "read", None, C) EXCEPT !.seen = tally]]
        /\ kind # "announce"
    BY <1>5 DEF StartVote
  <2> QED
    BY <1>1, <1>2, <1>3, <2>1, NewTaskType DEF TypeInv
<1> QED
  BY <1>1, <1>4, <1>5

LEMMA CrashType ==
  ASSUME TypeInv, NEW w \in Workers, Crash(w)
  PROVE  TypeInv'
<1>1. FavType' /\ BoostType' /\ PollType' /\ RestType' /\ boostBy' = boostBy
  BY InteractionsAssumption
     DEF Crash, fixed, favVars, boostVars, pollVars, TypeInv, FavType, BoostType, PollType, RestType
<1>2. Busy(w) /\ drifted' \in BOOLEAN /\ Onward(w)
  BY DEF Crash, Onward, Phases, TypeInv, TaskType
<1> QED
  BY <1>1, <1>2, TaskStep DEF TypeInv

LEMMA RedeliverType ==
  ASSUME TypeInv, NEW w \in Workers, Redeliver(w)
  PROVE  TypeInv'
<1>1. FavType' /\ BoostType' /\ PollType' /\ RestType' /\ boostBy' = boostBy
  BY DEF Redeliver, others, fixed, favVars, boostVars, pollVars,
     TypeInv, FavType, BoostType, PollType, RestType
<1>2. Busy(w) /\ task[w] \in Tasks /\ drifted' = drifted
  BY BusyTask DEF Redeliver, TypeInv
<1>3. CASE End(w) \/ Goto(w, "checked")
  <2>1. Onward(w) /\ drifted' \in BOOLEAN
    BY <1>2, <1>3 DEF Onward, Phases, TypeInv, TaskType
  <2> QED
    BY <1>1, <1>2, <2>1, TaskStep DEF TypeInv
<1>4. CASE task' = [task EXCEPT ![w].phase = "read", ![w].seen = tally]
  <2>1. task' = [task EXCEPT ![w] = [task[w] EXCEPT !.phase = "read", !.seen = tally]]
    BY <1>2, <1>4 DEF TypeInv, TaskType
  <2>2. [task[w] EXCEPT !.phase = "read", !.seen = tally] \in Tasks
    BY <1>2 DEF Tasks, TypeInv, PollType
  <2>3. /\ task' \in [Workers -> Tasks \cup {Idle}]
        /\ task'[w] = [task[w] EXCEPT !.phase = "read", !.seen = tally]
        /\ \A v \in Workers : v # w => task'[v] = task[v]
    BY <2>1, <2>2 DEF TypeInv, TaskType
  <2>4. /\ task'[w].kind = task[w].kind /\ task'[w].actor = task[w].actor
        /\ task'[w].id = task[w].id /\ task'[w].phase # "found"
    BY <1>2, <2>3 DEF Tasks
  <2>5. Remembered'
    BY <1>1, <1>2, <2>3, <2>4, RememberedStep
  <2> QED
    BY <1>1, <1>2, <2>3, <2>5 DEF TypeInv, TaskType
<1> QED
  BY <1>3, <1>4 DEF Redeliver

LEMMA TypeNext == TypeInv /\ [Next]_vars => TypeInv'
<1> SUFFICES ASSUME TypeInv, [Next]_vars
             PROVE  TypeInv'
  OBVIOUS
<1>1. CASE DeleteStatus \/ UNCHANGED vars
  BY <1>1 DEF DeleteStatus, vars, fixed, favVars, boostVars, pollVars, TypeInv, FavType, BoostType,
     PollType, RestType, TaskType, Remembered, Busy, On
<1>2. ASSUME NEW w \in Workers, NEW kind, NEW a \in Actors,
             Start(w, kind, a) \/ \E C \in SUBSET Options : StartVote(w, kind, a, C)
      PROVE  TypeInv'
  BY <1>2, StartType
<1> QED
  BY <1>1, <1>2, FavouriteStepType, BoostStepType, PollStepType, CrashType, RedeliverType DEF Next

-----------------------------------------------------------------------------
(* What is counted and what tasks still owe *)

\* Sets that differ in one element at most.
LEMMA CardStep ==
  ASSUME NEW S, NEW T, IsFiniteSet(S), NEW x, \A y : y # x => (y \in S <=> y \in T)
  PROVE  /\ IsFiniteSet(T) /\ Cardinality(S) \in Nat /\ Cardinality(T) \in Nat
         /\ (x \in S <=> x \in T) => T = S
         /\ x \notin S /\ x \in T => Cardinality(T) = Cardinality(S) + 1
         /\ x \in S /\ x \notin T => Cardinality(T) = Cardinality(S) - 1
<1>1. CASE x \in S <=> x \in T
  <2>1. T = S
    BY <1>1
  <2> QED
    BY <1>1, <2>1, FS_CardinalityType
<1>2. CASE x \notin S /\ x \in T
  <2>1. T = S \cup {x}
    BY <1>2
  <2> QED
    BY <1>2, <2>1, FS_AddElement, FS_CardinalityType
<1>3. CASE x \in S /\ x \notin T
  <2>1. T = S \ {x}
    BY <1>3
  <2> QED
    BY <1>3, <2>1, FS_RemoveElement, FS_CardinalityType
<1> QED
  BY <1>1, <1>2, <1>3

FavKinds == {"favourite", "unfavourite", "like", "undoLike"}
BoostKinds == Boosters \cup Removers

\* Worker w has still to count what it did.
Owes(w, kinds) ==
  Busy(w) /\ task[w].kind \in kinds /\ task[w].phase \in {"inserted", "removed", "counted"}

\* A step of w that owes nothing of these kinds before or after it.
Aside(w, kinds) ==
  /\ \A v \in Workers : v # w => task'[v] = task[v]
  /\ ~Owes(w, kinds) /\ ~Owes(w, kinds)'

LEMMA AsidePending ==
  ASSUME NEW w \in Workers, NEW all, Aside(w, all), NEW kinds \in SUBSET all,
         NEW phase \in {"inserted", "removed", "counted"}
  PROVE  /\ Pending(kinds, phase)' = Pending(kinds, phase)
         /\ \A v \in Pending(kinds, phase) : task'[v] = task[v]
BY DEF Aside, Owes, Pending, At, Busy

\* A step of w adds w to those that owe a count or takes it away.
LEMMA PendingStep ==
  ASSUME NEW w \in Workers, \A v \in Workers : v # w => task'[v] = task[v],
         NEW kinds, NEW phase
  PROVE  LET P == Pending(kinds, phase) IN
         /\ Cardinality(P) \in Nat /\ Cardinality(P') \in Nat
         /\ (At(w, kinds, phase) <=> At(w, kinds, phase)') => P' = P
         /\ ~At(w, kinds, phase) /\ At(w, kinds, phase)' => Cardinality(P') = Cardinality(P) + 1
         /\ At(w, kinds, phase) /\ ~At(w, kinds, phase)' => Cardinality(P') = Cardinality(P) - 1
<1> DEFINE P == Pending(kinds, phase)
<1>1. IsFiniteSet(P)
  BY InteractionsAssumption, FS_Subset DEF Pending
<1>2. /\ w \in P <=> At(w, kinds, phase)
      /\ w \in P' <=> At(w, kinds, phase)'
  BY DEF Pending, At, Busy
<1>3. \A v : v # w => (v \in P <=> v \in P')
  BY DEF Pending, At, Busy
<1> HIDE DEF P
<1>4. /\ Cardinality(P) \in Nat /\ Cardinality(P') \in Nat
      /\ (w \in P <=> w \in P') => P' = P
      /\ w \notin P /\ w \in P' => Cardinality(P') = Cardinality(P) + 1
      /\ w \in P /\ w \notin P' => Cardinality(P') = Cardinality(P) - 1
  BY <1>1, <1>3, CardStep
<1> QED
  BY <1>2, <1>4 DEF P

PendingOf(kinds, phase, a) == {w \in Pending(kinds, phase) : On(w) = a}

\* The same for the tasks of one account.
LEMMA PendingOfStep ==
  ASSUME NEW w \in Workers, \A v \in Workers : v # w => task'[v] = task[v],
         NEW kinds, NEW phase, NEW a
  PROVE  LET P   == PendingOf(kinds, phase, a)
             in1 == At(w, kinds, phase) /\ On(w) = a
             in2 == At(w, kinds, phase)' /\ On(w)' = a
         IN
         /\ Cardinality(P) \in Nat /\ Cardinality(P') \in Nat
         /\ (in1 <=> in2) => P' = P
         /\ ~in1 /\ in2 => Cardinality(P') = Cardinality(P) + 1
         /\ in1 /\ ~in2 => Cardinality(P') = Cardinality(P) - 1
<1> DEFINE P == PendingOf(kinds, phase, a)
<1>1. IsFiniteSet(P)
  BY InteractionsAssumption, FS_Subset DEF PendingOf, Pending
<1>2. /\ w \in P <=> At(w, kinds, phase) /\ On(w) = a
      /\ w \in P' <=> At(w, kinds, phase)' /\ On(w)' = a
  BY DEF PendingOf, Pending, At, Busy
<1>3. \A v : v # w => (v \in P <=> v \in P')
  BY DEF PendingOf, Pending, At, Busy, On
<1> HIDE DEF P
<1>4. /\ Cardinality(P) \in Nat /\ Cardinality(P') \in Nat
      /\ (w \in P <=> w \in P') => P' = P
      /\ w \notin P /\ w \in P' => Cardinality(P') = Cardinality(P) + 1
      /\ w \in P /\ w \notin P' => Cardinality(P') = Cardinality(P) - 1
  BY <1>1, <1>3, CardStep
<1> QED
  BY <1>2, <1>4 DEF P

\* The task of w keeps its kind until it ends.
KindKept(w) ==
  /\ Busy(w) /\ task[w] \in Tasks
  /\ \A v \in Workers : v # w => task'[v] = task[v]
  /\ task'[w] # Idle => /\ task'[w] \in Tasks /\ task'[w].kind = task[w].kind
                        /\ task'[w].actor = task[w].actor /\ task'[w].seen = task[w].seen
                        /\ task'[w].choices = task[w].choices

Steps(w) ==
  \/ End(w)
  \/ \E phase \in Phases : Goto(w, phase)
  \/ \E phase \in Phases, id \in Ids \cup {None} : See(w, phase, id)

LEMMA StepsKeepKind ==
  ASSUME TypeInv, NEW w \in Workers, Busy(w), Steps(w)
  PROVE  KindKept(w)
<1>1. TaskType /\ task[w] \in Tasks
  BY BusyTask DEF TypeInv
<1>2. CASE End(w)
  BY <1>1, <1>2, EndTask DEF KindKept
<1>3. ASSUME NEW phase \in Phases, Goto(w, phase)
      PROVE  KindKept(w)
  <2>1. /\ task'[w] = [task[w] EXCEPT !.phase = phase] /\ task'[w] \in Tasks
        /\ \A v \in Workers : v # w => task'[v] = task[v]
    BY <1>1, <1>3, GotoTask
  <2>2. /\ task'[w].kind = task[w].kind /\ task'[w].actor = task[w].actor
        /\ task'[w].seen = task[w].seen /\ task'[w].choices = task[w].choices
    BY <1>1, <2>1 DEF Tasks
  <2> QED
    BY <1>1, <2>1, <2>2 DEF KindKept
<1>4. ASSUME NEW phase \in Phases, NEW id \in Ids \cup {None}, See(w, phase, id)
      PROVE  KindKept(w)
  <2>1. /\ task'[w] = [task[w] EXCEPT !.phase = phase, !.id = id] /\ task'[w] \in Tasks
        /\ \A v \in Workers : v # w => task'[v] = task[v]
    BY <1>1, <1>4, SeeTask
  <2>2. /\ task'[w].kind = task[w].kind /\ task'[w].actor = task[w].actor
        /\ task'[w].seen = task[w].seen /\ task'[w].choices = task[w].choices
    BY <1>1, <2>1 DEF Tasks
  <2> QED
    BY <1>1, <2>1, <2>2 DEF KindKept
<1> QED
  BY <1>2, <1>3, <1>4 DEF Steps

LEMMA FavouriteKind ==
  ASSUME TypeInv, NEW w \in Workers, FavouriteStep(w)
  PROVE  KindKept(w) /\ task[w].kind \in FavKinds
<1>1. Busy(w) /\ task[w].kind \in FavKinds
  BY DEF FavouriteStep, FindFavourite, AddFavourite, SeekFavourite, DropFavourite, InsertLike,
     CountLike, FindLike, DeleteLike, UncountLike, At, FavKinds
<1>2. favourite[On(w)] \in Ids \cup {None}
  BY <1>1, BusyTask DEF TypeInv, Tasks, On, FavType
<1>3. Steps(w)
  BY <1>2 DEF FavouriteStep, FindFavourite, AddFavourite, SeekFavourite, DropFavourite, InsertLike,
     CountLike, FindLike, DeleteLike, UncountLike, Steps, Phases
<1> QED
  BY <1>1, <1>3, StepsKeepKind

LEMMA BoostKind ==
  ASSUME TypeInv, NEW w \in Workers, BoostStep(w)
  PROVE  KindKept(w) /\ task[w].kind \in BoostKinds
<1>1. Busy(w) /\ task[w].kind \in BoostKinds
  BY DEF BoostStep, FindBoost, InsertBoost, InsertAnnounce, CountBoost, SeekBoost, RemoveBoost,
     UncountBoost, At, BoostKinds, Boosters, Removers
<1>2. BoostsOf(On(w)) \subseteq Ids /\ Fresh \subseteq Ids
  BY DEF TypeInv, BoostType, BoostsOf, Fresh
<1>3. Steps(w)
  BY <1>2 DEF BoostStep, FindBoost, InsertBoost, InsertAnnounce, CountBoost, SeekBoost, RemoveBoost,
     UncountBoost, Steps, Phases
<1> QED
  BY <1>1, <1>3, StepsKeepKind

LEMMA PollKind ==
  ASSUME TypeInv, NEW w \in Workers, PollStep(w)
  PROVE  KindKept(w) /\ task[w].kind \in {"vote", "inVote"}
<1>1. Busy(w) /\ task[w].kind \in {"vote", "inVote"}
  BY DEF PollStep, FindVote, Vote, InsertVote, CountVoters, WriteVote, At
<1>2. CASE ~CountVoters(w)
  <2>1. Steps(w)
    BY <1>2 DEF PollStep, FindVote, Vote, InsertVote, WriteVote, Steps, Phases
  <2> QED
    BY <1>1, <2>1, StepsKeepKind
<1>3. CASE CountVoters(w)
  <2>1. VotersNow \in Nat /\ task[w] \in Tasks
    BY <1>1, VotersNowType, BusyTask DEF TypeInv
  <2>2. task' = [task EXCEPT ![w] = [task[w] EXCEPT !.phase = "counted", !.voters = VotersNow]]
    BY <1>3 DEF CountVoters, TypeInv, TaskType
  <2>3. [task[w] EXCEPT !.phase = "counted", !.voters = VotersNow] \in Tasks
    BY <2>1 DEF Tasks
  <2>4. /\ task'[w] = [task[w] EXCEPT !.phase = "counted", !.voters = VotersNow]
        /\ \A v \in Workers : v # w => task'[v] = task[v]
    BY <2>2 DEF TypeInv, TaskType
  <2> QED
    BY <1>1, <2>1, <2>3, <2>4 DEF KindKept, Tasks
<1> QED
  BY <1>2, <1>3

\* Who else owes nothing of some kinds.
LEMMA StepAside ==
  ASSUME NEW w \in Workers, KindKept(w), NEW kinds, task[w].kind \notin kinds
  PROVE  Aside(w, kinds)
BY DEF KindKept, Aside, Owes, Busy

AllKinds == ApiKinds \cup QueueKinds

LEMMA StartAside ==
  ASSUME TypeInv, NEW w \in Workers, NEW kind, NEW a \in Actors,
         Start(w, kind, a) \/ \E C \in SUBSET Options : StartVote(w, kind, a, C)
  PROVE  Aside(w, AllKinds)
BY StartType DEF Aside, Owes

LEMMA RedeliverAside ==
  ASSUME TypeInv, NEW w \in Workers, Redeliver(w)
  PROVE  Aside(w, AllKinds)
<1>1. Busy(w) /\ TaskType /\ task[w].phase = "queued" /\ task[w] \in Tasks
  BY BusyTask DEF Redeliver, TypeInv
<1>2. ~Owes(w, AllKinds)
  BY <1>1 DEF Owes
<1>3. CASE End(w)
  BY <1>1, <1>2, <1>3, EndTask DEF Aside, Owes, Busy
<1>4. CASE Goto(w, "checked")
  <2>1. /\ task'[w] = [task[w] EXCEPT !.phase = "checked"]
        /\ \A v \in Workers : v # w => task'[v] = task[v]
    BY <1>1, <1>4, GotoTask DEF Phases
  <2> QED
    BY <1>1, <1>2, <2>1 DEF Aside, Owes, Tasks
<1>5. CASE task' = [task EXCEPT ![w].phase = "read", ![w].seen = tally]
  <2>1. task' = [task EXCEPT ![w] = [task[w] EXCEPT !.phase = "read", !.seen = tally]]
    BY <1>1, <1>5 DEF TaskType
  <2>2. /\ task'[w] = [task[w] EXCEPT !.phase = "read", !.seen = tally]
        /\ \A v \in Workers : v # w => task'[v] = task[v]
    BY <1>1, <2>1 DEF TaskType
  <2> QED
    BY <1>1, <1>2, <2>2 DEF Aside, Owes, Tasks
<1> QED
  BY <1>3, <1>4, <1>5 DEF Redeliver

\* A task that is interrupted while it owes a count makes the counters drift.
LEMMA CrashAside ==
  ASSUME TypeInv, NEW w \in Workers, Crash(w), ~drifted'
  PROVE  Aside(w, AllKinds) /\ drifted' = drifted
<1>1. /\ Busy(w) /\ TaskType /\ task[w] \in Tasks /\ ~Owes(w, AllKinds)
      /\ drifted' = drifted /\ (Goto(w, "queued") \/ End(w))
  BY BusyTask DEF Crash, TypeInv, Owes, TaskType
<1>2. CASE End(w)
  BY <1>1, <1>2, EndTask DEF Aside, Owes, Busy
<1>3. CASE Goto(w, "queued")
  <2>1. /\ task'[w] = [task[w] EXCEPT !.phase = "queued"]
        /\ \A v \in Workers : v # w => task'[v] = task[v]
    BY <1>1, <1>3, GotoTask DEF Phases
  <2> QED
    BY <1>1, <2>1 DEF Aside, Owes, Tasks
<1> QED
  BY <1>1, <1>2, <1>3

-----------------------------------------------------------------------------
(* favourites_count *)

Fans == {a \in Actors : favourite[a] # None}

FavCount ==
  ~drifted => favourites + Cardinality(Pending({"like"}, "inserted"))
                = Cardinality(Fans) + Cardinality(Pending({"undoLike"}, "removed"))

LEMMA FavAside ==
  ASSUME FavCount, UNCHANGED favVars, drifted => drifted', NEW w \in Workers,
         Aside(w, {"like", "undoLike"})
  PROVE  FavCount'
<1>1. /\ Pending({"like"}, "inserted")' = Pending({"like"}, "inserted")
      /\ Pending({"undoLike"}, "removed")' = Pending({"undoLike"}, "removed")
  BY AsidePending
<1>2. Fans' = Fans
  BY DEF Fans, favVars
<1> QED
  BY <1>1, <1>2 DEF FavCount, favVars

LEMMA FansStep ==
  ASSUME NEW a, \A b \in Actors : b # a => favourite'[b] = favourite[b]
  PROVE  /\ Cardinality(Fans) \in Nat /\ Cardinality(Fans') \in Nat
         /\ (a \in Fans <=> a \in Fans') => Fans' = Fans
         /\ a \notin Fans /\ a \in Fans' => Cardinality(Fans') = Cardinality(Fans) + 1
         /\ a \in Fans /\ a \notin Fans' => Cardinality(Fans') = Cardinality(Fans) - 1
<1>1. IsFiniteSet(Fans)
  BY FiniteActors, FS_Subset DEF Fans
<1>2. \A b : b # a => (b \in Fans <=> b \in Fans')
  BY DEF Fans
<1> QED
  BY <1>1, <1>2, CardStep

\* Each step of a favourite that changes a row changes what is owed or the counter.
LEMMA FavCountStep ==
  ASSUME TypeInv, FavCount, NEW w \in Workers, FavouriteStep(w)
  PROVE  FavCount'
<1> DEFINE a == On(w)
<1>1. /\ Busy(w) /\ task[w] \in Tasks /\ a \in Actors
      /\ \A v \in Workers : v # w => task'[v] = task[v]
  BY FavouriteKind DEF KindKept, Tasks, On
<1>2. /\ favourite \in [Actors -> Ids \cup {None}] /\ favourites \in Nat /\ TaskType
      /\ None \notin Ids
  BY InteractionsAssumption DEF TypeInv, FavType
<1>3. ASSUME End(w)
      PROVE  ~Busy(w)'
  BY <1>2, <1>3, EndTask DEF Busy
<1>4. ASSUME NEW phase \in Phases, Goto(w, phase)
      PROVE  Busy(w)' /\ task'[w].kind = task[w].kind /\ task'[w].phase = phase
  <2>1. task'[w] = [task[w] EXCEPT !.phase = phase] /\ task'[w] \in Tasks
    BY <1>1, <1>2, <1>4, GotoTask
  <2>2. Idle \notin Tasks
    BY DEF Idle, Tasks, ApiKinds, QueueKinds
  <2> QED
    BY <1>1, <2>1, <2>2 DEF Tasks, Busy
<1>5. CASE UNCHANGED <<favVars, drifted>> /\ ~Owes(w, {"like", "undoLike"})
                                         /\ ~Owes(w, {"like", "undoLike"})'
  BY <1>1, <1>5, FavAside DEF Aside
<1>6. CASE FindFavourite(w) \/ SeekFavourite(w) \/ FindLike(w)
  <2>1. UNCHANGED <<favVars, drifted>> /\ ~Owes(w, {"like", "undoLike"})
    BY <1>6 DEF FindFavourite, SeekFavourite, FindLike, At, Owes
  <2>2. \/ task[w].kind \notin {"like", "undoLike"}
        \/ \E i \in Ids \cup {None} : See(w, "found", i)
    BY <1>1, <1>2, <1>6 DEF FindFavourite, SeekFavourite, FindLike, At
  <2>3. ~Owes(w, {"like", "undoLike"})'
    <3>1. CASE task[w].kind \notin {"like", "undoLike"}
      BY <3>1, FavouriteKind DEF KindKept, Owes, Busy
    <3>2. ASSUME NEW i \in Ids \cup {None}, See(w, "found", i)
          PROVE  ~Owes(w, {"like", "undoLike"})'
      <4>1. task'[w] = [task[w] EXCEPT !.phase = "found", !.id = i]
        <5>1. "found" \in Phases /\ Busy(w) /\ TaskType
          BY <1>1, <1>2 DEF Phases
        <5> QED
          BY <3>2, <5>1, SeeTask
      <4> QED
        BY <1>1, <4>1 DEF Owes, Tasks
    <3> QED
      BY <2>2, <3>1, <3>2
  <2> QED
    BY <1>5, <2>1, <2>3
<1> DEFINE L == Pending({"like"}, "inserted")
           U == Pending({"undoLike"}, "removed")
           inL == At(w, {"like"}, "inserted")
           inU == At(w, {"undoLike"}, "removed")
<1>7. /\ Cardinality(L) \in Nat /\ Cardinality(L') \in Nat
      /\ (inL <=> inL') => L' = L
      /\ ~inL /\ inL' => Cardinality(L') = Cardinality(L) + 1
      /\ inL /\ ~inL' => Cardinality(L') = Cardinality(L) - 1
  BY <1>1, PendingStep
<1>8. /\ Cardinality(U) \in Nat /\ Cardinality(U') \in Nat
      /\ (inU <=> inU') => U' = U
      /\ ~inU /\ inU' => Cardinality(U') = Cardinality(U) + 1
      /\ inU /\ ~inU' => Cardinality(U') = Cardinality(U) - 1
  BY <1>1, PendingStep
<1>9. ASSUME \A b \in Actors : b # a => favourite'[b] = favourite[b]
      PROVE  /\ Cardinality(Fans) \in Nat /\ Cardinality(Fans') \in Nat
             /\ (favourite[a] # None <=> favourite'[a] # None) => Fans' = Fans
             /\ favourite[a] = None /\ favourite'[a] # None =>
                  Cardinality(Fans') = Cardinality(Fans) + 1
             /\ favourite[a] # None /\ favourite'[a] = None =>
                  Cardinality(Fans') = Cardinality(Fans) - 1
  BY <1>1, <1>9, FansStep DEF Fans
<1>10. FavCount <=> (~drifted => favourites + Cardinality(L) = Cardinality(Fans) + Cardinality(U))
  BY DEF FavCount
<1>11. FavCount' <=> (~drifted' => favourites' + Cardinality(L') = Cardinality(Fans') + Cardinality(U'))
  BY DEF FavCount
<1>12. CASE AddFavourite(w)
  <2>1. ~inL /\ ~inU /\ ~inL' /\ ~inU' /\ drifted' = drifted
    BY <1>3, <1>12 DEF AddFavourite, At
  <2>2. CASE UNCHANGED favVars
    <3>1. Fans' = Fans /\ favourites' = favourites
      BY <2>2 DEF Fans, favVars
    <3> HIDE DEF L, U, inL, inU
    <3> QED
      BY <1>7, <1>8, <1>10, <1>11, <2>1, <3>1
  <2>3. CASE favourite[a] = None /\ ~UNCHANGED favVars
    <3>1. /\ favourite'[a] # None /\ favourites' = favourites + 1
          /\ \A b \in Actors : b # a => favourite'[b] = favourite[b]
      BY <1>1, <1>2, <1>12, <2>3 DEF AddFavourite, Fresh
    <3>2. Cardinality(Fans') = Cardinality(Fans) + 1 /\ Cardinality(Fans) \in Nat
      BY <1>9, <2>3, <3>1
    <3> HIDE DEF L, U, inL, inU
    <3> QED
      BY <1>2, <1>7, <1>8, <1>10, <1>11, <2>1, <3>1, <3>2
  <2> QED
    BY <1>12, <2>2, <2>3 DEF AddFavourite
<1>13. CASE DropFavourite(w)
  <2>1. ~inL /\ ~inU /\ ~inL' /\ ~inU'
    BY <1>3, <1>13 DEF DropFavourite, At
  <2>2. CASE drifted'
    BY <1>11, <2>2
  <2>3. CASE ~drifted'
    <3>1. /\ favourite[a] = task[w].id /\ task[w].id \in Ids
          /\ favourite' = [favourite EXCEPT ![a] = None]
          /\ favourites # 0 /\ favourites' = favourites - 1 /\ ~drifted
      BY <1>1, <1>13, <2>3 DEF DropFavourite, At, Less, TypeInv, Remembered
    <3>2. /\ favourite[a] # None /\ favourite'[a] = None
          /\ \A b \in Actors : b # a => favourite'[b] = favourite[b]
      BY <1>1, <1>2, <3>1
    <3>3. Cardinality(Fans') = Cardinality(Fans) - 1 /\ Cardinality(Fans) \in Nat
      BY <1>9, <3>2
    <3> HIDE DEF L, U, inL, inU
    <3> QED
      BY <1>2, <1>7, <1>8, <1>10, <1>11, <2>1, <3>1, <3>3
  <2> QED
    BY <2>2, <2>3
<1>14. CASE InsertLike(w)
  <2>1. ~inL /\ ~inU /\ drifted' = drifted /\ favourites' = favourites
    BY <1>14 DEF InsertLike, At
  <2>2. CASE End(w) /\ favourite' = favourite
    <3>1. ~inL' /\ ~inU' /\ Fans' = Fans
      BY <1>3, <2>2 DEF At, Fans
    <3> HIDE DEF L, U, inL, inU
    <3> QED
      BY <1>7, <1>8, <1>10, <1>11, <2>1, <3>1
  <2>3. CASE favourite[a] = None /\ Goto(w, "inserted")
    <3>1. PICK i \in Ids : favourite' = [favourite EXCEPT ![a] = i]
      BY <1>14, <2>3 DEF InsertLike, Fresh
    <3>2. /\ favourite'[a] # None
          /\ \A b \in Actors : b # a => favourite'[b] = favourite[b]
      BY <1>1, <1>2, <3>1
    <3>3. Cardinality(Fans') = Cardinality(Fans) + 1 /\ Cardinality(Fans) \in Nat
      BY <1>9, <2>3, <3>2
    <3>4. Busy(w)' /\ task'[w].kind = "like" /\ task'[w].phase = "inserted"
      BY <1>4, <1>14, <2>3 DEF InsertLike, At, Phases
    <3>5. inL' /\ ~inU'
      BY <3>4 DEF At
    <3> HIDE DEF L, U, inL, inU
    <3> QED
      BY <1>2, <1>7, <1>8, <1>10, <1>11, <2>1, <3>3, <3>5
  <2> QED
    BY <1>14, <2>2, <2>3 DEF InsertLike
<1>15. CASE CountLike(w)
  <2>1. /\ inL /\ ~inU /\ ~inL' /\ ~inU' /\ drifted' = drifted
        /\ favourites' = favourites + 1 /\ Fans' = Fans
    BY <1>3, <1>15 DEF CountLike, At, Fans
  <2>2. Cardinality(Fans) \in Nat
    BY <1>9, <1>15 DEF CountLike
  <2> HIDE DEF L, U, inL, inU
  <2> QED
    BY <1>2, <1>7, <1>8, <1>10, <1>11, <2>1, <2>2
<1>16. CASE DeleteLike(w)
  <2>1. ~inL /\ ~inU /\ drifted' = drifted /\ favourites' = favourites
    BY <1>16 DEF DeleteLike, At
  <2>2. CASE End(w) /\ favourite' = favourite
    <3>1. ~inL' /\ ~inU' /\ Fans' = Fans
      BY <1>3, <2>2 DEF At, Fans
    <3> HIDE DEF L, U, inL, inU
    <3> QED
      BY <1>7, <1>8, <1>10, <1>11, <2>1, <3>1
  <2>3. CASE /\ favourite[a] # None /\ Goto(w, "removed")
             /\ favourite' = [favourite EXCEPT ![a] = None]
    <3>1. /\ favourite'[a] = None
          /\ \A b \in Actors : b # a => favourite'[b] = favourite[b]
      BY <1>1, <1>2, <2>3
    <3>2. Cardinality(Fans') = Cardinality(Fans) - 1 /\ Cardinality(Fans) \in Nat
      BY <1>9, <2>3, <3>1
    <3>3. Busy(w)' /\ task'[w].kind = "undoLike" /\ task'[w].phase = "removed"
      BY <1>4, <1>16, <2>3 DEF DeleteLike, At, Phases
    <3>4. ~inL' /\ inU'
      BY <3>3 DEF At
    <3> HIDE DEF L, U, inL, inU
    <3> QED
      BY <1>2, <1>7, <1>8, <1>10, <1>11, <2>1, <3>2, <3>4
  <2> QED
    BY <1>16, <2>2, <2>3 DEF DeleteLike
<1>17. CASE UncountLike(w)
  <2>1. /\ ~inL /\ inU /\ ~inL' /\ ~inU' /\ Fans' = Fans
        /\ drifted' \/ (~drifted /\ favourites # 0 /\ favourites' = favourites - 1)
    BY <1>3, <1>17 DEF UncountLike, At, Fans, Less
  <2>2. Cardinality(Fans) \in Nat
    BY <1>9, <1>17 DEF UncountLike
  <2> HIDE DEF L, U, inL, inU
  <2> QED
    BY <1>2, <1>7, <1>8, <1>10, <1>11, <2>1, <2>2
<1> QED
  BY <1>6, <1>12, <1>13, <1>14, <1>15, <1>16, <1>17 DEF FavouriteStep

-----------------------------------------------------------------------------
(* reblogs_count, statuses_count *)

\* What a step of a boost or of its removal may do, a being the account.
NoEffect(w) ==
  /\ UNCHANGED <<boostVars, drifted>>
  /\ ~Owes(w, BoostKinds) /\ ~Owes(w, BoostKinds)'

Moves(w, kinds, from, to) ==
  /\ At(w, kinds, from) /\ At(w, kinds, to)'
  /\ task'[w].kind = task[w].kind /\ On(w)' = On(w)

Inserts(w, b) ==
  /\ Moves(w, Boosters, "absent", "inserted")
  /\ b \in Ids /\ boostBy[b] = None
  /\ task[w].kind = "reblog" => BoostsOf(On(w)) = {}
  /\ boostBy' = [boostBy EXCEPT ![b] = On(w)]
  /\ boostLive' = boostLive \cup {b}
  /\ UNCHANGED <<reblogs, posts, drifted>>

Counts(w) ==
  /\ At(w, Boosters, "inserted") /\ ~Busy(w)'
  /\ reblogs' = reblogs + 1
  /\ posts' = [a \in Locals |-> IF a = On(w) THEN posts[a] + 1 ELSE posts[a]]
  /\ UNCHANGED <<boostBy, boostLive, drifted>>

Removes(w, b) ==
  /\ Moves(w, Removers, "found", "removed")
  /\ b \in boostLive /\ boostBy[b] = On(w)
  /\ boostLive' = boostLive \ {b}
  /\ UNCHANGED <<boostBy, reblogs, posts, drifted>>

Uncounts(w) ==
  /\ At(w, Removers, "removed") /\ ~Busy(w)'
  /\ reblogs # 0 /\ (On(w) \in Locals => posts[On(w)] # 0)
  /\ reblogs' = reblogs - 1
  /\ posts' = [a \in Locals |-> IF a = On(w) THEN posts[a] - 1 ELSE posts[a]]
  /\ UNCHANGED <<boostBy, boostLive, drifted>>

LEMMA BoostEffect ==
  ASSUME TypeInv, NEW w \in Workers, BoostStep(w), ~drifted'
  PROVE  \/ NoEffect(w) \/ Counts(w) \/ Uncounts(w)
         \/ \E b \in Ids : Inserts(w, b) \/ Removes(w, b)
<1>1. /\ Busy(w) /\ task[w] \in Tasks /\ TaskType /\ On(w) \in Actors /\ drifted \in BOOLEAN
      /\ Idle \notin Tasks
  BY BoostKind DEF KindKept, Tasks, On, TypeInv, TaskType, Idle, ApiKinds, QueueKinds
<1>2. ASSUME End(w)
      PROVE  ~Busy(w)'
  BY <1>1, <1>2, EndTask DEF Busy
<1>3. ASSUME NEW phase \in Phases, Goto(w, phase)
      PROVE  /\ Busy(w)' /\ task'[w].phase = phase
             /\ task'[w].kind = task[w].kind /\ On(w)' = On(w)
  <2>1. task'[w] = [task[w] EXCEPT !.phase = phase] /\ task'[w] \in Tasks
    BY <1>1, <1>3, GotoTask
  <2> QED
    BY <1>1, <2>1 DEF Tasks, Busy, On
<1>4. ASSUME NEW phase \in Phases, NEW id \in Ids, See(w, phase, id)
      PROVE  /\ Busy(w)' /\ task'[w].phase = phase
             /\ task'[w].kind = task[w].kind /\ On(w)' = On(w)
  <2>1. task'[w] = [task[w] EXCEPT !.phase = phase, !.id = id] /\ task'[w] \in Tasks
    BY <1>1, <1>4, SeeTask
  <2> QED
    BY <1>1, <2>1 DEF Tasks, Busy, On
<1>5. {"absent", "inserted", "found", "removed", "queued"} \subseteq Phases
  BY DEF Phases
<1>6. CASE FindBoost(w)
  <2>1. UNCHANGED <<boostVars, drifted>> /\ ~Owes(w, BoostKinds)
    BY <1>6 DEF FindBoost, At, Owes
  <2>2. ~Owes(w, BoostKinds)'
    BY <1>2, <1>3, <1>5, <1>6 DEF FindBoost, Owes
  <2> QED
    BY <2>1, <2>2 DEF NoEffect
<1>7. CASE SeekBoost(w)
  <2>1. UNCHANGED <<boostVars, drifted>> /\ ~Owes(w, BoostKinds)
    BY <1>7 DEF SeekBoost, At, Owes
  <2>2. CASE End(w)
    BY <1>2, <2>1, <2>2 DEF NoEffect, Owes
  <2>3. ASSUME NEW b \in BoostsOf(On(w)), See(w, "found", b)
        PROVE  NoEffect(w)
    <3>1. b \in Ids
      BY DEF BoostsOf, TypeInv, BoostType
    <3>2. task'[w].phase = "found"
      BY <1>4, <1>5, <2>3, <3>1
    <3> QED
      BY <2>1, <3>2 DEF NoEffect, Owes
  <2> QED
    BY <1>7, <2>2, <2>3 DEF SeekBoost
<1>8. CASE InsertBoost(w)
  <2>1. At(w, Boosters, "absent") /\ task[w].kind = "reblog" /\ UNCHANGED <<reblogs, posts, drifted>>
    BY <1>8 DEF InsertBoost, At, Boosters
  <2>2. CASE End(w) /\ UNCHANGED <<boostBy, boostLive>>
    BY <1>2, <2>1, <2>2 DEF NoEffect, Owes, At, boostVars
  <2>3. ASSUME NEW b \in Fresh, See(w, "inserted", b), BoostsOf(On(w)) = {},
               boostBy' = [boostBy EXCEPT ![b] = On(w)], boostLive' = boostLive \cup {b}
        PROVE  b \in Ids /\ Inserts(w, b)
    <3>1. b \in Ids /\ boostBy[b] = None
      BY DEF Fresh
    <3>2. /\ Busy(w)' /\ task'[w].phase = "inserted"
          /\ task'[w].kind = task[w].kind /\ On(w)' = On(w)
      BY <1>4, <1>5, <2>3, <3>1
    <3>3. Moves(w, Boosters, "absent", "inserted")
      BY <2>1, <3>2 DEF Moves, At, Boosters
    <3> QED
      BY <2>1, <2>3, <3>1, <3>3 DEF Inserts
  <2> QED
    BY <1>8, <2>2, <2>3 DEF InsertBoost
<1>9. CASE InsertAnnounce(w)
  <2>1. /\ At(w, Boosters, "absent") /\ task[w].kind = "announce" /\ task[w].id \in Ids
        /\ UNCHANGED <<reblogs, posts, drifted>>
    BY <1>9 DEF InsertAnnounce, At, Boosters, TypeInv, Remembered
  <2>2. CASE Goto(w, "queued") /\ UNCHANGED <<boostBy, boostLive>>
    <3>1. task'[w].phase = "queued"
      BY <1>3, <1>5, <2>2
    <3> QED
      BY <2>1, <2>2, <3>1 DEF NoEffect, Owes, At, boostVars
  <2>3. CASE /\ boostBy[task[w].id] = None /\ Goto(w, "inserted")
             /\ boostBy' = [boostBy EXCEPT ![task[w].id] = On(w)]
             /\ boostLive' = boostLive \cup {task[w].id}
    <3>1. /\ Busy(w)' /\ task'[w].phase = "inserted"
          /\ task'[w].kind = task[w].kind /\ On(w)' = On(w)
      BY <1>3, <1>5, <2>3
    <3>2. Moves(w, Boosters, "absent", "inserted")
      BY <2>1, <3>1 DEF Moves, At, Boosters
    <3>3. Inserts(w, task[w].id)
      BY <2>1, <2>3, <3>2 DEF Inserts
    <3> QED
      BY <2>1, <3>3
  <2> QED
    BY <1>9, <2>2, <2>3 DEF InsertAnnounce
<1>10. CASE CountBoost(w)
  BY <1>2, <1>10 DEF CountBoost, Counts, At, Boosters
<1>11. CASE RemoveBoost(w)
  <2>1. /\ At(w, Removers, "found") /\ UNCHANGED <<boostBy, reblogs, posts>>
        /\ task[w].id \in Ids /\ boostBy[task[w].id] = On(w)
    BY <1>11 DEF RemoveBoost, At, Removers, TypeInv, Remembered
  <2>2. CASE task[w].id \in boostLive
    <3>1. Goto(w, "removed") /\ boostLive' = boostLive \ {task[w].id} /\ drifted' = drifted
      BY <1>1, <1>11, <2>2 DEF RemoveBoost
    <3>2. /\ Busy(w)' /\ task'[w].phase = "removed"
          /\ task'[w].kind = task[w].kind /\ On(w)' = On(w)
      BY <1>3, <1>5, <3>1
    <3>3. Moves(w, Removers, "found", "removed")
      BY <2>1, <3>2 DEF Moves, At, Removers
    <3>4. Removes(w, task[w].id)
      BY <2>1, <2>2, <3>1, <3>3 DEF Removes
    <3> QED
      BY <2>1, <3>4
  <2>3. CASE task[w].id \notin boostLive
    <3>1. End(w) /\ boostLive' = boostLive /\ drifted' = drifted
      BY <1>1, <1>11, <2>3 DEF RemoveBoost
    <3> QED
      BY <1>2, <2>1, <3>1 DEF NoEffect, Owes, At, boostVars
  <2> QED
    BY <2>2, <2>3
<1>12. CASE UncountBoost(w)
  <2>1. /\ At(w, Removers, "removed") /\ ~Busy(w)' /\ UNCHANGED <<boostBy, boostLive>>
        /\ reblogs # 0 /\ (On(w) \in Locals => posts[On(w)] # 0) /\ drifted' = drifted
        /\ reblogs' = Less(reblogs)
        /\ posts' = [a \in Locals |-> IF a = On(w) THEN Less(posts[a]) ELSE posts[a]]
    BY <1>1, <1>2, <1>12 DEF UncountBoost, At, Removers
  <2> QED
    BY <2>1 DEF Uncounts, Less
<1> QED
  BY <1>6, <1>7, <1>8, <1>9, <1>10, <1>11, <1>12 DEF BoostStep

LocalRemovers == {"unreblog", "deleteBoost"}

BoostCount ==
  ~drifted => reblogs + Cardinality(Pending(Boosters, "inserted"))
                = Cardinality(boostLive) + Cardinality(Pending(Removers, "removed"))

PostCount ==
  ~drifted => \A a \in Locals :
    posts[a] + Cardinality(PendingOf({"reblog"}, "inserted", a))
      = Cardinality(BoostsOf(a)) + Cardinality(PendingOf(LocalRemovers, "removed", a))

\* OneLocalBoost without counting: only reblogStatus inserts a boost of a local
\* account, and it asks in the same statement that there is none.
SingleBoost == \A a \in Locals : \A b, c \in BoostsOf(a) : b = c

BoostInv == BoostCount /\ PostCount /\ SingleBoost

\* A step that has nothing to do with boosts.
LEMMA BoostAside ==
  ASSUME BoostInv, UNCHANGED boostVars, drifted => drifted', NEW w \in Workers,
         Aside(w, BoostKinds)
  PROVE  BoostInv'
<1>1. /\ Boosters \in SUBSET BoostKinds /\ Removers \in SUBSET BoostKinds
      /\ {"reblog"} \in SUBSET BoostKinds /\ LocalRemovers \in SUBSET BoostKinds
  BY DEF BoostKinds, Boosters, Removers, LocalRemovers
<1>2. /\ Pending(Boosters, "inserted")' = Pending(Boosters, "inserted")
      /\ Pending(Removers, "removed")' = Pending(Removers, "removed")
  BY <1>1, AsidePending
<1>3. ASSUME NEW kinds \in SUBSET BoostKinds, NEW phase \in {"inserted", "removed", "counted"}, NEW a
      PROVE  PendingOf(kinds, phase, a)' = PendingOf(kinds, phase, a)
  BY AsidePending DEF PendingOf, On
<1>4. \A a : /\ PendingOf({"reblog"}, "inserted", a)' = PendingOf({"reblog"}, "inserted", a)
             /\ PendingOf(LocalRemovers, "removed", a)' = PendingOf(LocalRemovers, "removed", a)
  BY <1>1, <1>3
<1>5. \A a : BoostsOf(a)' = BoostsOf(a)
  BY DEF BoostsOf, boostVars
<1>6. BoostCount'
  BY <1>2 DEF BoostInv, BoostCount, boostVars
<1>7. PostCount'
  BY <1>4, <1>5 DEF BoostInv, PostCount, boostVars
<1>8. SingleBoost'
  BY <1>5 DEF BoostInv, SingleBoost
<1> QED
  BY <1>6, <1>7, <1>8 DEF BoostInv

LEMMA SingleBoostStep ==
  ASSUME TypeInv, SingleBoost, NEW w \in Workers, BoostStep(w)
  PROVE  SingleBoost'
<1>1. CASE boostLive' \subseteq boostLive /\ boostBy' = boostBy
  BY <1>1 DEF SingleBoost, BoostsOf
<1>2. ASSUME NEW b, boostBy' = [boostBy EXCEPT ![b] = On(w)], boostLive' = boostLive \cup {b},
             b \in Ids, On(w) \in Locals => BoostsOf(On(w)) = {}, boostBy[b] = None
      PROVE  SingleBoost'
  <2>1. b \notin boostLive /\ \A c \in boostLive : c \in Ids
    BY <1>2 DEF TypeInv, BoostType
  <2>2. \A a \in Locals : BoostsOf(a)' = IF a = On(w) THEN {b} ELSE BoostsOf(a)
    BY <1>2, <2>1 DEF BoostsOf, TypeInv, BoostType
  <2> QED
    BY <2>2 DEF SingleBoost
<1>3. CASE InsertBoost(w)
  BY <1>1, <1>2, <1>3 DEF InsertBoost, Fresh
<1>4. CASE InsertAnnounce(w)
  <2>1. task[w].id \in Ids /\ On(w) \notin Locals
    BY <1>4 DEF InsertAnnounce, At, TypeInv, Remembered, KindsOf, ApiKinds
  <2> QED
    BY <1>1, <1>2, <1>4, <2>1 DEF InsertAnnounce
<1>5. CASE FindBoost(w) \/ CountBoost(w) \/ SeekBoost(w) \/ RemoveBoost(w) \/ UncountBoost(w)
  BY <1>1, <1>5 DEF FindBoost, CountBoost, SeekBoost, RemoveBoost, UncountBoost, boostVars
<1> QED
  BY <1>3, <1>4, <1>5 DEF BoostStep

LEMMA BoostCountStep ==
  ASSUME TypeInv, BoostCount, NEW w \in Workers, BoostStep(w)
  PROVE  BoostCount'
<1> SUFFICES ASSUME ~drifted'
             PROVE  BoostCount'
  BY DEF BoostCount
<1> DEFINE I == Pending(Boosters, "inserted")
           R == Pending(Removers, "removed")
           inI == At(w, Boosters, "inserted")
           inR == At(w, Removers, "removed")
<1>1. \A v \in Workers : v # w => task'[v] = task[v]
  BY BoostKind DEF KindKept
<1>2. /\ Cardinality(I) \in Nat /\ Cardinality(I') \in Nat
      /\ (inI <=> inI') => I' = I
      /\ ~inI /\ inI' => Cardinality(I') = Cardinality(I) + 1
      /\ inI /\ ~inI' => Cardinality(I') = Cardinality(I) - 1
  BY <1>1, PendingStep
<1>3. /\ Cardinality(R) \in Nat /\ Cardinality(R') \in Nat
      /\ (inR <=> inR') => R' = R
      /\ ~inR /\ inR' => Cardinality(R') = Cardinality(R) + 1
      /\ inR /\ ~inR' => Cardinality(R') = Cardinality(R) - 1
  BY <1>1, PendingStep
<1>4. /\ BoostCount <=> (~drifted => reblogs + Cardinality(I) = Cardinality(boostLive) + Cardinality(R))
      /\ BoostCount' <=> (~drifted' => reblogs' + Cardinality(I') = Cardinality(boostLive') + Cardinality(R'))
  BY DEF BoostCount
<1>5. reblogs \in Nat /\ IsFiniteSet(boostLive) /\ Cardinality(boostLive) \in Nat
  BY InteractionsAssumption, FS_Subset, FS_CardinalityType DEF TypeInv, BoostType
<1>6. CASE NoEffect(w)
  <2>1. /\ ~inI /\ ~inR /\ ~inI' /\ ~inR'
        /\ reblogs' = reblogs /\ boostLive' = boostLive /\ drifted' = drifted
    BY <1>6 DEF NoEffect, Owes, At, BoostKinds, boostVars
  <2> HIDE DEF I, R, inI, inR
  <2> QED
    BY <1>2, <1>3, <1>4, <2>1
<1>7. ASSUME NEW b, Inserts(w, b)
      PROVE  BoostCount'
  <2>1. /\ ~inI /\ ~inR /\ inI' /\ ~inR'
        /\ reblogs' = reblogs /\ boostLive' = boostLive \cup {b} /\ drifted' = drifted
    BY <1>7 DEF Inserts, Moves, At, Boosters, Removers
  <2>2. b \notin boostLive
    BY <1>7 DEF Inserts, TypeInv, BoostType
  <2>3. Cardinality(boostLive') = Cardinality(boostLive) + 1
    BY <1>5, <2>1, <2>2, FS_AddElement
  <2> HIDE DEF I, R, inI, inR
  <2> QED
    BY <1>2, <1>3, <1>4, <1>5, <2>1, <2>3
<1>8. CASE Counts(w)
  <2>1. /\ inI /\ ~inR /\ ~inI' /\ ~inR'
        /\ reblogs' = reblogs + 1 /\ boostLive' = boostLive /\ drifted' = drifted
    BY <1>8 DEF Counts, At, Boosters, Removers
  <2> HIDE DEF I, R, inI, inR
  <2> QED
    BY <1>2, <1>3, <1>4, <1>5, <2>1
<1>9. ASSUME NEW b, Removes(w, b)
      PROVE  BoostCount'
  <2>1. /\ ~inI /\ ~inR /\ ~inI' /\ inR'
        /\ reblogs' = reblogs /\ boostLive' = boostLive \ {b} /\ drifted' = drifted
        /\ b \in boostLive
    BY <1>9 DEF Removes, Moves, At, Boosters, Removers
  <2>2. Cardinality(boostLive') = Cardinality(boostLive) - 1
    BY <1>5, <2>1, FS_RemoveElement
  <2> HIDE DEF I, R, inI, inR
  <2> QED
    BY <1>2, <1>3, <1>4, <1>5, <2>1, <2>2
<1>10. CASE Uncounts(w)
  <2>1. /\ ~inI /\ inR /\ ~inI' /\ ~inR'
        /\ reblogs' = reblogs - 1 /\ boostLive' = boostLive /\ drifted' = drifted
    BY <1>10 DEF Uncounts, At, Boosters, Removers
  <2> HIDE DEF I, R, inI, inR
  <2> QED
    BY <1>2, <1>3, <1>4, <1>5, <2>1
<1> QED
  BY <1>6, <1>7, <1>8, <1>9, <1>10, BoostEffect

LEMMA PostCountStep ==
  ASSUME TypeInv, PostCount, NEW w \in Workers, BoostStep(w)
  PROVE  PostCount'
<1> SUFFICES ASSUME ~drifted', NEW a \in Locals
             PROVE  posts'[a] + Cardinality(PendingOf({"reblog"}, "inserted", a)')
                      = Cardinality(BoostsOf(a)')
                        + Cardinality(PendingOf(LocalRemovers, "removed", a)')
  BY DEF PostCount
<1> DEFINE I == PendingOf({"reblog"}, "inserted", a)
           R == PendingOf(LocalRemovers, "removed", a)
           inI1 == At(w, {"reblog"}, "inserted") /\ On(w) = a
           inI2 == At(w, {"reblog"}, "inserted")' /\ On(w)' = a
           inR1 == At(w, LocalRemovers, "removed") /\ On(w) = a
           inR2 == At(w, LocalRemovers, "removed")' /\ On(w)' = a
           B == BoostsOf(a)
<1>1. \A v \in Workers : v # w => task'[v] = task[v]
  BY BoostKind DEF KindKept
<1>2. /\ Cardinality(I) \in Nat /\ Cardinality(I') \in Nat
      /\ (inI1 <=> inI2) => I' = I
      /\ ~inI1 /\ inI2 => Cardinality(I') = Cardinality(I) + 1
      /\ inI1 /\ ~inI2 => Cardinality(I') = Cardinality(I) - 1
  BY <1>1, PendingOfStep
<1>3. /\ Cardinality(R) \in Nat /\ Cardinality(R') \in Nat
      /\ (inR1 <=> inR2) => R' = R
      /\ ~inR1 /\ inR2 => Cardinality(R') = Cardinality(R) + 1
      /\ inR1 /\ ~inR2 => Cardinality(R') = Cardinality(R) - 1
  BY <1>1, PendingOfStep
<1>4. ~drifted => posts[a] + Cardinality(I) = Cardinality(B) + Cardinality(R)
  BY DEF PostCount
<1>5. posts[a] \in Nat /\ posts \in [Locals -> Nat] /\ IsFiniteSet(B) /\ Cardinality(B) \in Nat
  BY InteractionsAssumption, FS_Subset, FS_CardinalityType DEF TypeInv, BoostType, BoostsOf
\* A local account has none of the tasks of remote ones.
<1>6. On(w) = a /\ Busy(w) => task[w].kind \in ApiKinds
  BY DEF TypeInv, Remembered, KindsOf
<1>7. ASSUME NoEffect(w)
      PROVE  posts'[a] + Cardinality(I') = Cardinality(B') + Cardinality(R')
  <2>1. ~inI1 /\ ~inR1 /\ ~inI2 /\ ~inR2 /\ posts' = posts /\ B' = B /\ drifted' = drifted
    BY <1>7 DEF NoEffect, Owes, At, BoostKinds, Boosters, Removers, LocalRemovers, boostVars, BoostsOf
  <2> HIDE DEF I, R, inI1, inI2, inR1, inR2, B
  <2> QED
    BY <1>2, <1>3, <1>4, <2>1
<1>8. ASSUME NEW b, Inserts(w, b)
      PROVE  posts'[a] + Cardinality(I') = Cardinality(B') + Cardinality(R')
  <2>1. ~inI1 /\ ~inR1 /\ ~inR2 /\ posts' = posts /\ drifted' = drifted
    BY <1>8 DEF Inserts, Moves, At, Boosters, LocalRemovers
  <2>2. b \notin B /\ (\A c \in boostLive : c \in Ids) /\ boostBy \in [Ids -> Actors \cup {None}]
    BY <1>8 DEF Inserts, TypeInv, BoostType, BoostsOf
  <2>3. CASE On(w) = a
    <3>1. inI2
      BY <1>6, <1>8, <2>3 DEF Inserts, Moves, At, Boosters, ApiKinds
    <3>2. B' = B \cup {b}
      BY <1>8, <2>2, <2>3 DEF Inserts, BoostsOf
    <3>3. Cardinality(B') = Cardinality(B) + 1
      BY <1>5, <2>2, <3>2, FS_AddElement
    <3> HIDE DEF I, R, inI1, inI2, inR1, inR2, B
    <3> QED
      BY <1>2, <1>3, <1>4, <1>5, <2>1, <3>1, <3>3
  <2>4. CASE On(w) # a
    <3>1. ~inI2
      BY <1>8, <2>4 DEF Inserts, Moves
    <3>2. B' = B
      BY <1>8, <2>2, <2>4 DEF Inserts, BoostsOf
    <3> HIDE DEF I, R, inI1, inI2, inR1, inR2, B
    <3> QED
      BY <1>2, <1>3, <1>4, <1>5, <2>1, <3>1, <3>2
  <2> QED
    BY <2>3, <2>4
<1>9. ASSUME Counts(w)
      PROVE  posts'[a] + Cardinality(I') = Cardinality(B') + Cardinality(R')
  <2>1. ~inI2 /\ ~inR1 /\ ~inR2 /\ drifted' = drifted /\ B' = B
    BY <1>9 DEF Counts, At, Boosters, LocalRemovers, BoostsOf
  <2>2. /\ On(w) = a => inI1 /\ posts'[a] = posts[a] + 1
        /\ On(w) # a => ~inI1 /\ posts'[a] = posts[a]
    BY <1>5, <1>6, <1>9 DEF Counts, At, Boosters, ApiKinds
  <2> HIDE DEF I, R, inI1, inI2, inR1, inR2, B
  <2> QED
    BY <1>2, <1>3, <1>4, <1>5, <2>1, <2>2
<1>10. ASSUME NEW b, Removes(w, b)
       PROVE  posts'[a] + Cardinality(I') = Cardinality(B') + Cardinality(R')
  <2>1. ~inI1 /\ ~inI2 /\ ~inR1 /\ posts' = posts /\ drifted' = drifted
    BY <1>10 DEF Removes, Moves, At, Removers, LocalRemovers
  <2>2. CASE On(w) = a
    <3>1. inR2
      BY <1>6, <1>10, <2>2 DEF Removes, Moves, At, Removers, LocalRemovers, ApiKinds
    <3>2. B' = B \ {b} /\ b \in B
      BY <1>10, <2>2 DEF Removes, BoostsOf
    <3>3. Cardinality(B') = Cardinality(B) - 1
      BY <1>5, <3>2, FS_RemoveElement
    <3> HIDE DEF I, R, inI1, inI2, inR1, inR2, B
    <3> QED
      BY <1>2, <1>3, <1>4, <1>5, <2>1, <3>1, <3>3
  <2>3. CASE On(w) # a
    <3>1. ~inR2
      BY <1>10, <2>3 DEF Removes, Moves
    <3>2. B' = B
      BY <1>10, <2>3 DEF Removes, BoostsOf
    <3> HIDE DEF I, R, inI1, inI2, inR1, inR2, B
    <3> QED
      BY <1>2, <1>3, <1>4, <1>5, <2>1, <3>1, <3>2
  <2> QED
    BY <2>2, <2>3
<1>11. ASSUME Uncounts(w)
       PROVE  posts'[a] + Cardinality(I') = Cardinality(B') + Cardinality(R')
  <2>1. ~inI1 /\ ~inI2 /\ ~inR2 /\ drifted' = drifted /\ B' = B
    BY <1>11 DEF Uncounts, At, Removers, BoostsOf
  <2>2. /\ On(w) = a => inR1 /\ posts[a] # 0 /\ posts'[a] = posts[a] - 1
        /\ On(w) # a => ~inR1 /\ posts'[a] = posts[a]
    BY <1>5, <1>6, <1>11 DEF Uncounts, At, Removers, LocalRemovers, ApiKinds
  <2> HIDE DEF I, R, inI1, inI2, inR1, inR2, B
  <2> QED
    BY <1>2, <1>3, <1>4, <1>5, <2>1, <2>2
<1> QED
  BY <1>7, <1>8, <1>9, <1>10, <1>11, BoostEffect

-----------------------------------------------------------------------------
(* Rows of poll_votes and the votes that are counted *)

LEMMA RowsType ==
  ASSUME NEW o
  PROVE  /\ IsFiniteSet({b \in Actors : <<b, o>> \in votes})
         /\ RowsFor(o) \in Nat /\ RowsFor(o)' \in Nat
BY FiniteActors, FS_Subset, FS_CardinalityType DEF RowsFor

LEMMA RowsGrow ==
  ASSUME votes \subseteq votes', NEW o
  PROVE  RowsFor(o) <= RowsFor(o)'
<1>1. {b \in Actors : <<b, o>> \in votes} \in SUBSET {b \in Actors : <<b, o>> \in votes'}
  OBVIOUS
<1>2. IsFiniteSet({b \in Actors : <<b, o>> \in votes'})
  BY FiniteActors, FS_Subset
<1> QED
  BY <1>1, <1>2, FS_Subset DEF RowsFor

\* Account a casts the votes C, none of which it has cast.
Casts(a, C) ==
  /\ a \in Actors /\ C \in SUBSET Options
  /\ ({a} \X C) \cap votes = {} /\ votes' = votes \cup ({a} \X C)

LEMMA RowsCast ==
  ASSUME NEW a, NEW C, Casts(a, C), NEW o \in Options
  PROVE  RowsFor(o)' = RowsFor(o) + (IF o \in C THEN 1 ELSE 0)
<1> DEFINE S == {b \in Actors : <<b, o>> \in votes}
           T == {b \in Actors : <<b, o>> \in votes'}
<1>1. \A y : y # a => (y \in S <=> y \in T)
  BY DEF Casts
<1>2. /\ o \in C => a \notin S /\ a \in T
      /\ o \notin C => (a \in S <=> a \in T)
  BY DEF Casts
<1>3. RowsFor(o) = Cardinality(S) /\ RowsFor(o)' = Cardinality(T)
  BY DEF RowsFor
<1>4. IsFiniteSet(S)
  BY RowsType
<1> HIDE DEF S, T
<1>5. /\ Cardinality(S) \in Nat
      /\ (a \in S <=> a \in T) => T = S
      /\ a \notin S /\ a \in T => Cardinality(T) = Cardinality(S) + 1
  BY <1>1, <1>4, CardStep
<1>6. CASE o \in C
  BY <1>2, <1>3, <1>5, <1>6
<1>7. CASE o \notin C
  BY <1>2, <1>3, <1>5, <1>7
<1> QED
  BY <1>6, <1>7

\* The rows grow by the votes cast.
LEMMA VotesCast ==
  ASSUME PollType, NEW a, NEW C, Casts(a, C)
  PROVE  /\ Cardinality(votes) \in Nat /\ Cardinality(C) \in Nat
         /\ Cardinality(votes') = Cardinality(votes) + Cardinality(C)
<1>1. IsFiniteSet(votes)
  <2>1. votes \cap (Actors \X Options) = votes
    BY DEF PollType
  <2> QED
    BY <2>1, FiniteActors
<1>2. IsFiniteSet({a}) /\ Cardinality({a}) = 1 /\ IsFiniteSet(C) /\ Cardinality(C) \in Nat
  BY InteractionsAssumption, FS_Singleton, FS_Subset, FS_CardinalityType DEF Casts
<1>3. IsFiniteSet({a} \X C) /\ Cardinality({a} \X C) = Cardinality(C)
  <2>1. IsFiniteSet({a} \X C) /\ Cardinality({a} \X C) = Cardinality({a}) * Cardinality(C)
    BY <1>2, FS_Product, Zenon
  <2> QED
    BY <1>2, <2>1
<1> DEFINE N == {a} \X C
<1>4. votes' = votes \cup N /\ votes \cap N = {}
  BY DEF Casts
<1>5. IsFiniteSet(N) /\ Cardinality(N) = Cardinality(C)
  BY <1>3
<1> HIDE DEF N
<1>6. Cardinality(votes \cup N) = Cardinality(votes) + Cardinality(N) - Cardinality(votes \cap N)
  BY <1>1, <1>5, FS_Union
<1>7. Cardinality(votes \cap N) = 0 /\ Cardinality(votes) \in Nat
  BY <1>1, <1>4, FS_EmptySet, FS_CardinalityType
<1> QED
  BY <1>2, <1>4, <1>5, <1>6, <1>7

\* An account that had not voted is one voter more.
LEMMA VotersCast ==
  ASSUME PollType, NEW a, NEW C, Casts(a, C), C # {}, \A v \in votes : v[1] # a
  PROVE  VotersNow' = VotersNow + 1 /\ VotersNow \in Nat
<1> DEFINE S == {v[1] : v \in votes}
           T == {v[1] : v \in votes'}
<1>1. S \subseteq Actors
  BY DEF PollType
<1>2. IsFiniteSet(S)
  BY <1>1, FiniteActors, FS_Subset
<1>3. a \notin S
  OBVIOUS
<1>4. T = S \cup {a}
  <2>1. PICK c : c \in C
    OBVIOUS
  <2>2. <<a, c>> \in votes' /\ <<a, c>>[1] = a
    BY <2>1 DEF Casts
  <2>3. a \in T
    BY <2>2
  <2>4. \A v \in votes' : v \in votes \/ v[1] = a
    BY DEF Casts
  <2>5. votes \subseteq votes'
    BY DEF Casts
  <2> QED
    BY <2>3, <2>4, <2>5
<1>5. VotersNow = Cardinality(S) /\ VotersNow' = Cardinality(T)
  BY DEF VotersNow
<1> HIDE DEF S, T
<1> QED
  BY <1>2, <1>3, <1>4, <1>5, FS_AddElement, FS_CardinalityType

\* Options raised by one for each of C count as many votes more.
LEMMA CountedRaised ==
  ASSUME NEW t \in [Options -> Nat], NEW u \in [Options -> Nat], NEW C \in SUBSET Options,
         \A o \in Options : u[o] = t[o] + (IF o \in C THEN 1 ELSE 0)
  PROVE  /\ Cardinality(Counted(t)) \in Nat /\ Cardinality(C) \in Nat
         /\ Cardinality(Counted(u)) = Cardinality(Counted(t)) + Cardinality(C)
<1> DEFINE new == {<<o, t[o] + 1>> : o \in C}
           f   == [o \in C |-> <<o, t[o] + 1>>]
<1>1. IsFiniteSet(C) /\ Cardinality(C) \in Nat
  BY InteractionsAssumption, FS_Subset, FS_CardinalityType
<1>2. f \in Bijection(C, new)
  <2>1. f \in [C -> new] /\ (\A x \in new : \E o \in C : f[o] = x)
    OBVIOUS
  <2>2. \A o, p \in C : f[o] = f[p] => o = p
    OBVIOUS
  <2> QED
    BY <2>1, <2>2 DEF Bijection, Injection, Surjection, IsInjective
<1>3. IsFiniteSet(new) /\ Cardinality(new) = Cardinality(C)
  BY <1>1, <1>2, FS_Bijection DEF ExistsBijection
<1>4. IsFiniteSet(Counted(t)) /\ Cardinality(Counted(t)) \in Nat
  BY CountedFinite
<1>5. \A x : x \in Counted(t) <=> \E o \in Options : \E n \in 1 .. t[o] : x = <<o, n>>
  BY DEF Counted
<1>6. \A x : x \in Counted(u) <=> \E o \in Options : \E n \in 1 .. u[o] : x = <<o, n>>
  BY DEF Counted
<1>7. Counted(u) = Counted(t) \cup new
  <2>1. ASSUME NEW x \in Counted(u)
        PROVE  x \in Counted(t) \cup new
    <3>1. PICK o \in Options : \E n \in 1 .. u[o] : x = <<o, n>>
      BY <1>6, <2>1
    <3>2. PICK n \in 1 .. u[o] : x = <<o, n>>
      BY <3>1
    <3>3. n \in 1 .. t[o] \/ (o \in C /\ n = t[o] + 1)
      OBVIOUS
    <3> QED
      BY <1>5, <3>2, <3>3
  <2>2. ASSUME NEW x \in Counted(t)
        PROVE  x \in Counted(u)
    <3>1. PICK o \in Options : \E n \in 1 .. t[o] : x = <<o, n>>
      BY <1>5, <2>2
    <3>2. PICK n \in 1 .. t[o] : x = <<o, n>>
      BY <3>1
    <3>3. n \in 1 .. u[o]
      OBVIOUS
    <3> QED
      BY <1>6, <3>2, <3>3
  <2>3. ASSUME NEW o \in C
        PROVE  <<o, t[o] + 1>> \in Counted(u)
    <3>1. o \in Options /\ t[o] + 1 \in 1 .. u[o]
      OBVIOUS
    <3> QED
      BY <1>6, <3>1
  <2> QED
    BY <2>1, <2>2, <2>3
<1>8. Counted(t) \cap new = {}
  <2> SUFFICES ASSUME NEW o \in C, <<o, t[o] + 1>> \in Counted(t)
               PROVE  FALSE
    OBVIOUS
  <2>1. PICK p \in Options : \E n \in 1 .. t[p] : <<o, t[o] + 1>> = <<p, n>>
    BY <1>5
  <2> QED
    BY <2>1
<1> DEFINE ct == Counted(t)
<1>9. /\ IsFiniteSet(ct) /\ Counted(u) = ct \cup new /\ ct \cap new = {}
  BY <1>4, <1>7, <1>8
<1> HIDE DEF new, ct
<1>10. Cardinality(ct \cup new) = Cardinality(ct) + Cardinality(new) - Cardinality(ct \cap new)
  BY <1>3, <1>9, FS_Union
<1>11. Cardinality(ct \cap new) = 0
  BY <1>9, FS_EmptySet
<1>12. Cardinality(Counted(u)) = Cardinality(ct) + Cardinality(C) /\ Cardinality(ct) \in Nat
  BY <1>1, <1>3, <1>4, <1>9, <1>10, <1>11 DEF ct
<1> QED
  BY <1>1, <1>12 DEF ct

-----------------------------------------------------------------------------
(* No phantom votes *)

VoteKinds == {"vote", "inVote"}

\* A remote vote that has its row and has yet to write the options.
OwesVote(w) == At(w, {"inVote"}, "inserted") \/ At(w, {"inVote"}, "counted")

\* What a task has read of the options was covered by rows, and no row goes; what
\* a remote vote will write is covered from the moment it has its row.
Covered(w) == Busy(w) => \A o \in Options :
  /\ task[w].seen[o] <= RowsFor(o)
  /\ OwesVote(w) => Raised(w)[o] <= RowsFor(o)

\* A vote names an option, a remote one exactly one.
Names(w) == Busy(w) =>
  /\ task[w].kind \in VoteKinds => task[w].choices # {}
  /\ task[w].kind = "inVote" => Cardinality(task[w].choices) = 1

PhantomInv == NoPhantomVotes /\ \A w \in Workers : Covered(w) /\ Names(w)

LEMMA RaisedTask ==
  ASSUME NEW w \in Workers, task[w] \in Tasks, NEW o \in Options
  PROVE  /\ Raised(w)[o] = task[w].seen[o] + (IF o \in task[w].choices THEN 1 ELSE 0)
         /\ task[w].seen[o] \in Nat /\ Raised(w) \in [Options -> Nat]
         /\ task[w].choices \in SUBSET Options
BY DEF Raised, Tasks

\* Workers that do not step stay covered while the rows only grow.
LEMMA OthersCovered ==
  ASSUME TypeInv, PhantomInv, NEW w \in Workers, votes \subseteq votes',
         \A v \in Workers : v # w => task'[v] = task[v],
         NEW v \in Workers, v # w
  PROVE  Covered(v)' /\ Names(v)'
<1>1. task'[v] = task[v]
  OBVIOUS
<1>2. Names(v)'
  BY <1>1 DEF PhantomInv, Names, Busy
<1> SUFFICES ASSUME Busy(v)', NEW o \in Options
             PROVE  /\ task'[v].seen[o] <= RowsFor(o)'
                    /\ OwesVote(v)' => Raised(v)'[o] <= RowsFor(o)'
  BY <1>2 DEF Covered
<1>3. Busy(v) /\ task[v] \in Tasks
  BY <1>1, BusyTask DEF Busy, TypeInv
<1>4. /\ task[v].seen[o] <= RowsFor(o)
      /\ OwesVote(v) => Raised(v)[o] <= RowsFor(o)
  BY <1>3 DEF PhantomInv, Covered
<1>5. RowsFor(o) \in Nat /\ RowsFor(o)' \in Nat /\ RowsFor(o) <= RowsFor(o)'
  BY RowsType, RowsGrow
<1>6. /\ OwesVote(v)' <=> OwesVote(v)
      /\ Raised(v)' = Raised(v)
  BY <1>1 DEF OwesVote, At, Busy, Raised
<1>7. task[v].seen[o] \in Nat /\ Raised(v)[o] \in Nat
  BY <1>3, RaisedTask
<1> QED
  BY <1>1, <1>4, <1>5, <1>6, <1>7

\* A step that casts no vote and writes no options.
LEMMA PhantomAside ==
  ASSUME TypeInv, PhantomInv, NEW w \in Workers, votes' = votes, tally' = tally,
         \A v \in Workers : v # w => task'[v] = task[v], Covered(w)', Names(w)'
  PROVE  PhantomInv'
<1>1. \A o : RowsFor(o)' = RowsFor(o)
  BY DEF RowsFor
<1>2. NoPhantomVotes'
  BY <1>1 DEF PhantomInv, NoPhantomVotes
<1>3. \A v \in Workers : v # w => Covered(v)' /\ Names(v)'
  BY OthersCovered
<1> QED
  BY <1>2, <1>3 DEF PhantomInv

\* The task of w ends, or goes on with what it read.
LEMMA KeptCovered ==
  ASSUME TypeInv, PhantomInv, NEW w \in Workers, KindKept(w), votes' = votes,
         OwesVote(w)' => OwesVote(w)
  PROVE  Covered(w)' /\ Names(w)'
<1> SUFFICES ASSUME Busy(w)'
             PROVE  Covered(w)' /\ Names(w)'
  BY DEF Covered, Names
<1>1. /\ Busy(w) /\ task'[w].kind = task[w].kind
      /\ task'[w].seen = task[w].seen /\ task'[w].choices = task[w].choices
  BY DEF KindKept, Busy
<1>2. Raised(w)' = Raised(w) /\ \A o : RowsFor(o)' = RowsFor(o)
  BY <1>1 DEF Raised, RowsFor
<1> QED
  BY <1>1, <1>2 DEF PhantomInv, Covered, Names

LEMMA EndCovered ==
  ASSUME TaskType, NEW w \in Workers, End(w)
  PROVE  Covered(w)' /\ Names(w)' /\ ~OwesVote(w)'
BY EndTask DEF Covered, Names, OwesVote, At, Busy

LEMMA OtherStepPhantom ==
  ASSUME TypeInv, PhantomInv, NEW w \in Workers, FavouriteStep(w) \/ BoostStep(w)
  PROVE  PhantomInv'
<1>1. votes' = votes /\ tally' = tally
  BY DEF FavouriteStep, FindFavourite, AddFavourite, SeekFavourite, DropFavourite, InsertLike,
     CountLike, FindLike, DeleteLike, UncountLike, BoostStep, FindBoost, InsertBoost,
     InsertAnnounce, CountBoost, SeekBoost, RemoveBoost, UncountBoost, pollVars
<1>2. KindKept(w) /\ task[w].kind # "inVote"
  BY FavouriteKind, BoostKind DEF FavKinds, BoostKinds, Boosters, Removers
<1>3. ~OwesVote(w)'
  BY <1>2 DEF KindKept, OwesVote, At, Busy
<1>4. \A v \in Workers : v # w => task'[v] = task[v]
  BY <1>2 DEF KindKept
<1> QED
  BY <1>1, <1>2, <1>3, <1>4, KeptCovered, PhantomAside

LEMMA StartPhantom ==
  ASSUME TypeInv, PhantomInv, NEW w \in Workers, NEW kind, NEW a \in Actors,
         Start(w, kind, a) \/ \E C \in SUBSET Options : StartVote(w, kind, a, C)
  PROVE  PhantomInv'
<1>1. /\ votes' = votes /\ tally' = tally /\ task'[w].phase \in {"checked", "read"}
      /\ \A v \in Workers : v # w => task'[v] = task[v]
  BY StartType DEF pollVars
<1>2. task \in [Workers -> Tasks \cup {Idle}] /\ tally \in [Options -> Nat]
  BY DEF TypeInv, TaskType, PollType
<1>3. \A o \in Options : 0 <= RowsFor(o)' /\ tally[o] <= RowsFor(o)'
  <2>1. \A o \in Options : RowsFor(o)' = RowsFor(o) /\ RowsFor(o) \in Nat
    BY <1>1, RowsType DEF RowsFor
  <2> QED
    BY <2>1 DEF PhantomInv, NoPhantomVotes
<1>4. ~OwesVote(w)'
  BY <1>1 DEF OwesVote, At
<1>5. CASE Start(w, kind, a)
  <2>1. \E id : task' = [task EXCEPT ![w] = NewTask(kind, a, "checked", id, {})]
    BY <1>5 DEF Start
  <2>2. task'[w].seen = Zero /\ task'[w].kind = kind
    BY <1>2, <2>1 DEF NewTask
  <2>3. kind \notin VoteKinds
    BY <1>5 DEF Start, VoteKinds
  <2>4. Covered(w)'
    BY <1>3, <1>4, <2>2 DEF Covered, Zero
  <2>5. Names(w)'
    BY <2>2, <2>3 DEF Names, VoteKinds
  <2> QED
    BY <1>1, <2>4, <2>5, PhantomAside
<1>6. ASSUME NEW C \in SUBSET Options, StartVote(w, kind, a, C)
      PROVE  PhantomInv'
  <2>1. /\ task' = [task EXCEPT ![w] = [NewTask(kind, a, "read", None, C) EXCEPT !.seen = tally]]
        /\ C # {} /\ (Cardinality(C) > 1 => kind = "vote")
    BY <1>6 DEF StartVote
  <2>2. task'[w].seen = tally /\ task'[w].kind = kind /\ task'[w].choices = C
    BY <1>2, <2>1 DEF NewTask
  <2>3. kind = "inVote" => Cardinality(C) = 1
    <3>1. IsFiniteSet(C) /\ Cardinality(C) \in Nat /\ Cardinality(C) # 0
      BY <2>1, InteractionsAssumption, FS_Subset, FS_CardinalityType, FS_EmptySet
    <3> QED
      BY <2>1, <3>1
  <2>4. Covered(w)'
    BY <1>3, <1>4, <2>2 DEF Covered
  <2>5. Names(w)'
    BY <2>1, <2>2, <2>3 DEF Names
  <2> QED
    BY <1>1, <2>4, <2>5, PhantomAside
<1> QED
  BY <1>5, <1>6

LEMMA CrashPhantom ==
  ASSUME TypeInv, PhantomInv, NEW w \in Workers, Crash(w)
  PROVE  PhantomInv'
<1>1. /\ Busy(w) /\ votes' = votes /\ tally' = tally /\ (Goto(w, "queued") \/ End(w))
  BY DEF Crash, pollVars
<1>2. KindKept(w)
  BY <1>1, StepsKeepKind DEF Steps, Phases
<1>3. task'[w] # Idle => task'[w].phase = "queued"
  <2>1. ASSUME Goto(w, "queued")
        PROVE  task'[w].phase = "queued"
    <3>1. TaskType /\ "queued" \in Phases /\ task[w] \in Tasks
      BY <1>1, BusyTask DEF TypeInv, Phases
    <3>2. task'[w] = [task[w] EXCEPT !.phase = "queued"]
      BY <1>1, <2>1, <3>1, GotoTask
    <3> QED
      BY <3>1, <3>2 DEF Tasks
  <2>2. ASSUME End(w)
        PROVE  task'[w] = Idle
    BY <2>2, EndTask DEF TypeInv
  <2> QED
    BY <1>1, <2>1, <2>2
<1>4. ~OwesVote(w)'
  BY <1>3 DEF OwesVote, At, Busy
<1>5. \A v \in Workers : v # w => task'[v] = task[v]
  BY <1>2 DEF KindKept
<1> QED
  BY <1>1, <1>2, <1>4, <1>5, KeptCovered, PhantomAside

LEMMA RedeliverPhantom ==
  ASSUME TypeInv, PhantomInv, NEW w \in Workers, Redeliver(w)
  PROVE  PhantomInv'
<1>1. /\ Busy(w) /\ votes' = votes /\ tally' = tally /\ TaskType /\ task[w] \in Tasks
      /\ task[w].phase = "queued" /\ tally \in [Options -> Nat]
  BY BusyTask DEF Redeliver, pollVars, TypeInv, PollType
<1>2. \A v \in Workers : v # w => task'[v] = task[v]
  BY <1>1, RedeliverAside DEF Aside
<1>3. ~OwesVote(w)'
  BY RedeliverAside DEF Aside, Owes, OwesVote, At, AllKinds, QueueKinds
<1>4. CASE End(w) \/ Goto(w, "checked")
  <2>1. KindKept(w)
    BY <1>1, <1>4, StepsKeepKind DEF Steps, Phases
  <2> QED
    BY <1>1, <1>2, <1>3, <2>1, KeptCovered, PhantomAside
<1>5. CASE task' = [task EXCEPT ![w].phase = "read", ![w].seen = tally]
  <2>1. task' = [task EXCEPT ![w] = [task[w] EXCEPT !.phase = "read", !.seen = tally]]
    BY <1>1, <1>5 DEF TaskType
  <2>2. task'[w] = [task[w] EXCEPT !.phase = "read", !.seen = tally]
    BY <1>1, <2>1 DEF TaskType
  <2>3. /\ task'[w].seen = tally /\ task'[w].kind = task[w].kind
        /\ task'[w].choices = task[w].choices
    BY <1>1, <2>2 DEF Tasks
  <2>4. \A o \in Options : RowsFor(o)' = RowsFor(o)
    BY <1>1 DEF RowsFor
  <2>5. Covered(w)'
    BY <1>3, <2>3, <2>4 DEF Covered, PhantomInv, NoPhantomVotes
  <2>6. Names(w)'
    BY <1>1, <2>3 DEF Names, PhantomInv
  <2> QED
    BY <1>1, <1>2, <2>5, <2>6, PhantomAside
<1> QED
  BY <1>4, <1>5 DEF Redeliver

\* What a step of a vote may do to the poll.
Looks(w) ==
  /\ UNCHANGED <<pollVars, drifted>>
  /\ OwesVote(w) <=> OwesVote(w)'

CastsAll(w) ==
  /\ Casts(On(w), task[w].choices) /\ task[w].choices # {}
  /\ ~OwesVote(w) /\ ~Busy(w)'
  /\ tally' = Raised(w)
  /\ votesCount' = votesCount + Cardinality(task[w].choices)
  /\ votersCount' = votersCount + 1
  /\ \/ drifted' \/ overwritten'
     \/ ~drifted /\ ~overwritten /\ tally = task[w].seen /\ \A v \in votes : v[1] # On(w)

CastsOne(w) ==
  /\ Casts(On(w), task[w].choices) /\ task[w].kind = "inVote"
  /\ ~OwesVote(w) /\ OwesVote(w)' /\ task'[w] # Idle
  /\ UNCHANGED <<tally, votesCount, votersCount, overwritten, drifted>>

Writes(w) ==
  /\ OwesVote(w) /\ ~Busy(w)' /\ votes' = votes
  /\ tally' = Raised(w)
  /\ votesCount' = Cardinality(Counted(Raised(w)))
  /\ \/ drifted' \/ overwritten'
     \/ ~drifted /\ ~overwritten /\ tally = task[w].seen /\ votersCount' = VotersNow

LEMMA PollEffect ==
  ASSUME TypeInv, PhantomInv, NEW w \in Workers, PollStep(w)
  PROVE  Looks(w) \/ CastsAll(w) \/ CastsOne(w) \/ Writes(w)
<1>1. /\ Busy(w) /\ TaskType /\ task[w] \in Tasks /\ On(w) \in Actors
      /\ task[w].choices \in SUBSET Options /\ Idle \notin Tasks
      /\ drifted \in BOOLEAN /\ overwritten \in BOOLEAN
  BY PollKind DEF KindKept, Tasks, On, TypeInv, TaskType, PollType, Idle, ApiKinds, QueueKinds
<1>2. ASSUME End(w)
      PROVE  ~Busy(w)' /\ ~OwesVote(w)'
  BY <1>1, <1>2, EndTask DEF Busy, OwesVote, At
<1>3. ASSUME NEW phase \in Phases, Goto(w, phase)
      PROVE  /\ Busy(w)' /\ task'[w].phase = phase /\ task'[w].kind = task[w].kind
  <2>1. task'[w] = [task[w] EXCEPT !.phase = phase] /\ task'[w] \in Tasks
    BY <1>1, <1>3, GotoTask
  <2> QED
    BY <1>1, <2>1 DEF Tasks, Busy
<1>4. CASE FindVote(w)
  <2>1. UNCHANGED <<pollVars, drifted>> /\ ~OwesVote(w)
    BY <1>4 DEF FindVote, OwesVote, At
  <2>2. End(w) \/ Goto(w, "absent")
    BY <1>4 DEF FindVote
  <2>3. ~OwesVote(w)'
    BY <1>2, <1>3, <2>2 DEF OwesVote, At, Phases
  <2> QED
    BY <2>1, <2>3 DEF Looks
<1>5. CASE Vote(w)
  <2>1. ~OwesVote(w) /\ ~OwesVote(w)' /\ ~Busy(w)' /\ task[w].choices # {}
    BY <1>1, <1>2, <1>5 DEF Vote, OwesVote, At, PhantomInv, Names, VoteKinds
  <2>2. CASE UNCHANGED <<pollVars, drifted>>
    BY <2>1, <2>2 DEF Looks
  <2>3. CASE ~UNCHANGED <<pollVars, drifted>>
    <3>1. /\ Chosen(w) \cap votes = {} /\ votes' = votes \cup Chosen(w) /\ tally' = Raised(w)
          /\ votesCount' = votesCount + Cardinality(task[w].choices)
          /\ votersCount' = votersCount + 1
          /\ overwritten' = (overwritten \/ tally # task[w].seen)
          /\ drifted' = (drifted \/ \E v \in votes : v[1] = On(w))
      BY <1>5, <2>3 DEF Vote
    <3>2. Casts(On(w), task[w].choices)
      BY <1>1, <3>1 DEF Casts, Chosen
    <3>3. \/ drifted' \/ overwritten'
          \/ ~drifted /\ ~overwritten /\ tally = task[w].seen /\ \A v \in votes : v[1] # On(w)
      BY <1>1, <3>1
    <3> QED
      BY <2>1, <3>1, <3>2, <3>3 DEF CastsAll
  <2> QED
    BY <2>2, <2>3
<1>6. CASE InsertVote(w)
  <2>1. /\ ~OwesVote(w) /\ task[w].kind = "inVote"
        /\ UNCHANGED <<tally, votesCount, votersCount, overwritten, drifted>>
    BY <1>6 DEF InsertVote, OwesVote, At
  <2>2. CASE End(w) /\ votes' = votes
    BY <1>2, <2>1, <2>2 DEF Looks, pollVars
  <2>3. CASE /\ Chosen(w) \cap votes = {} /\ votes' = votes \cup Chosen(w)
             /\ Goto(w, "inserted")
    <3>1. Busy(w)' /\ OwesVote(w)'
      BY <1>3, <2>1, <2>3 DEF OwesVote, At, Phases
    <3>2. Casts(On(w), task[w].choices)
      BY <1>1, <2>3 DEF Casts, Chosen
    <3>3. task'[w] # Idle
      BY <3>1 DEF Busy
    <3> QED
      BY <2>1, <3>1, <3>2, <3>3 DEF CastsOne
  <2> QED
    BY <1>6, <2>2, <2>3 DEF InsertVote
<1>7. CASE CountVoters(w)
  <2>1. UNCHANGED <<pollVars, drifted>> /\ OwesVote(w)
    BY <1>7 DEF CountVoters, OwesVote
  <2>2. task' = [task EXCEPT ![w] = [task[w] EXCEPT !.phase = "counted", !.voters = VotersNow]]
    BY <1>1, <1>7 DEF CountVoters, TaskType
  <2>3. task'[w] = [task[w] EXCEPT !.phase = "counted", !.voters = VotersNow]
    BY <1>1, <2>2 DEF TaskType
  <2>4. task'[w].kind = task[w].kind /\ task'[w].phase = "counted"
    BY <1>1, <2>3 DEF Tasks
  <2>5. task'[w] \in Tasks
    BY <1>1, <2>3, VotersNowType DEF Tasks, TypeInv
  <2>6. OwesVote(w)'
    BY <1>1, <1>7, <2>4, <2>5 DEF CountVoters, OwesVote, At, Busy
  <2> QED
    BY <2>1, <2>6 DEF Looks
<1>8. CASE WriteVote(w)
  <2>1. /\ OwesVote(w) /\ ~Busy(w)' /\ votes' = votes /\ tally' = Raised(w)
        /\ votesCount' = Cardinality(Counted(Raised(w)))
        /\ votersCount' = task[w].voters
        /\ overwritten' = (overwritten \/ tally # task[w].seen)
        /\ drifted' = (drifted \/ task[w].voters # VotersNow)
    BY <1>2, <1>8 DEF WriteVote, OwesVote
  <2>2. \/ drifted' \/ overwritten'
        \/ ~drifted /\ ~overwritten /\ tally = task[w].seen /\ votersCount' = VotersNow
    BY <1>1, <2>1
  <2> QED
    BY <2>1, <2>2 DEF Writes
<1> QED
  BY <1>4, <1>5, <1>6, <1>7, <1>8 DEF PollStep

LEMMA PollStepPhantom ==
  ASSUME TypeInv, PhantomInv, NEW w \in Workers, PollStep(w)
  PROVE  PhantomInv'
<1>1. /\ Busy(w) /\ task[w] \in Tasks /\ KindKept(w)
      /\ \A v \in Workers : v # w => task'[v] = task[v]
  BY PollKind DEF KindKept
<1>2. \A o \in Options :
        /\ Raised(w)[o] = task[w].seen[o] + (IF o \in task[w].choices THEN 1 ELSE 0)
        /\ task[w].seen[o] \in Nat /\ task[w].seen[o] <= RowsFor(o)
        /\ OwesVote(w) => Raised(w)[o] <= RowsFor(o)
        /\ RowsFor(o) \in Nat /\ RowsFor(o)' \in Nat
  BY <1>1, RaisedTask, RowsType DEF PhantomInv, Covered
<1>3. \A o \in Options : tally[o] \in Nat /\ tally[o] <= RowsFor(o)
  BY DEF PhantomInv, NoPhantomVotes, TypeInv, PollType
<1>4. ASSUME NEW v \in Workers, v # w, votes \subseteq votes'
      PROVE  Covered(v)' /\ Names(v)'
  BY <1>1, <1>4, OthersCovered
<1>5. CASE Looks(w)
  <2>1. votes' = votes /\ tally' = tally
    BY <1>5 DEF Looks, pollVars
  <2> QED
    BY <1>1, <1>5, <2>1, KeptCovered, PhantomAside DEF Looks
<1>6. ASSUME Casts(On(w), task[w].choices)
      PROVE  /\ votes \subseteq votes'
             /\ \A o \in Options : /\ RowsFor(o) <= RowsFor(o)'
                                   /\ Raised(w)[o] <= RowsFor(o)'
  <2>1. votes \subseteq votes'
    BY <1>6 DEF Casts
  <2>2. \A o \in Options :
          RowsFor(o)' = RowsFor(o) + (IF o \in task[w].choices THEN 1 ELSE 0)
    BY <1>6, RowsCast
  <2>3. ASSUME NEW o \in Options
        PROVE  RowsFor(o) <= RowsFor(o)' /\ Raised(w)[o] <= RowsFor(o)'
    <3>1. CASE o \in task[w].choices
      BY <1>2, <2>2, <3>1
    <3>2. CASE o \notin task[w].choices
      BY <1>2, <2>2, <3>2
    <3> QED
      BY <3>1, <3>2
  <2> QED
    BY <2>1, <2>3
<1>7. CASE CastsAll(w)
  <2>1. NoPhantomVotes'
    BY <1>6, <1>7 DEF CastsAll, NoPhantomVotes
  <2>2. Covered(w)' /\ Names(w)'
    BY <1>7 DEF CastsAll, Covered, Names
  <2>3. votes \subseteq votes'
    BY <1>6, <1>7 DEF CastsAll
  <2> QED
    BY <1>4, <2>1, <2>2, <2>3 DEF PhantomInv
<1>8. CASE CastsOne(w)
  <2>1. /\ votes \subseteq votes' /\ tally' = tally /\ task'[w] # Idle
        /\ \A o \in Options : RowsFor(o) <= RowsFor(o)' /\ Raised(w)[o] <= RowsFor(o)'
    BY <1>6, <1>8 DEF CastsOne
  <2>2. NoPhantomVotes'
    BY <1>2, <1>3, <2>1 DEF NoPhantomVotes
  <2>3. /\ task'[w].seen = task[w].seen /\ task'[w].choices = task[w].choices
        /\ task'[w].kind = task[w].kind
    BY <1>1, <2>1 DEF KindKept
  <2>4. Raised(w)' = Raised(w)
    BY <2>3 DEF Raised
  <2>5. \A o \in Options : task'[w].seen[o] <= RowsFor(o)'
    BY <1>2, <2>1, <2>3
  <2>6. Covered(w)'
    BY <2>1, <2>4, <2>5 DEF Covered
  <2>7. Names(w)'
    BY <1>1, <2>3 DEF Names, PhantomInv
  <2> QED
    BY <1>4, <2>1, <2>2, <2>6, <2>7 DEF PhantomInv
<1>9. CASE Writes(w)
  <2>1. votes' = votes /\ \A o : RowsFor(o)' = RowsFor(o)
    BY <1>9 DEF Writes, RowsFor
  <2>2. NoPhantomVotes'
    BY <1>2, <1>9, <2>1 DEF Writes, NoPhantomVotes
  <2>3. Covered(w)' /\ Names(w)'
    BY <1>9 DEF Writes, Covered, Names
  <2> QED
    BY <1>4, <2>1, <2>2, <2>3 DEF PhantomInv
<1> QED
  BY <1>5, <1>7, <1>8, <1>9, PollEffect

-----------------------------------------------------------------------------
(* votes_count, voters_count *)

Owing == {w \in Workers : OwesVote(w)}
OwingTo(o) == {w \in Owing : o \in task[w].choices}

\* VotesAreCounted as it is between the statements of remote votes: what those
\* have still to write makes the difference.
PollCount ==
  ~drifted /\ ~overwritten =>
    /\ \A o \in Options : tally[o] + Cardinality(OwingTo(o)) = RowsFor(o)
    /\ votesCount + Cardinality(Owing) = Cardinality(votes)
    /\ votesCount = Cardinality(Counted(tally))
    /\ Owing = {} => votersCount = VotersNow

LEMMA OwingType ==
  /\ IsFiniteSet(Owing) /\ Cardinality(Owing) \in Nat
  /\ \A o : IsFiniteSet(OwingTo(o)) /\ Cardinality(OwingTo(o)) \in Nat
<1>1. Owing \in SUBSET Workers /\ \A o : OwingTo(o) \in SUBSET Workers
  BY DEF Owing, OwingTo
<1>2. IsFiniteSet(Owing) /\ \A o : IsFiniteSet(OwingTo(o))
  BY <1>1, InteractionsAssumption, FS_Subset
<1> QED
  BY <1>2, FS_CardinalityType

\* A step of w that gives it the row of its one vote, or ends it having it.
LEMMA OwingStep ==
  ASSUME NEW w \in Workers, \A v \in Workers : v # w => task'[v] = task[v],
         NEW C, OwesVote(w) => task[w].choices = C, OwesVote(w)' => task'[w].choices = C
  PROVE  /\ (OwesVote(w) <=> OwesVote(w)') =>
              Owing' = Owing /\ \A o : OwingTo(o)' = OwingTo(o)
         /\ ~OwesVote(w) /\ OwesVote(w)' =>
              /\ Cardinality(Owing') = Cardinality(Owing) + 1
              /\ \A o : Cardinality(OwingTo(o)') =
                          Cardinality(OwingTo(o)) + (IF o \in C THEN 1 ELSE 0)
         /\ OwesVote(w) /\ ~OwesVote(w)' =>
              /\ Cardinality(Owing') = Cardinality(Owing) - 1
              /\ \A o : Cardinality(OwingTo(o)') =
                          Cardinality(OwingTo(o)) - (IF o \in C THEN 1 ELSE 0)
<1>1. \A v : v # w => (v \in Owing <=> v \in Owing')
  BY DEF Owing, OwesVote, At, Busy
<1>2. (w \in Owing <=> OwesVote(w)) /\ (w \in Owing' <=> OwesVote(w)')
  BY DEF Owing
<1>3. \A o : \A v : v # w => (v \in OwingTo(o) <=> v \in OwingTo(o)')
  BY <1>1 DEF OwingTo, Owing
<1>4. \A o : /\ w \in OwingTo(o) <=> OwesVote(w) /\ o \in C
             /\ w \in OwingTo(o)' <=> OwesVote(w)' /\ o \in C
  BY <1>2 DEF OwingTo
<1>5. /\ Cardinality(Owing) \in Nat
      /\ (w \in Owing <=> w \in Owing') => Owing' = Owing
      /\ w \notin Owing /\ w \in Owing' => Cardinality(Owing') = Cardinality(Owing) + 1
      /\ w \in Owing /\ w \notin Owing' => Cardinality(Owing') = Cardinality(Owing) - 1
  BY <1>1, OwingType, CardStep
<1>6. ASSUME NEW o
      PROVE  /\ (w \in OwingTo(o) <=> w \in OwingTo(o)') => OwingTo(o)' = OwingTo(o)
             /\ w \notin OwingTo(o) /\ w \in OwingTo(o)' =>
                  Cardinality(OwingTo(o)') = Cardinality(OwingTo(o)) + 1
             /\ w \in OwingTo(o) /\ w \notin OwingTo(o)' =>
                  Cardinality(OwingTo(o)') = Cardinality(OwingTo(o)) - 1
             /\ Cardinality(OwingTo(o)) \in Nat
  BY <1>3, OwingType, CardStep
<1>7. ASSUME OwesVote(w) <=> OwesVote(w)'
      PROVE  Owing' = Owing /\ \A o : OwingTo(o)' = OwingTo(o)
  BY <1>2, <1>4, <1>5, <1>6, <1>7
<1>8. ASSUME ~OwesVote(w), OwesVote(w)', NEW o
      PROVE  Cardinality(OwingTo(o)') = Cardinality(OwingTo(o)) + (IF o \in C THEN 1 ELSE 0)
  BY <1>4, <1>6, <1>8
<1>9. ASSUME OwesVote(w), ~OwesVote(w)', NEW o
      PROVE  Cardinality(OwingTo(o)') = Cardinality(OwingTo(o)) - (IF o \in C THEN 1 ELSE 0)
  BY <1>4, <1>6, <1>9
<1> QED
  BY <1>2, <1>5, <1>7, <1>8, <1>9

\* A step that neither casts a vote nor writes the options.
LEMMA PollCountAside ==
  ASSUME PollCount, NEW w \in Workers, UNCHANGED pollVars, drifted => drifted',
         \A v \in Workers : v # w => task'[v] = task[v],
         OwesVote(w) <=> OwesVote(w)',
         OwesVote(w) => task'[w].choices = task[w].choices
  PROVE  PollCount'
<1>1. Owing' = Owing /\ \A o : OwingTo(o)' = OwingTo(o)
  BY OwingStep
<1>2. /\ votes' = votes /\ tally' = tally /\ votesCount' = votesCount
      /\ votersCount' = votersCount /\ overwritten' = overwritten
  BY DEF pollVars
<1>3. VotersNow' = VotersNow /\ \A o : RowsFor(o)' = RowsFor(o)
  BY <1>2 DEF VotersNow, RowsFor
<1> QED
  BY <1>1, <1>2, <1>3 DEF PollCount

LEMMA PollCountStep ==
  ASSUME TypeInv, PhantomInv, PollCount, NEW w \in Workers, PollStep(w)
  PROVE  PollCount'
<1> DEFINE C == task[w].choices
<1>1. /\ Busy(w) /\ task[w] \in Tasks /\ KindKept(w) /\ C \in SUBSET Options
      /\ \A v \in Workers : v # w => task'[v] = task[v]
  BY PollKind DEF KindKept, Tasks
<1>2. OwesVote(w)' => task'[w].choices = C
  BY <1>1 DEF KindKept, OwesVote, At, Busy
<1>3. /\ (OwesVote(w) <=> OwesVote(w)') =>
           Owing' = Owing /\ \A o : OwingTo(o)' = OwingTo(o)
      /\ ~OwesVote(w) /\ OwesVote(w)' =>
           /\ Cardinality(Owing') = Cardinality(Owing) + 1
           /\ \A o : Cardinality(OwingTo(o)') =
                       Cardinality(OwingTo(o)) + (IF o \in C THEN 1 ELSE 0)
      /\ OwesVote(w) /\ ~OwesVote(w)' =>
           /\ Cardinality(Owing') = Cardinality(Owing) - 1
           /\ \A o : Cardinality(OwingTo(o)') =
                       Cardinality(OwingTo(o)) - (IF o \in C THEN 1 ELSE 0)
  BY <1>1, <1>2, OwingStep
<1>4. /\ tally \in [Options -> Nat] /\ votesCount \in Nat /\ votersCount \in Nat
      /\ Cardinality(Owing) \in Nat /\ \A o : Cardinality(OwingTo(o)) \in Nat
  BY OwingType DEF TypeInv, PollType
<1>5. \A o \in Options : Raised(w)[o] = task[w].seen[o] + (IF o \in C THEN 1 ELSE 0)
  BY <1>1, RaisedTask
<1>6. Raised(w) \in [Options -> Nat]
  BY <1>1 DEF Raised, Tasks
<1>7. ASSUME Casts(On(w), C)
      PROVE  /\ \A o \in Options : /\ RowsFor(o)' = RowsFor(o) + (IF o \in C THEN 1 ELSE 0)
                                   /\ RowsFor(o) \in Nat
             /\ Cardinality(votes') = Cardinality(votes) + Cardinality(C)
             /\ Cardinality(votes) \in Nat /\ Cardinality(C) \in Nat
  BY <1>7, RowsCast, RowsType, VotesCast DEF TypeInv
<1>8. ASSUME tally = task[w].seen
      PROVE  /\ Cardinality(Counted(Raised(w))) = Cardinality(Counted(tally)) + Cardinality(C)
             /\ Cardinality(C) \in Nat /\ Cardinality(Counted(tally)) \in Nat
  <2>1. /\ \A o \in Options : Raised(w)[o] = tally[o] + (IF o \in C THEN 1 ELSE 0)
        /\ tally \in [Options -> Nat] /\ C \in SUBSET Options
    BY <1>1, <1>4, <1>5, <1>8
  <2> HIDE DEF C
  <2> QED
    BY <1>6, <2>1, CountedRaised
<1>9. task[w].kind = "inVote" => Cardinality(C) = 1
  BY <1>1 DEF PhantomInv, Names
<1>10. CASE Looks(w)
  <2>1. UNCHANGED pollVars /\ (drifted => drifted') /\ (OwesVote(w) <=> OwesVote(w)')
    BY <1>10 DEF Looks
  <2>2. OwesVote(w) => task'[w].choices = task[w].choices
    BY <1>2, <2>1
  <2> QED
    BY <1>1, <2>1, <2>2, PollCountAside
<1>11. CASE CastsAll(w)
  <2> SUFFICES ASSUME ~drifted', ~overwritten'
               PROVE  PollCount'
    BY DEF PollCount
  <2>1. /\ Casts(On(w), C) /\ C # {} /\ ~OwesVote(w) /\ tally' = Raised(w)
        /\ votesCount' = votesCount + Cardinality(C) /\ votersCount' = votersCount + 1
        /\ ~drifted /\ ~overwritten /\ tally = task[w].seen /\ \A v \in votes : v[1] # On(w)
    BY <1>11 DEF CastsAll
  <2>2. Owing' = Owing /\ \A o : OwingTo(o)' = OwingTo(o)
    BY <1>3, <1>11, <2>1 DEF CastsAll, OwesVote, At, Busy
  <2>3. /\ \A o \in Options : tally[o] + Cardinality(OwingTo(o)) = RowsFor(o)
        /\ votesCount + Cardinality(Owing) = Cardinality(votes)
        /\ votesCount = Cardinality(Counted(tally))
        /\ Owing = {} => votersCount = VotersNow
    BY <2>1 DEF PollCount
  <2>4. VotersNow' = VotersNow + 1 /\ VotersNow \in Nat
    BY <2>1, VotersCast DEF TypeInv
  <2> HIDE DEF C
  <2>5. ASSUME NEW o \in Options
        PROVE  tally'[o] + Cardinality(OwingTo(o)') = RowsFor(o)'
    <3>1. tally'[o] = tally[o] + (IF o \in C THEN 1 ELSE 0)
      BY <1>5, <2>1
    <3>2. RowsFor(o)' = RowsFor(o) + (IF o \in C THEN 1 ELSE 0) /\ RowsFor(o) \in Nat
      BY <1>7, <2>1
    <3>3. tally[o] \in Nat /\ Cardinality(OwingTo(o)) \in Nat
      BY <1>4
    <3>4. OwingTo(o)' = OwingTo(o) /\ tally[o] + Cardinality(OwingTo(o)) = RowsFor(o)
      BY <2>2, <2>3
    <3>5. CASE o \in C
      BY <3>1, <3>2, <3>3, <3>4, <3>5
    <3>6. CASE o \notin C
      BY <3>1, <3>2, <3>3, <3>4, <3>6
    <3> QED
      BY <3>5, <3>6
  <2>6. votesCount' + Cardinality(Owing') = Cardinality(votes')
    <3>1. Cardinality(votes') = Cardinality(votes) + Cardinality(C) /\ Cardinality(C) \in Nat
      BY <1>7, <2>1
    <3> QED
      BY <1>4, <2>1, <2>2, <2>3, <3>1
  <2>7. votesCount' = Cardinality(Counted(tally'))
    BY <1>8, <2>1, <2>3
  <2>8. Owing' = {} => votersCount' = VotersNow'
    BY <2>1, <2>2, <2>3, <2>4
  <2>9. Cardinality(Counted(tally))' = Cardinality(Counted(tally'))
    BY DEF Counted
  <2> QED
    BY <2>5, <2>6, <2>7, <2>8, <2>9 DEF PollCount
<1>12. CASE CastsOne(w)
  <2> SUFFICES ASSUME ~drifted', ~overwritten'
               PROVE  PollCount'
    BY DEF PollCount
  <2>1. /\ Casts(On(w), C) /\ task[w].kind = "inVote" /\ ~OwesVote(w) /\ OwesVote(w)'
        /\ tally' = tally /\ votesCount' = votesCount /\ ~drifted /\ ~overwritten
    BY <1>12 DEF CastsOne
  <2>2. /\ Cardinality(Owing') = Cardinality(Owing) + 1
        /\ \A o : Cardinality(OwingTo(o)') =
                    Cardinality(OwingTo(o)) + (IF o \in C THEN 1 ELSE 0)
    BY <1>3, <2>1
  <2>3. /\ \A o \in Options : tally[o] + Cardinality(OwingTo(o)) = RowsFor(o)
        /\ votesCount + Cardinality(Owing) = Cardinality(votes)
        /\ votesCount = Cardinality(Counted(tally))
    BY <2>1 DEF PollCount
  <2>4. Owing' # {}
    BY <2>1 DEF Owing
  <2> HIDE DEF C
  <2>5. ASSUME NEW o \in Options
        PROVE  tally'[o] + Cardinality(OwingTo(o)') = RowsFor(o)'
    <3>1. RowsFor(o)' = RowsFor(o) + (IF o \in C THEN 1 ELSE 0) /\ RowsFor(o) \in Nat
      BY <1>7, <2>1
    <3>2. tally[o] \in Nat /\ Cardinality(OwingTo(o)) \in Nat
      BY <1>4
    <3>3. /\ Cardinality(OwingTo(o)') = Cardinality(OwingTo(o)) + (IF o \in C THEN 1 ELSE 0)
          /\ tally[o] + Cardinality(OwingTo(o)) = RowsFor(o) /\ tally'[o] = tally[o]
      BY <2>1, <2>2, <2>3
    <3>4. CASE o \in C
      BY <3>1, <3>2, <3>3, <3>4
    <3>5. CASE o \notin C
      BY <3>1, <3>2, <3>3, <3>5
    <3> QED
      BY <3>4, <3>5
  <2>6. votesCount' + Cardinality(Owing') = Cardinality(votes')
    <3>1. Cardinality(votes') = Cardinality(votes) + Cardinality(C) /\ Cardinality(C) = 1
      BY <1>7, <1>9, <2>1
    <3> QED
      BY <1>4, <2>1, <2>2, <2>3, <3>1
  <2>7. votesCount' = Cardinality(Counted(tally))'
    BY <2>1, <2>3 DEF Counted
  <2> QED
    BY <2>4, <2>5, <2>6, <2>7 DEF PollCount
<1>13. CASE Writes(w)
  <2> SUFFICES ASSUME ~drifted', ~overwritten'
               PROVE  PollCount'
    BY DEF PollCount
  <2>1. /\ OwesVote(w) /\ ~OwesVote(w)' /\ votes' = votes /\ tally' = Raised(w)
        /\ votesCount' = Cardinality(Counted(Raised(w)))
        /\ ~drifted /\ ~overwritten /\ tally = task[w].seen /\ votersCount' = VotersNow
    BY <1>13 DEF Writes, OwesVote, At
  <2>2. /\ Cardinality(Owing') = Cardinality(Owing) - 1
        /\ \A o : Cardinality(OwingTo(o)') =
                    Cardinality(OwingTo(o)) - (IF o \in C THEN 1 ELSE 0)
    BY <1>3, <2>1
  <2>3. /\ \A o \in Options : tally[o] + Cardinality(OwingTo(o)) = RowsFor(o)
        /\ votesCount + Cardinality(Owing) = Cardinality(votes)
        /\ votesCount = Cardinality(Counted(tally))
    BY <2>1 DEF PollCount
  <2>4. task[w].kind = "inVote"
    BY <2>1 DEF OwesVote, At
  <2>5. /\ VotersNow' = VotersNow /\ \A o : RowsFor(o)' = RowsFor(o)
        /\ Cardinality(votes') = Cardinality(votes)
    BY <2>1 DEF VotersNow, RowsFor
  <2>6. /\ Cardinality(C) = 1 /\ Cardinality(Counted(tally)) \in Nat
        /\ Cardinality(Counted(Raised(w))) = Cardinality(Counted(tally)) + Cardinality(C)
    BY <1>8, <1>9, <2>1, <2>4
  <2> HIDE DEF C
  <2>7. ASSUME NEW o \in Options
        PROVE  tally'[o] + Cardinality(OwingTo(o)') = RowsFor(o)'
    <3>1. tally'[o] = tally[o] + (IF o \in C THEN 1 ELSE 0)
      BY <1>5, <2>1
    <3>2. tally[o] \in Nat /\ Cardinality(OwingTo(o)) \in Nat
      BY <1>4
    <3>3. /\ Cardinality(OwingTo(o)') = Cardinality(OwingTo(o)) - (IF o \in C THEN 1 ELSE 0)
          /\ tally[o] + Cardinality(OwingTo(o)) = RowsFor(o) /\ RowsFor(o)' = RowsFor(o)
      BY <2>2, <2>3, <2>5
    <3>4. CASE o \in C
      BY <3>1, <3>2, <3>3, <3>4
    <3>5. CASE o \notin C
      BY <3>1, <3>2, <3>3, <3>5
    <3> QED
      BY <3>4, <3>5
  <2>8. votesCount' + Cardinality(Owing') = Cardinality(votes')
    BY <1>4, <2>1, <2>2, <2>3, <2>5, <2>6
  <2>9. votesCount' = Cardinality(Counted(tally))'
    BY <2>1 DEF Counted
  <2>10. votersCount' = VotersNow'
    BY <2>1, <2>5
  <2> QED
    BY <2>7, <2>8, <2>9, <2>10 DEF PollCount
<1> QED
  BY <1>10, <1>11, <1>12, <1>13, PollEffect

-----------------------------------------------------------------------------
(* The invariant and what follows from it *)

CountInv == FavCount /\ BoostInv /\ PollCount

Inv == TypeInv /\ CountInv /\ PhantomInv

LEMMA InvInit == Init => Inv
<1> SUFFICES ASSUME Init
             PROVE  Inv
  OBVIOUS
<1>1. TypeInv
  BY TypeInit
<1>2. \A w \in Workers : ~Busy(w)
  BY DEF Init, Busy
<1>3. /\ \A kinds, phase : Pending(kinds, phase) = {}
      /\ \A kinds, phase, a : PendingOf(kinds, phase, a) = {}
      /\ Owing = {} /\ \A o : OwingTo(o) = {}
  BY <1>2 DEF Pending, PendingOf, At, Owing, OwingTo, OwesVote
<1>4. Cardinality({}) = 0 /\ IsFiniteSet({})
  BY FS_EmptySet
<1>5. FavCount
  <2>1. Fans = {} /\ favourites = 0
    BY DEF Init, Fans
  <2> QED
    BY <1>3, <1>4, <2>1 DEF FavCount
<1>6. BoostInv
  <2>1. boostLive = {} /\ reblogs = 0 /\ (\A a : BoostsOf(a) = {}) /\ \A a \in Locals : posts[a] = 0
    BY DEF Init, BoostsOf
  <2>2. BoostCount
    BY <1>3, <1>4, <2>1 DEF BoostCount
  <2>3. PostCount
    BY <1>3, <1>4, <2>1 DEF PostCount
  <2>4. SingleBoost
    BY <2>1 DEF SingleBoost
  <2> QED
    BY <2>2, <2>3, <2>4 DEF BoostInv
<1>7. /\ votes = {} /\ votesCount = 0 /\ votersCount = 0
      /\ \A o \in Options : tally[o] = 0 /\ RowsFor(o) = 0
  BY <1>4 DEF Init, Zero, RowsFor
<1>8. PollCount
  <2>1. VotersNow = 0
    <3>1. {v[1] : v \in votes} = {}
      BY <1>7
    <3> QED
      BY <1>4, <3>1 DEF VotersNow
  <2>2. Counted(tally) = {}
    <3>1. \A o \in Options : 1 .. tally[o] = {}
      BY <1>7
    <3> QED
      BY <3>1 DEF Counted
  <2>3. \A o \in Options : tally[o] + Cardinality(OwingTo(o)) = RowsFor(o)
    BY <1>3, <1>4, <1>7
  <2>4. votesCount + Cardinality(Owing) = Cardinality(votes)
    BY <1>3, <1>4, <1>7
  <2>5. votesCount = Cardinality(Counted(tally)) /\ votersCount = VotersNow
    BY <1>4, <1>7, <2>1, <2>2
  <2> QED
    BY <2>3, <2>4, <2>5 DEF PollCount
<1>9. PhantomInv
  BY <1>2, <1>7 DEF PhantomInv, NoPhantomVotes, Covered, Names
<1> QED
  BY <1>1, <1>5, <1>6, <1>8, <1>9 DEF Inv, CountInv

\* A step in which no worker owes a count before or after.
LEMMA CountAside ==
  ASSUME CountInv, UNCHANGED <<favVars, boostVars, pollVars>>, drifted => drifted',
         NEW w \in Workers, Aside(w, AllKinds)
  PROVE  CountInv'
<1>1. /\ \A v \in Workers : v # w => task'[v] = task[v]
      /\ ~Owes(w, AllKinds) /\ ~Owes(w, AllKinds)'
  BY DEF Aside
<1>2. ASSUME NEW kinds \in SUBSET AllKinds
      PROVE  Aside(w, kinds)
  BY <1>1 DEF Aside, Owes
<1>3. BoostKinds \in SUBSET AllKinds /\ {"like", "undoLike"} \in SUBSET AllKinds
  BY DEF BoostKinds, Boosters, Removers, AllKinds, ApiKinds, QueueKinds
<1>4. Aside(w, BoostKinds) /\ Aside(w, {"like", "undoLike"})
  BY <1>2, <1>3
<1>5. ~OwesVote(w) /\ ~OwesVote(w)'
  BY <1>1 DEF Owes, OwesVote, At, AllKinds, QueueKinds
<1> QED
  BY <1>1, <1>4, <1>5, FavAside, BoostAside, PollCountAside DEF CountInv

\* Nothing counts when a task was interrupted that owed a count.
LEMMA DriftedCount ==
  ASSUME BoostInv, drifted', boostBy' = boostBy, boostLive' = boostLive
  PROVE  CountInv'
BY DEF CountInv, FavCount, BoostInv, BoostCount, PostCount, SingleBoost, BoostsOf, PollCount

\* A counter that has drifted stays so.
LEMMA DriftStays ==
  ASSUME TypeInv, NEW w \in Workers, drifted, FavouriteStep(w) \/ BoostStep(w) \/ PollStep(w)
  PROVE  drifted'
<1>1. drifted = TRUE
  BY DEF TypeInv, TaskType
<1>2. CASE drifted' = drifted
  BY <1>2
<1>3. CASE DropFavourite(w) \/ UncountLike(w) \/ RemoveBoost(w) \/ UncountBoost(w)
  BY <1>3 DEF DropFavourite, UncountLike, RemoveBoost, UncountBoost
<1>4. CASE Vote(w)
  BY <1>4 DEF Vote
<1>5. CASE WriteVote(w)
  BY <1>5 DEF WriteVote
<1>6. CASE FavouriteStep(w) /\ ~DropFavourite(w) /\ ~UncountLike(w)
  BY <1>6 DEF FavouriteStep, FindFavourite, AddFavourite, SeekFavourite, InsertLike, CountLike,
     FindLike, DeleteLike
<1>7. CASE BoostStep(w) /\ ~RemoveBoost(w) /\ ~UncountBoost(w)
  BY <1>7 DEF BoostStep, FindBoost, InsertBoost, InsertAnnounce, CountBoost, SeekBoost
<1>8. CASE FindVote(w) \/ InsertVote(w) \/ CountVoters(w)
  BY <1>8 DEF FindVote, InsertVote, CountVoters
<1> QED
  BY <1>3, <1>4, <1>5, <1>6, <1>7, <1>8 DEF PollStep

LEMMA VotesLeft ==
  ASSUME TypeInv, PollCount, NEW w \in Workers, FavouriteStep(w) \/ BoostStep(w)
  PROVE  PollCount'
<1>1. UNCHANGED pollVars
  BY DEF FavouriteStep, FindFavourite, AddFavourite, SeekFavourite, DropFavourite, InsertLike,
     CountLike, FindLike, DeleteLike, UncountLike, BoostStep, FindBoost, InsertBoost,
     InsertAnnounce, CountBoost, SeekBoost, RemoveBoost, UncountBoost
<1>2. KindKept(w) /\ task[w].kind # "inVote"
  BY FavouriteKind, BoostKind DEF FavKinds, BoostKinds, Boosters, Removers
<1>3. ~OwesVote(w) /\ ~OwesVote(w)'
  BY <1>2 DEF KindKept, OwesVote, At, Busy
<1> QED
  BY <1>1, <1>2, <1>3, DriftStays, PollCountAside DEF KindKept

LEMMA FavouriteStepInv ==
  ASSUME Inv, NEW w \in Workers, FavouriteStep(w)
  PROVE  Inv'
<1>1. TypeInv /\ FavCount /\ BoostInv /\ PollCount /\ PhantomInv
  BY DEF Inv, CountInv
<1>2. UNCHANGED boostVars
  BY DEF FavouriteStep, FindFavourite, AddFavourite, SeekFavourite, DropFavourite, InsertLike,
     CountLike, FindLike, DeleteLike, UncountLike
<1>3. Aside(w, BoostKinds)
  BY <1>1, FavouriteKind, StepAside DEF FavKinds, BoostKinds, Boosters, Removers
<1> QED
  BY <1>1, <1>2, <1>3, DriftStays, FavouriteStepType, FavCountStep, BoostAside,
     VotesLeft, OtherStepPhantom
     DEF Inv, CountInv

LEMMA BoostStepInv ==
  ASSUME Inv, NEW w \in Workers, BoostStep(w)
  PROVE  Inv'
<1>1. TypeInv /\ FavCount /\ BoostInv /\ PollCount /\ PhantomInv
  BY DEF Inv, CountInv
<1>2. UNCHANGED favVars
  BY DEF BoostStep, FindBoost, InsertBoost, InsertAnnounce, CountBoost, SeekBoost, RemoveBoost,
     UncountBoost
<1>3. Aside(w, {"like", "undoLike"})
  BY <1>1, BoostKind, StepAside DEF BoostKinds, Boosters, Removers
<1>4. BoostInv'
  BY <1>1, BoostCountStep, PostCountStep, SingleBoostStep DEF BoostInv
<1> QED
  BY <1>1, <1>2, <1>3, <1>4, DriftStays, BoostStepType, FavAside, VotesLeft, OtherStepPhantom
     DEF Inv, CountInv

LEMMA PollStepInv ==
  ASSUME Inv, NEW w \in Workers, PollStep(w)
  PROVE  Inv'
<1>1. TypeInv /\ FavCount /\ BoostInv /\ PollCount /\ PhantomInv
  BY DEF Inv, CountInv
<1>2. UNCHANGED <<favVars, boostVars>>
  BY DEF PollStep, FindVote, Vote, InsertVote, CountVoters, WriteVote
<1>3. Aside(w, {"like", "undoLike"}) /\ Aside(w, BoostKinds)
  BY <1>1, PollKind, StepAside DEF BoostKinds, Boosters, Removers
<1> QED
  BY <1>1, <1>2, <1>3, DriftStays, PollStepType, FavAside, BoostAside, PollCountStep, PollStepPhantom
     DEF Inv, CountInv

\* A step of which favourites, boosts, votes and their tasks know nothing.
LEMMA InvAside ==
  ASSUME Inv, UNCHANGED <<favVars, boostVars, pollVars, task, drifted>>, TypeInv'
  PROVE  Inv'
<1>1. CountInv /\ PhantomInv
  BY DEF Inv
<1>2. FavCount'
  BY <1>1 DEF CountInv, FavCount, Fans, Pending, At, Busy, favVars
<1>3. BoostInv'
  BY <1>1 DEF CountInv, BoostInv, BoostCount, PostCount, SingleBoost, BoostsOf, Pending, PendingOf,
     At, Busy, On, boostVars
<1>4. PollCount'
  <2>1. /\ UNCHANGED pollVars /\ (drifted => drifted') /\ task' = task /\ PollCount
    BY <1>1 DEF CountInv
  <2>2. /\ votes' = votes /\ tally' = tally /\ votesCount' = votesCount
        /\ votersCount' = votersCount /\ overwritten' = overwritten
    BY <2>1 DEF pollVars
  <2>3. /\ VotersNow' = VotersNow /\ (\A o : RowsFor(o)' = RowsFor(o))
        /\ Owing' = Owing /\ \A o : OwingTo(o)' = OwingTo(o)
    BY <2>1, <2>2 DEF VotersNow, RowsFor, Owing, OwingTo, OwesVote, At, Busy
  <2> QED
    BY <2>1, <2>2, <2>3 DEF PollCount
<1>5. PhantomInv'
  BY <1>1 DEF PhantomInv, NoPhantomVotes, Covered, Names, OwesVote, At, Busy, Raised, RowsFor,
     pollVars
<1> QED
  BY <1>2, <1>3, <1>4, <1>5 DEF Inv, CountInv

LEMMA InvNext == Inv /\ [Next]_vars => Inv'
<1> SUFFICES ASSUME Inv, [Next]_vars
             PROVE  Inv'
  OBVIOUS
<1>1. TypeInv /\ CountInv /\ PhantomInv /\ TypeInv'
  BY TypeNext DEF Inv
<1>2. CASE DeleteStatus \/ UNCHANGED vars
  <2>1. UNCHANGED <<favVars, boostVars, pollVars, task, drifted>>
    BY <1>2 DEF DeleteStatus, vars
  <2> QED
    BY <1>1, <2>1, InvAside
<1>3. ASSUME NEW w \in Workers, NEW kind, NEW a \in Actors,
             Start(w, kind, a) \/ \E C \in SUBSET Options : StartVote(w, kind, a, C)
      PROVE  Inv'
  <2>1. UNCHANGED <<favVars, boostVars, pollVars, drifted>>
    BY <1>1, <1>3, StartType
  <2>2. Aside(w, AllKinds)
    BY <1>1, <1>3, StartAside
  <2>3. CountInv'
    BY <1>1, <2>1, <2>2, CountAside
  <2>4. PhantomInv'
    BY <1>1, <1>3, StartPhantom
  <2> QED
    BY <1>1, <2>3, <2>4 DEF Inv
<1>4. ASSUME NEW w \in Workers, Crash(w)
      PROVE  Inv'
  <2>1. UNCHANGED <<favVars, boostVars, pollVars>>
    BY <1>4 DEF Crash
  <2>2. CASE drifted'
    <3>1. CountInv'
      BY <1>1, <2>1, <2>2, DriftedCount DEF CountInv, boostVars
    <3> QED
      BY <1>1, <1>4, <3>1, CrashPhantom DEF Inv
  <2>3. CASE ~drifted'
    <3>1. Aside(w, AllKinds) /\ drifted' = drifted
      BY <1>1, <1>4, <2>3, CrashAside
    <3>2. CountInv'
      BY <1>1, <2>1, <3>1, CountAside
    <3> QED
      BY <1>1, <1>4, <3>2, CrashPhantom DEF Inv
  <2> QED
    BY <2>2, <2>3
<1>5. ASSUME NEW w \in Workers, Redeliver(w)
      PROVE  Inv'
  <2>1. UNCHANGED <<favVars, boostVars, pollVars, drifted>>
    BY <1>5 DEF Redeliver
  <2>2. CountInv'
    BY <1>1, <1>5, <2>1, RedeliverAside, CountAside
  <2> QED
    BY <1>1, <1>5, <2>2, RedeliverPhantom DEF Inv
<1> QED
  BY <1>2, <1>3, <1>4, <1>5, FavouriteStepInv, BoostStepInv, PollStepInv DEF Next

LEMMA InvHolds == Spec => []Inv
  BY InvInit, InvNext, PTL DEF Spec

\* Every variable has its type in every reachable state, for any accounts, ids,
\* options and workers; in particular a boost to be removed is remembered by an id
\* and no counter goes below zero.
THEOREM InteractionsTyped == Spec => []TypeOK
<1>1. Inv => TypeOK
  BY TypeParts DEF Inv, TypeInv
<1> QED
  BY <1>1, InvHolds, PTL

LEMMA CountersFromInv == Inv => CountersMatchRows
<1> SUFFICES ASSUME Inv, ~drifted
             PROVE  CountersMatchRows
  BY DEF CountersMatchRows
<1>1. FavCount /\ BoostCount /\ PostCount
  BY DEF Inv, CountInv, BoostInv
<1>2. favourites + Cardinality(Pending({"like"}, "inserted"))
        = Cardinality({a \in Actors : favourite[a] # None})
          + Cardinality(Pending({"undoLike"}, "removed"))
  BY <1>1 DEF FavCount, Fans
<1>3. reblogs + Cardinality(Pending({"reblog", "announce"}, "inserted"))
        = Cardinality(boostLive)
          + Cardinality(Pending({"unreblog", "deleteBoost", "undoAnnounce", "inDelete"}, "removed"))
  BY <1>1 DEF BoostCount, Boosters, Removers
<1>4. \A a \in Locals :
        posts[a] + Cardinality({w \in Pending({"reblog"}, "inserted") : On(w) = a})
          = Cardinality(BoostsOf(a))
            + Cardinality({w \in Pending({"unreblog", "deleteBoost"}, "removed") : On(w) = a})
  BY <1>1 DEF PostCount, PendingOf, LocalRemovers
<1> QED
  BY <1>2, <1>3, <1>4 DEF CountersMatchRows

\* The counters of favourites, boosts and of an account's boosts are the numbers
\* of rows, give or take what tasks in flight have still to count, however many
\* requests and activities overlap.
THEOREM CountersAreRows == Spec => []CountersMatchRows
  BY InvHolds, CountersFromInv, PTL

LEMMA OneBoostFromInv == Inv => OneLocalBoost
<1> SUFFICES ASSUME Inv, NEW a \in Locals
             PROVE  Cardinality(BoostsOf(a)) <= 1
  BY DEF OneLocalBoost
<1>1. \A b, c \in BoostsOf(a) : b = c
  BY DEF Inv, CountInv, BoostInv, SingleBoost
<1>2. CASE BoostsOf(a) = {}
  BY <1>2, FS_EmptySet
<1>3. ASSUME NEW b \in BoostsOf(a)
      PROVE  Cardinality(BoostsOf(a)) <= 1
  <2>1. BoostsOf(a) = {b}
    BY <1>1, <1>3
  <2> QED
    BY <2>1, FS_Singleton
<1> QED
  BY <1>2, <1>3

\* A local account never has two live boosts of a status: the INSERT of
\* reblogStatus asks again for what it read.
THEOREM BoostsOnce == Spec => []OneLocalBoost
  BY InvHolds, OneBoostFromInv, PTL

\* An option never shows more votes than it has rows in poll_votes, whichever
\* votes overlap, are lost, interrupted or delivered again.
THEOREM VotesAreCast == Spec => []NoPhantomVotes
<1>1. Inv => NoPhantomVotes
  BY DEF Inv, PhantomInv
<1> QED
  BY <1>1, InvHolds, PTL

LEMMA VotesFromInv == Inv => VotesAreCounted
<1> SUFFICES ASSUME Inv, ~drifted, ~overwritten,
                    \A w \in Workers : ~At(w, {"inVote"}, "inserted") /\ ~At(w, {"inVote"}, "counted")
             PROVE  /\ \A o \in Options : tally[o] = RowsFor(o)
                    /\ votesCount = Cardinality(votes)
                    /\ votersCount = Cardinality({a \in Actors : \E o \in Options : <<a, o>> \in votes})
  BY DEF VotesAreCounted
<1>1. Owing = {} /\ \A o : OwingTo(o) = {}
  BY DEF Owing, OwingTo, OwesVote
<1>2. Cardinality({}) = 0
  BY FS_EmptySet
<1>3. /\ \A o \in Options : tally[o] + Cardinality(OwingTo(o)) = RowsFor(o)
      /\ votesCount + Cardinality(Owing) = Cardinality(votes)
      /\ votersCount = VotersNow
  BY <1>1 DEF Inv, CountInv, PollCount
<1>4. PollType
  BY DEF Inv, TypeInv
<1>5. {v[1] : v \in votes} = {a \in Actors : \E o \in Options : <<a, o>> \in votes}
  <2>1. \A v \in votes : v[1] \in Actors /\ v[2] \in Options /\ v = <<v[1], v[2]>>
    BY <1>4 DEF PollType
  <2>2. \A a, o : <<a, o>>[1] = a
    OBVIOUS
  <2> QED
    BY <2>1, <2>2
<1>6. \A o \in Options : tally[o] \in Nat
  BY <1>4 DEF PollType
<1>7. votesCount \in Nat
  BY <1>4 DEF PollType
<1>8. \A o \in Options : tally[o] = RowsFor(o)
  BY <1>1, <1>2, <1>3, <1>6
<1>9. votesCount = Cardinality(votes)
  BY <1>1, <1>2, <1>3, <1>7
<1>10. votersCount = Cardinality({a \in Actors : \E o \in Options : <<a, o>> \in votes})
  BY <1>3, <1>5 DEF VotersNow
<1> QED
  BY <1>8, <1>9, <1>10

\* Votes that do not overlap are all counted: in the options, in votes_count and
\* in voters_count.
THEOREM VotesAddUp == Spec => []VotesAreCounted
  BY InvHolds, VotesFromInv, PTL

===============================================================================
