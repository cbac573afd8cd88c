-------------------------- MODULE RelationshipsProofs --------------------------
(***************************************************************************)
(* Proofs about Relationships, for any accounts, workers and counts: the   *)
(* types, that follows of accounts that answer need their consent, that a  *)
(* block leaves no follow behind but in the named ways, and that the       *)
(* counters are the numbers of rows.                                       *)
(***************************************************************************)
EXTENDS Relationships, FiniteSetTheorems, TLAPS

\* An incoming Follow is a remote account's, and an Accept has seen a request.
Sane ==
  \A w \in Workers :
    /\ task[w].kind = "inFollow" => FromInbox(task[w].pair)
    /\ task[w].kind = "inAccept" /\ task[w].phase = "sawRequest" => task[w].seen # None

\* The task t has passed its check of the blocks and may insert a row of its pair.
Heading(t) ==
  /\ t # Idle
  /\ t.kind \in {"follow", "import", "inFollow"}
  /\ t.phase \in {"checked", "noFollow", "noRequest"}

\* The task t is a Block that has yet to delete the follow q.
YetToDelete(t, q) ==
  /\ t # Idle
  /\ t.kind = "inBlock"
  /\ \/ q = t.pair /\ t.phase = "forward"
     \/ q = Reverse(t.pair) /\ t.phase \in {"forward", "forward1", "forward2", "reverse"}

Deleting(q) == \E w \in Workers : YetToDelete(task[w], q)

\* What BlockedPairsDoNotFollow rests on: whatever may still become a follow
\* between two accounts of a block was there when the block came.
Severed ==
  \A q \in Pairs : BlockedPair(q) =>
    /\ OnItsWay(q) \/ request[q] # None => q \in overtaken
    /\ follow[q] # None => q \in overtaken \/ Deleting(q)

Inv == TypeOK /\ Sane /\ Severed

-----------------------------------------------------------------------------
(* Tasks. *)

LEMMA TaskFacts ==
  ASSUME TypeOK, NEW w \in Workers, task[w] # Idle
  PROVE  /\ task[w] \in Tasks /\ task[w].kind # "idle"
         /\ task[w].pair \in Pairs /\ Reverse(task[w].pair) \in Pairs
         /\ task[w].pair[1] \in Accounts /\ task[w].pair[2] \in Accounts
<1>1. task[w] \in Tasks
  BY DEF TypeOK
<1>2. task[w].kind \in ApiKinds \cup QueueKinds /\ task[w].pair \in Pairs
  BY <1>1 DEF Tasks
<1>3. task[w].kind # "idle"
  BY <1>2 DEF ApiKinds, QueueKinds
<1>4. Reverse(task[w].pair) \in Pairs
  BY <1>2 DEF Pairs, Reverse
<1> QED
  BY <1>1, <1>2, <1>3, <1>4 DEF Pairs

LEMMA WayOfHeading ==
  \A q \in Pairs : OnItsWay(q) <=> \E w \in Workers : Heading(task[w]) /\ task[w].pair = q
BY DEF OnItsWay, Heading, On

\* Worker w goes on to x, with the same kind and pair, or ends.
LEMMA MoveTask ==
  ASSUME TypeOK, Sane, NEW w \in Workers, task[w] # Idle,
         NEW x \in Tasks \cup {Idle}, task' = [task EXCEPT ![w] = x], remote' = remote,
         x # Idle => /\ x.kind = task[w].kind /\ x.pair = task[w].pair
                     /\ x.kind = "inAccept" /\ x.phase = "sawRequest" => x.seen # None
  PROVE  /\ task' \in [Workers -> Tasks \cup {Idle}]
         /\ Sane'
         /\ (Heading(x) => Heading(task[w]) \/ ~BlockedPair(task[w].pair))
              => \A q \in Pairs : OnItsWay(q)' => OnItsWay(q) \/ ~BlockedPair(q)
         /\ \A q \in Pairs : Deleting(q) =>
              Deleting(q)' \/ (YetToDelete(task[w], q) /\ ~YetToDelete(x, q))
<1>1. /\ task' \in [Workers -> Tasks \cup {Idle}] /\ task'[w] = x
      /\ \A v \in Workers : v # w => task'[v] = task[v]
  BY DEF TypeOK
<1>2. Sane'
  <2>1. Idle.kind = "idle"
    BY DEF Idle
  <2> QED
    BY <1>1, <2>1 DEF Sane, FromInbox, Local
<1>3. ASSUME Heading(x) => Heading(task[w]) \/ ~BlockedPair(task[w].pair),
             NEW q \in Pairs, OnItsWay(q)'
      PROVE  OnItsWay(q) \/ ~BlockedPair(q)
  <2>1. PICK v \in Workers : Heading(task'[v]) /\ task'[v].pair = q
    BY <1>3 DEF OnItsWay, Heading, On
  <2>2. CASE v = w
    BY <1>1, <1>3, <2>1, <2>2, WayOfHeading DEF Heading
  <2>3. CASE v # w
    BY <1>1, <2>1, <2>3, WayOfHeading
  <2> QED
    BY <2>2, <2>3
<1>4. \A q \in Pairs : Deleting(q) =>
        Deleting(q)' \/ (YetToDelete(task[w], q) /\ ~YetToDelete(x, q))
  BY <1>1 DEF Deleting, YetToDelete
<1> QED
  BY <1>1, <1>2, <1>3, <1>4

\* Steps that neither place nor lift a block.
LEMMA SeveredStep ==
  ASSUME Severed, UNCHANGED blocks, overtaken \subseteq overtaken',
         \A q \in Pairs : OnItsWay(q)' => OnItsWay(q) \/ ~BlockedPair(q),
         \A q \in Pairs : Deleting(q) => Deleting(q)' \/ follow'[q] = None \/ q \in overtaken'
                                         \/ ~BlockedPair(q),
         \A q \in Pairs : follow'[q] # None =>
           follow[q] # None \/ OnItsWay(q) \/ request[q] # None \/ ~BlockedPair(q),
         \A q \in Pairs : request'[q] # None =>
           request[q] # None \/ OnItsWay(q) \/ ~BlockedPair(q)
  PROVE  Severed'
<1>1. \A q \in Pairs : BlockedPair(q)' => BlockedPair(q)
  BY DEF BlockedPair
<1> QED
  BY <1>1 DEF Severed

LEMMA InitInv == Init => Inv
<1> SUFFICES ASSUME Init
             PROVE  Inv
  OBVIOUS
<1>1. TypeOK
  <2>1. /\ remote \subseteq Accounts /\ approves \subseteq Accounts \ remote
        /\ blocks \subseteq Pairs /\ untold \subseteq Pairs /\ overtaken \subseteq Pairs
        /\ drifted \in BOOLEAN
    BY DEF Init
  <2>2. follow \in [Pairs -> Rows] /\ request \in [Pairs -> Rows]
    BY DEF Init, Rows
  <2>3. followers \in [Accounts -> Nat] /\ following \in [Accounts -> Nat]
    BY DEF Init
  <2>4. task \in [Workers -> Tasks \cup {Idle}]
    BY DEF Init
  <2>5. crashes \in 0 .. MaxCrashes
    BY RelationshipsAssumption DEF Init
  <2> QED
    BY <2>1, <2>2, <2>3, <2>4, <2>5 DEF TypeOK
<1>2. Sane
  BY DEF Init, Sane, Idle
<1>3. Severed
  BY DEF Init, Severed, BlockedPair
<1> QED
  BY <1>1, <1>2, <1>3 DEF Inv

-----------------------------------------------------------------------------
(* What most steps have in common. *)

\* A step of worker w that neither places nor lifts a block.
LEMMA WorkerKeeps ==
  ASSUME Inv, NEW w \in Workers, task[w] # Idle,
         NEW x \in Tasks \cup {Idle}, task' = [task EXCEPT ![w] = x],
         UNCHANGED <<remote, approves, blocks>>,
         follow' \in [Pairs -> Rows], request' \in [Pairs -> Rows],
         followers' \in [Accounts -> Nat], following' \in [Accounts -> Nat],
         untold' \subseteq Pairs, crashes' \in 0 .. MaxCrashes, drifted' \in BOOLEAN,
         overtaken' \subseteq Pairs, overtaken \subseteq overtaken',
         x # Idle => /\ x.kind = task[w].kind /\ x.pair = task[w].pair
                     /\ x.kind = "inAccept" /\ x.phase = "sawRequest" => x.seen # None,
         Heading(x) => Heading(task[w]) \/ ~BlockedPair(task[w].pair),
         \A q \in Pairs : YetToDelete(task[w], q) /\ ~YetToDelete(x, q) =>
           follow'[q] = None \/ q \in overtaken' \/ ~BlockedPair(q),
         \A q \in Pairs : follow'[q] # None =>
           \/ follow[q] # None \/ request[q] # None
           \/ Heading(task[w]) /\ q = task[w].pair,
         \A q \in Pairs : request'[q] # None =>
           request[q] # None \/ (Heading(task[w]) /\ q = task[w].pair)
  PROVE  Inv'
<1>1. /\ task' \in [Workers -> Tasks \cup {Idle}] /\ Sane'
      /\ \A q \in Pairs : OnItsWay(q)' => OnItsWay(q) \/ ~BlockedPair(q)
      /\ \A q \in Pairs : Deleting(q) =>
           Deleting(q)' \/ (YetToDelete(task[w], q) /\ ~YetToDelete(x, q))
  BY MoveTask DEF Inv
<1>2. TypeOK'
  BY <1>1 DEF Inv, TypeOK
<1>3. Heading(task[w]) => OnItsWay(task[w].pair)
  BY DEF OnItsWay, Heading, On
<1>4. Severed'
  BY <1>1, <1>3, SeveredStep DEF Inv
<1> QED
  BY <1>1, <1>2, <1>4 DEF Inv

\* The same for a step of a task that neither inserts nor deletes rows.
LEMMA TaskKeeps ==
  ASSUME Inv, NEW w \in Workers, task[w] # Idle,
         NEW x \in Tasks \cup {Idle}, task' = [task EXCEPT ![w] = x],
         UNCHANGED <<remote, approves, rows, counts, untold, crashes, history>>,
         x # Idle => /\ x.kind = task[w].kind /\ x.pair = task[w].pair
                     /\ x.kind = "inAccept" /\ x.phase = "sawRequest" => x.seen # None,
         Heading(x) => Heading(task[w]) \/ ~BlockedPair(task[w].pair),
         \A q \in Pairs : ~YetToDelete(task[w], q)
  PROVE  Inv'
BY WorkerKeeps DEF Inv, TypeOK, rows, counts, history

LEMMA GotoTask ==
  ASSUME TypeOK, NEW w \in Workers, task[w] # Idle, NEW phase \in Phases
  PROVE  LET x == [task[w] EXCEPT !.phase = phase] IN
         /\ x \in Tasks /\ x.kind = task[w].kind /\ x.pair = task[w].pair
         /\ x.phase = phase /\ x.seen = task[w].seen
BY DEF TypeOK, Tasks

LEMMA SawTask ==
  ASSUME TypeOK, NEW w \in Workers, task[w] # Idle, NEW phase \in Phases, NEW seen \in Rows
  PROVE  LET x == [task[w] EXCEPT !.phase = phase, !.seen = seen] IN
         /\ x \in Tasks /\ x.kind = task[w].kind /\ x.pair = task[w].pair
         /\ x.phase = phase /\ x.seen = seen
BY DEF TypeOK, Tasks

\* Tasks that are no Block delete nothing for one; those that are no follow are
\* on no way.
LEMMA OtherTask ==
  ASSUME NEW t
  PROVE  /\ t.kind # "inBlock" => \A q : ~YetToDelete(t, q)
         /\ t.kind \notin {"follow", "import", "inFollow"} => ~Heading(t)
         /\ t.phase \notin {"checked", "noFollow", "noRequest"} => ~Heading(t)
BY DEF YetToDelete, Heading

LEMMA IdleTask == ~Heading(Idle) /\ \A q : ~YetToDelete(Idle, q)
BY DEF YetToDelete, Heading

\* A row that is erased leaves none behind.
LEMMA Erasing ==
  ASSUME NEW r \in [Pairs -> Rows], NEW p
  PROVE  /\ [r EXCEPT ![p] = None] \in [Pairs -> Rows]
         /\ \A q \in Pairs : [r EXCEPT ![p] = None][q] # None => r[q] # None
BY DEF Rows

\* The counters stay natural numbers, which CountDown owes to its floor.
LEMMA Counting ==
  ASSUME TypeOK, NEW P, CountUp(P) \/ CountDown(P)
  PROVE  followers' \in [Accounts -> Nat] /\ following' \in [Accounts -> Nat]
<1>1. \A n \in Nat : n + 1 \in Nat /\ Less(n) \in Nat
  BY DEF Less
<1>2. \A a \in Accounts : /\ followers[a] + 1 \in Nat /\ Less(followers[a]) \in Nat
                          /\ following[a] + 1 \in Nat /\ Less(following[a]) \in Nat
                          /\ followers[a] \in Nat /\ following[a] \in Nat
  BY <1>1 DEF TypeOK
<1>3. CASE CountUp(P)
  BY <1>2, <1>3 DEF CountUp
<1>4. CASE CountDown(P)
  BY <1>2, <1>4 DEF CountDown
<1> QED
  BY <1>3, <1>4

-----------------------------------------------------------------------------
(* Follow. *)

LEMMA EndKeeps ==
  ASSUME Inv, NEW w \in Workers, task[w] # Idle, End(w),
         UNCHANGED <<remote, approves, rows, counts, untold, crashes, history>>,
         \A q \in Pairs : ~YetToDelete(task[w], q)
  PROVE  Inv'
BY TaskKeeps, IdleTask DEF End

\* A task begins, unless it would pass a block.
LEMMA StartKeeps ==
  ASSUME Inv, NEW w \in Workers, NEW kind \in ApiKinds \cup QueueKinds, NEW p \in Pairs,
         NEW phase \in Phases, NEW seen \in Rows, Start(w, kind, p, phase, seen),
         kind \in {"follow", "import", "inFollow"} => ~BlockedPair(p),
         kind = "inFollow" => FromInbox(p),
         kind = "inAccept" => seen # None
  PROVE  Inv'
<1> DEFINE x == [kind |-> kind, pair |-> p, phase |-> phase, seen |-> seen]
<1>1. /\ task[w] = Idle /\ task' = [task EXCEPT ![w] = x]
      /\ UNCHANGED <<remote, approves, rows, counts, untold, crashes, history>>
  BY DEF Start
<1>2. /\ x \in Tasks /\ x.kind = kind /\ x.pair = p /\ x.phase = phase /\ x.seen = seen
  BY DEF Tasks
<1> HIDE DEF x
<1>3. /\ task' \in [Workers -> Tasks \cup {Idle}] /\ task'[w] = x
      /\ \A v \in Workers : v # w => task'[v] = task[v]
  BY <1>1, <1>2 DEF Inv, TypeOK
<1>4. TypeOK'
  BY <1>1, <1>3 DEF Inv, TypeOK, rows, counts, history
<1>5. Sane'
  BY <1>1, <1>2, <1>3 DEF Inv, Sane, FromInbox, Local
<1>6. ASSUME NEW q \in Pairs, OnItsWay(q)'
      PROVE  OnItsWay(q) \/ ~BlockedPair(q)
  <2>1. PICK v \in Workers : Heading(task'[v]) /\ task'[v].pair = q
    BY <1>6 DEF OnItsWay, Heading, On
  <2>2. CASE v = w
    BY <1>2, <1>3, <2>1, <2>2 DEF Heading
  <2>3. CASE v # w
    BY <1>3, <2>1, <2>3, WayOfHeading
  <2> QED
    BY <2>2, <2>3
<1>7. \A q \in Pairs : Deleting(q) => Deleting(q)'
  BY <1>1, <1>3, IdleTask DEF Deleting, YetToDelete
<1>8. Severed'
  BY <1>1, <1>6, <1>7, SeveredStep DEF Inv, rows, history
<1> QED
  BY <1>4, <1>5, <1>8 DEF Inv

LEMMA FindFollowKeeps ==
  ASSUME Inv, NEW w \in Workers, FindFollow(w)
  PROVE  Inv'
<1>1. task[w] # Idle /\ task[w].kind \in {"follow", "import"} /\ task[w].phase = "checked"
  BY DEF FindFollow, At, Idle
<1>2. UNCHANGED <<remote, approves, rows, counts, untold, crashes, history>>
  BY DEF FindFollow
<1>3. CASE Goto(w, "noFollow")
  <2> DEFINE x == [task[w] EXCEPT !.phase = "noFollow"]
  <2>1. /\ x \in Tasks /\ x.kind = task[w].kind /\ x.pair = task[w].pair /\ x.phase = "noFollow"
    <3>1. "noFollow" \in Phases
      BY DEF Phases
    <3> QED
      BY <1>1, <3>1, GotoTask DEF Inv
  <2>2. task' = [task EXCEPT ![w] = x]
    BY <1>3 DEF Goto
  <2>3. Heading(task[w])
    BY <1>1 DEF Heading
  <2> HIDE DEF x
  <2> QED
    BY <1>1, <1>2, <2>1, <2>2, <2>3, TaskKeeps, OtherTask
<1>4. CASE End(w)
  BY <1>1, <1>2, <1>4, EndKeeps, OtherTask
<1> QED
  BY <1>3, <1>4 DEF FindFollow

LEMMA FindRequestKeeps ==
  ASSUME Inv, NEW w \in Workers, FindRequest(w)
  PROVE  Inv'
<1>1. task[w] # Idle /\ task[w].kind \in {"follow", "import"} /\ task[w].phase = "noFollow"
  BY DEF FindRequest, At, Idle
<1>2. UNCHANGED <<remote, approves, rows, counts, untold, crashes, history>>
  BY DEF FindRequest
<1>3. CASE Goto(w, "noRequest")
  <2> DEFINE x == [task[w] EXCEPT !.phase = "noRequest"]
  <2>1. /\ x \in Tasks /\ x.kind = task[w].kind /\ x.pair = task[w].pair /\ x.phase = "noRequest"
    <3>1. "noRequest" \in Phases
      BY DEF Phases
    <3> QED
      BY <1>1, <3>1, GotoTask DEF Inv
  <2>2. task' = [task EXCEPT ![w] = x]
    BY <1>3 DEF Goto
  <2>3. Heading(task[w])
    BY <1>1 DEF Heading
  <2> HIDE DEF x
  <2> QED
    BY <1>1, <1>2, <2>1, <2>2, <2>3, TaskKeeps, OtherTask
<1>4. CASE End(w)
  BY <1>1, <1>2, <1>4, EndKeeps, OtherTask
<1> QED
  BY <1>3, <1>4 DEF FindRequest

LEMMA InsertRefusedKeeps ==
  ASSUME Inv, NEW w \in Workers, InsertRefused(w)
  PROVE  Inv'
<1>1. task[w] # Idle /\ task[w].kind \in {"follow", "import"} /\ task[w].phase = "noRequest"
  BY DEF InsertRefused, At, Idle
<1> QED
  BY <1>1, EndKeeps, OtherTask DEF InsertRefused

\* A row is inserted by a task whose pair had no block when it was checked.
LEMMA InsertRequestKeeps ==
  ASSUME Inv, NEW w \in Workers, InsertRequest(w) \/ InFollowRequest(w)
  PROVE  Inv'
<1>1. /\ task[w] # Idle /\ task[w].kind \in {"follow", "import", "inFollow"}
      /\ Heading(task[w])
  BY DEF InsertRequest, InFollowRequest, At, Idle, Heading
<1>2. PICK id \in Fresh(On(w)) : request' = [request EXCEPT ![On(w)] = id]
  BY DEF InsertRequest, InFollowRequest
<1>3. /\ task' = [task EXCEPT ![w] = Idle]
      /\ UNCHANGED <<remote, approves, follow, blocks, counts, untold, crashes, history>>
  BY DEF InsertRequest, InFollowRequest, End
<1>4. /\ request' \in [Pairs -> Rows]
      /\ \A q \in Pairs : q # On(w) => request'[q] = request[q]
  BY <1>2 DEF Inv, TypeOK, Fresh, Rows
<1> QED
  BY <1>1, <1>3, <1>4, WorkerKeeps, OtherTask, IdleTask DEF Inv, TypeOK, counts, history, On

LEMMA InsertFollowKeeps ==
  ASSUME Inv, NEW w \in Workers, InsertFollow(w)
  PROVE  Inv'
<1>1. task[w] # Idle /\ task[w].kind \in {"follow", "import"} /\ task[w].phase = "noRequest"
  BY DEF InsertFollow, At, Idle
<1>2. Heading(task[w])
  BY <1>1 DEF Heading
<1>3. PICK id \in Fresh(On(w)) : follow' = [follow EXCEPT ![On(w)] = id]
  BY DEF InsertFollow
<1>4. UNCHANGED <<remote, approves, request, blocks, untold, crashes, history>>
  BY DEF InsertFollow
<1>5. /\ follow' \in [Pairs -> Rows]
      /\ \A q \in Pairs : q # On(w) => follow'[q] = follow[q]
  BY <1>3 DEF Inv, TypeOK, Fresh, Rows
<1>6. CASE Do(w, "follow")
  <2>1. CountUp({On(w)}) /\ task' = [task EXCEPT ![w] = Idle]
    BY <1>6 DEF InsertFollow, End
  <2>2. followers' \in [Accounts -> Nat] /\ following' \in [Accounts -> Nat]
    BY <2>1, Counting DEF Inv
  <2> QED
    BY <1>1, <1>2, <1>4, <1>5, <2>1, <2>2, WorkerKeeps, OtherTask, IdleTask
       DEF Inv, TypeOK, history, On
<1>7. CASE ~Do(w, "follow")
  <2> DEFINE x == [task[w] EXCEPT !.phase = "countBoth"]
  <2>1. task' = [task EXCEPT ![w] = x] /\ UNCHANGED counts
    BY <1>7 DEF InsertFollow, Goto
  <2>2. x \in Tasks /\ x.kind = task[w].kind /\ x.pair = task[w].pair /\ x.phase = "countBoth"
    <3>1. "countBoth" \in Phases
      BY DEF Phases
    <3> QED
      BY <1>1, <3>1, GotoTask DEF Inv
  <2> HIDE DEF x
  <2> QED
    BY <1>1, <1>2, <1>4, <1>5, <2>1, <2>2, WorkerKeeps, OtherTask
       DEF Inv, TypeOK, counts, history, On
<1> QED
  BY <1>6, <1>7

LEMMA CountImportKeeps ==
  ASSUME Inv, NEW w \in Workers, CountImport(w)
  PROVE  Inv'
<1>1. task[w] # Idle /\ task[w].kind \in {"import"} /\ task[w].phase = "countBoth"
  BY DEF CountImport, At, Idle
<1>2. /\ CountUp({On(w)}) /\ task' = [task EXCEPT ![w] = Idle]
      /\ UNCHANGED <<remote, approves, rows, untold, crashes, history>>
  BY DEF CountImport, End
<1>3. followers' \in [Accounts -> Nat] /\ following' \in [Accounts -> Nat]
  BY <1>2, Counting DEF Inv
<1> QED
  BY <1>1, <1>2, <1>3, WorkerKeeps, OtherTask, IdleTask DEF Inv, TypeOK, rows, history

-----------------------------------------------------------------------------
(* Unfollow, and the removal of rows. *)

LEMMA RemoveSeenFollowKeeps ==
  ASSUME Inv, NEW w \in Workers, RemoveSeenFollow(w)
  PROVE  Inv'
<1>1. task[w] # Idle /\ task[w].kind \in {"unfollow", "dropFollower"} /\ task[w].phase = "sawFollow"
  BY DEF RemoveSeenFollow, At, Idle
<1>2. /\ CountDown({On(w)})
      /\ follow' = follow \/ follow' = [follow EXCEPT ![On(w)] = None]
      /\ untold' = untold \/ untold' = untold \ {On(w)}
      /\ UNCHANGED <<remote, approves, request, blocks, crashes, overtaken>>
  BY DEF RemoveSeenFollow
<1>3. /\ follow' \in [Pairs -> Rows] /\ untold' \subseteq Pairs
      /\ \A q \in Pairs : follow'[q] # None => follow[q] # None
  BY <1>2, Erasing DEF Inv, TypeOK
<1>4. drifted' \in BOOLEAN
  BY DEF RemoveSeenFollow
<1>5. followers' \in [Accounts -> Nat] /\ following' \in [Accounts -> Nat]
  BY <1>2, Counting DEF Inv
<1>6. CASE Do(w, "unfollow")
  <2> DEFINE x == [task[w] EXCEPT !.phase = "seekRequest", !.seen = None]
  <2>1. task' = [task EXCEPT ![w] = x]
    BY <1>6 DEF RemoveSeenFollow
  <2>2. x \in Tasks /\ x.kind = task[w].kind /\ x.pair = task[w].pair /\ x.phase = "seekRequest"
    <3>1. "seekRequest" \in Phases /\ None \in Rows
      BY DEF Phases, Rows
    <3> QED
      BY <1>1, <3>1 DEF Inv, TypeOK, Tasks
  <2> HIDE DEF x
  <2> QED
    BY <1>1, <1>2, <1>3, <1>4, <1>5, <2>1, <2>2, WorkerKeeps, OtherTask DEF Inv, TypeOK
<1>7. CASE ~Do(w, "unfollow")
  <2>1. task' = [task EXCEPT ![w] = Idle]
    BY <1>7 DEF RemoveSeenFollow, End
  <2> QED
    BY <1>1, <1>2, <1>3, <1>4, <1>5, <2>1, WorkerKeeps, OtherTask, IdleTask DEF Inv, TypeOK
<1> QED
  BY <1>6, <1>7

LEMMA SeekRequestKeeps ==
  ASSUME Inv, NEW w \in Workers, SeekRequest(w)
  PROVE  Inv'
<1>1. task[w] # Idle /\ task[w].kind \in {"unfollow"} /\ task[w].phase = "seekRequest"
  BY DEF SeekRequest, At, Idle
<1>2. UNCHANGED <<remote, approves, rows, counts, untold, crashes, history>>
  BY DEF SeekRequest
<1>3. CASE request[On(w)] = None
  BY <1>1, <1>2, <1>3, EndKeeps, OtherTask DEF SeekRequest
<1>4. CASE request[On(w)] # None
  <2> DEFINE x == [task[w] EXCEPT !.phase = "sawRequest", !.seen = request[On(w)]]
  <2>1. task' = [task EXCEPT ![w] = x]
    BY <1>4 DEF SeekRequest
  <2>2. x \in Tasks /\ x.kind = task[w].kind /\ x.pair = task[w].pair /\ x.phase = "sawRequest"
    <3>1. "sawRequest" \in Phases /\ request[On(w)] \in Rows
      BY <1>1, TaskFacts DEF Phases, Inv, TypeOK, On
    <3> QED
      BY <1>1, <3>1 DEF Inv, TypeOK, Tasks
  <2> HIDE DEF x
  <2> QED
    BY <1>1, <1>2, <2>1, <2>2, TaskKeeps, OtherTask
<1> QED
  BY <1>3, <1>4

LEMMA DropSeenRequestKeeps ==
  ASSUME Inv, NEW w \in Workers, DropSeenRequest(w)
  PROVE  Inv'
<1>1. task[w] # Idle /\ task[w].kind \in {"unfollow", "inReject", "inUndo"} /\ task[w].phase = "sawRequest"
  BY DEF DropSeenRequest, At, Idle
<1>2. /\ request' = request \/ request' = [request EXCEPT ![On(w)] = None]
      /\ task' = [task EXCEPT ![w] = Idle]
      /\ UNCHANGED <<remote, approves, follow, blocks, counts, untold, crashes, history>>
  BY DEF DropSeenRequest, End
<1>3. /\ request' \in [Pairs -> Rows]
      /\ \A q \in Pairs : request'[q] # None => request[q] # None
  BY <1>2, Erasing DEF Inv, TypeOK
<1> QED
  BY <1>1, <1>2, <1>3, WorkerKeeps, OtherTask, IdleTask DEF Inv, TypeOK, counts, history

-----------------------------------------------------------------------------
(* Batches. *)

LEMMA AnswerKeeps ==
  ASSUME Inv, NEW p \in Pairs, Authorize(p) \/ RejectRequest(p)
  PROVE  Inv'
<1>1. /\ request[p] # None /\ request' = [request EXCEPT ![p] = None]
      /\ UNCHANGED <<remote, approves, blocks, untold, task, crashes, history>>
  BY DEF Authorize, RejectRequest
<1>2. follow' = follow \/ \E id \in Fresh(p) : follow' = [follow EXCEPT ![p] = id]
  BY DEF Authorize, RejectRequest
<1>3. follow' \in [Pairs -> Rows] /\ \A q \in Pairs : q # p => follow'[q] = follow[q]
  BY <1>2 DEF Inv, TypeOK, Fresh, Rows
<1>4. /\ request' \in [Pairs -> Rows]
      /\ \A q \in Pairs : request'[q] # None => request[q] # None
  BY <1>1 DEF Inv, TypeOK, Rows
<1>5. followers' \in [Accounts -> Nat] /\ following' \in [Accounts -> Nat]
  <2>1. CountUp({p}) \/ UNCHANGED counts
    BY DEF Authorize, RejectRequest
  <2>2. CASE CountUp({p})
    BY <2>2, Counting DEF Inv
  <2>3. CASE UNCHANGED counts
    BY <2>3 DEF counts, Inv, TypeOK
  <2> QED
    BY <2>1, <2>2, <2>3
<1>6. TypeOK'
  BY <1>1, <1>3, <1>4, <1>5 DEF Inv, TypeOK, history
<1>7. Sane'
  BY <1>1 DEF Inv, Sane, FromInbox, Local
<1>8. Severed'
  <2>1. \A q \in Pairs : (OnItsWay(q)' => OnItsWay(q)) /\ (Deleting(q) => Deleting(q)')
    BY <1>1 DEF OnItsWay, On, Deleting, YetToDelete
  <2> QED
    BY <1>1, <1>3, <1>4, <2>1, SeveredStep DEF Inv, history
<1> QED
  BY <1>6, <1>7, <1>8 DEF Inv

\* createBlock ends what is there, and names what is on its way.
LEMMA CreateBlockKeeps ==
  ASSUME Inv, NEW p \in Pairs, CreateBlock(p)
  PROVE  Inv'
<1> DEFINE both == {p, Reverse(p)}
           ended == {q \in both : follow[q] # None}
<1>1. /\ blocks' = blocks \cup {p}
      /\ follow' = [q \in Pairs |-> IF q \in both THEN None ELSE follow[q]]
      /\ request' = [q \in Pairs |-> IF q \in both THEN None ELSE request[q]]
      /\ untold' = untold \ both
      /\ CountDown(ended)
      /\ overtaken' = (overtaken \ both) \cup {q \in both : OnItsWay(q)}
      /\ UNCHANGED <<remote, approves, task, crashes>>
  BY DEF CreateBlock
<1>2. drifted' \in BOOLEAN
  BY DEF CreateBlock
<1>3. both \subseteq Pairs
  BY DEF Pairs, Reverse
<1>4. followers' \in [Accounts -> Nat] /\ following' \in [Accounts -> Nat]
  BY <1>1, Counting DEF Inv
<1>5. \A q \in Pairs : q \notin both => (BlockedPair(q)' <=> BlockedPair(q))
  BY <1>1 DEF BlockedPair, Reverse, Pairs
<1> HIDE DEF both, ended
<1>6. TypeOK'
  BY <1>1, <1>2, <1>3, <1>4 DEF Inv, TypeOK, Rows
<1>7. Sane'
  BY <1>1 DEF Inv, Sane, FromInbox, Local
<1>8. Severed'
  <2>1. \A q \in Pairs : (OnItsWay(q)' <=> OnItsWay(q)) /\ (Deleting(q) <=> Deleting(q)')
    BY <1>1 DEF OnItsWay, On, Deleting, YetToDelete
  <2> SUFFICES ASSUME NEW q \in Pairs, BlockedPair(q)'
               PROVE  /\ OnItsWay(q)' \/ request'[q] # None => q \in overtaken'
                      /\ follow'[q] # None => q \in overtaken' \/ Deleting(q)'
    BY DEF Severed
  <2>2. CASE q \in both
    BY <1>1, <2>1, <2>2
  <2>3. CASE q \notin both
    BY <1>1, <1>5, <2>1, <2>3 DEF Inv, Severed
  <2> QED
    BY <2>2, <2>3
<1> QED
  BY <1>6, <1>7, <1>8 DEF Inv

LEMMA RemoveBlockKeeps ==
  ASSUME Inv, NEW p \in Pairs, RemoveBlock(p)
  PROVE  Inv'
<1>1. /\ blocks' = blocks \ {p}
      /\ overtaken' = IF Reverse(p) \in blocks THEN overtaken ELSE overtaken \ {p, Reverse(p)}
      /\ UNCHANGED <<remote, approves, follow, request, counts, untold, task, crashes, drifted>>
  BY DEF RemoveBlock
<1>2. TypeOK'
  BY <1>1 DEF Inv, TypeOK, counts
<1>3. Sane'
  BY <1>1 DEF Inv, Sane, FromInbox, Local
<1>4. \A q \in Pairs : BlockedPair(q)' =>
        BlockedPair(q) /\ (q \in overtaken => q \in overtaken')
  <2> SUFFICES ASSUME NEW q \in Pairs, BlockedPair(q)'
               PROVE  BlockedPair(q) /\ (q \in overtaken => q \in overtaken')
    OBVIOUS
  <2>1. BlockedPair(q)
    BY <1>1 DEF BlockedPair
  <2>2. Reverse(p) # p /\ Reverse(Reverse(p)) = p
    BY DEF Reverse, Pairs
  <2>3. CASE q \in {p, Reverse(p)}
    BY <1>1, <2>2, <2>3 DEF BlockedPair
  <2>4. CASE q \notin {p, Reverse(p)}
    BY <1>1, <2>1, <2>4
  <2> QED
    BY <2>1, <2>3, <2>4
<1>5. Severed'
  <2>1. \A q \in Pairs : (OnItsWay(q)' <=> OnItsWay(q)) /\ (Deleting(q) <=> Deleting(q)')
    BY <1>1 DEF OnItsWay, On, Deleting, YetToDelete
  <2> QED
    BY <1>1, <1>4, <2>1 DEF Inv, Severed
<1> QED
  BY <1>2, <1>3, <1>5 DEF Inv

-----------------------------------------------------------------------------
(* Activities from the inbox. *)

LEMMA InFollowDuplicateKeeps ==
  ASSUME Inv, NEW w \in Workers, InFollowDuplicate(w)
  PROVE  Inv'
<1>1. task[w] # Idle /\ task[w].kind \in {"inFollow"} /\ task[w].phase = "checked"
  BY DEF InFollowDuplicate, At, Idle
<1> QED
  BY <1>1, EndKeeps, OtherTask DEF InFollowDuplicate

LEMMA InFollowInsertKeeps ==
  ASSUME Inv, NEW w \in Workers, InFollowInsert(w)
  PROVE  Inv'
<1>1. task[w] # Idle /\ task[w].kind \in {"inFollow"} /\ task[w].phase = "checked"
  BY DEF InFollowInsert, At, Idle
<1>2. Heading(task[w])
  BY <1>1 DEF Heading
<1>3. PICK id \in Fresh(On(w)) : follow' = [follow EXCEPT ![On(w)] = id]
  BY DEF InFollowInsert
<1>4. /\ untold' = untold \cup {On(w)}
      /\ UNCHANGED <<remote, approves, request, blocks, counts, crashes, history>>
  BY DEF InFollowInsert
<1>5. /\ follow' \in [Pairs -> Rows] /\ untold' \subseteq Pairs
      /\ \A q \in Pairs : q # On(w) => follow'[q] = follow[q]
  <2>1. On(w) \in Pairs
    BY <1>1, TaskFacts DEF Inv, On
  <2> QED
    BY <1>3, <1>4, <2>1 DEF Inv, TypeOK, Fresh, Rows
<1> DEFINE x == [task[w] EXCEPT !.phase = "count1"]
<1>6. task' = [task EXCEPT ![w] = x]
  BY DEF InFollowInsert, Goto
<1>7. x \in Tasks /\ x.kind = task[w].kind /\ x.pair = task[w].pair /\ x.phase = "count1"
  <2>1. "count1" \in Phases
    BY DEF Phases
  <2> QED
    BY <1>1, <2>1, GotoTask DEF Inv
<1> HIDE DEF x
<1> QED
  BY <1>1, <1>2, <1>4, <1>5, <1>6, <1>7, WorkerKeeps, OtherTask
     DEF Inv, TypeOK, counts, history, On

LEMMA CountFollowerKeeps ==
  ASSUME Inv, NEW w \in Workers, CountFollower(w)
  PROVE  Inv'
<1>1. task[w] # Idle /\ task[w].kind \in {"inFollow", "inAccept"}
  BY DEF CountFollower, At, Idle
<1>2. /\ followers' = [followers EXCEPT ![On(w)[2]] = @ + 1]
      /\ UNCHANGED <<remote, approves, rows, following, untold, crashes, history>>
  BY DEF CountFollower
<1>3. followers' \in [Accounts -> Nat]
  <2>1. \A a \in Accounts : followers[a] + 1 \in Nat
    BY DEF Inv, TypeOK
  <2>2. On(w)[2] \in Accounts
    BY <1>1, TaskFacts DEF Inv, On
  <2> QED
    BY <1>2, <2>1, <2>2 DEF Inv, TypeOK
<1>4. CASE At(w, {"inFollow"}, "count1") /\ Goto(w, "count2")
  <2> DEFINE x == [task[w] EXCEPT !.phase = "count2"]
  <2>1. task' = [task EXCEPT ![w] = x]
    BY <1>4 DEF Goto
  <2>2. x \in Tasks /\ x.kind = task[w].kind /\ x.pair = task[w].pair /\ x.phase = "count2"
    <3>1. "count2" \in Phases
      BY DEF Phases
    <3> QED
      BY <1>1, <3>1, GotoTask DEF Inv
  <2> HIDE DEF x
  <2> QED
    BY <1>1, <1>2, <1>3, <2>1, <2>2, WorkerKeeps, OtherTask DEF Inv, TypeOK, rows, history
<1>5. CASE At(w, {"inAccept"}, "count2") /\ End(w)
  <2>1. task' = [task EXCEPT ![w] = Idle]
    BY <1>5 DEF End
  <2> QED
    BY <1>1, <1>2, <1>3, <2>1, WorkerKeeps, OtherTask, IdleTask DEF Inv, TypeOK, rows, history
<1> QED
  BY <1>4, <1>5 DEF CountFollower

LEMMA CountFollowingKeeps ==
  ASSUME Inv, NEW w \in Workers, CountFollowing(w)
  PROVE  Inv'
<1>1. task[w] # Idle /\ task[w].kind \in {"inFollow", "inAccept"}
  BY DEF CountFollowing, At, Idle
<1>2. /\ following' = [following EXCEPT ![On(w)[1]] = @ + 1]
      /\ UNCHANGED <<remote, approves, rows, followers, untold, crashes, history>>
  BY DEF CountFollowing
<1>3. following' \in [Accounts -> Nat]
  <2>1. \A a \in Accounts : following[a] + 1 \in Nat
    BY DEF Inv, TypeOK
  <2>2. On(w)[1] \in Accounts
    BY <1>1, TaskFacts DEF Inv, On
  <2> QED
    BY <1>2, <2>1, <2>2 DEF Inv, TypeOK
<1>4. PICK phase \in {"count2", "tell"} : Goto(w, phase)
  BY DEF CountFollowing
<1> DEFINE x == [task[w] EXCEPT !.phase = phase]
<1>5. task' = [task EXCEPT ![w] = x]
  BY <1>4 DEF Goto
<1>6. x \in Tasks /\ x.kind = task[w].kind /\ x.pair = task[w].pair /\ x.phase = phase
  <2>1. phase \in Phases
    BY DEF Phases
  <2> QED
    BY <1>1, <2>1, GotoTask DEF Inv
<1> HIDE DEF x
<1> QED
  BY <1>1, <1>2, <1>3, <1>5, <1>6, WorkerKeeps, OtherTask DEF Inv, TypeOK, rows, history

LEMMA TellKeeps ==
  ASSUME Inv, NEW w \in Workers, Tell(w)
  PROVE  Inv'
<1>1. task[w] # Idle /\ task[w].kind = "inFollow"
  BY DEF Tell, At, Idle
<1>2. /\ untold' \subseteq untold /\ task' = [task EXCEPT ![w] = Idle]
      /\ UNCHANGED <<remote, approves, rows, counts, crashes, history>>
  BY DEF Tell, End
<1> QED
  BY <1>1, <1>2, WorkerKeeps, OtherTask, IdleTask DEF Inv, TypeOK, rows, counts, history

LEMMA AcceptMoveKeeps ==
  ASSUME Inv, NEW w \in Workers, AcceptMove(w)
  PROVE  Inv'
<1>1. task[w] # Idle /\ task[w].kind = "inAccept" /\ task[w].phase = "sawRequest"
  BY DEF AcceptMove, At, Idle
<1>2. UNCHANGED <<remote, approves, blocks, counts, untold, crashes, history>>
  BY DEF AcceptMove
<1>3. CASE request[On(w)] = task[w].seen /\ follow[On(w)] = None
  <2>1. request[On(w)] # None
    BY <1>1, <1>3 DEF Inv, Sane
  <2>2. PICK id \in Fresh(On(w)) : follow' = [follow EXCEPT ![On(w)] = id]
    BY <1>3 DEF AcceptMove
  <2>3. /\ follow' \in [Pairs -> Rows]
        /\ \A q \in Pairs : q # On(w) => follow'[q] = follow[q]
    BY <2>2 DEF Inv, TypeOK, Fresh, Rows
  <2>4. request' = [request EXCEPT ![On(w)] = None]
    BY <1>3 DEF AcceptMove
  <2>5. /\ request' \in [Pairs -> Rows]
        /\ \A q \in Pairs : request'[q] # None => request[q] # None
    BY <2>4, Erasing DEF Inv, TypeOK
  <2> DEFINE x == [task[w] EXCEPT !.phase = "count1", !.seen = None]
  <2>6. task' = [task EXCEPT ![w] = x]
    BY <1>3 DEF AcceptMove
  <2>7. x \in Tasks /\ x.kind = task[w].kind /\ x.pair = task[w].pair /\ x.phase = "count1"
    <3>1. "count1" \in Phases /\ None \in Rows
      BY DEF Phases, Rows
    <3> QED
      BY <1>1, <3>1 DEF Inv, TypeOK, Tasks
  <2> HIDE DEF x
  <2> QED
    BY <1>1, <1>2, <2>1, <2>3, <2>5, <2>6, <2>7, WorkerKeeps, OtherTask
       DEF Inv, TypeOK, counts, history, On
<1>4. CASE ~(request[On(w)] = task[w].seen /\ follow[On(w)] = None)
  <2>1. End(w) /\ UNCHANGED <<follow, request>>
    BY <1>4 DEF AcceptMove
  <2> QED
    BY <1>1, <1>2, <2>1, EndKeeps, OtherTask DEF rows
<1> QED
  BY <1>3, <1>4

LEMMA UndoSeenFollowKeeps ==
  ASSUME Inv, NEW w \in Workers, UndoSeenFollow(w)
  PROVE  Inv'
<1>1. task[w] # Idle /\ task[w].kind = "inUndo" /\ task[w].phase = "sawFollow"
  BY DEF UndoSeenFollow, At, Idle
<1>2. UNCHANGED <<remote, approves, request, blocks, counts, crashes, history>>
  BY DEF UndoSeenFollow
<1>3. CASE follow[On(w)] = task[w].seen
  <2>1. follow' = [follow EXCEPT ![On(w)] = None] /\ untold' \subseteq untold
    BY <1>3 DEF UndoSeenFollow
  <2>2. /\ follow' \in [Pairs -> Rows]
        /\ \A q \in Pairs : follow'[q] # None => follow[q] # None
    BY <2>1, Erasing DEF Inv, TypeOK
  <2> DEFINE x == [task[w] EXCEPT !.phase = "uncount", !.seen = None]
  <2>3. task' = [task EXCEPT ![w] = x]
    BY <1>3 DEF UndoSeenFollow
  <2>4. x \in Tasks /\ x.kind = task[w].kind /\ x.pair = task[w].pair /\ x.phase = "uncount"
    <3>1. "uncount" \in Phases /\ None \in Rows
      BY DEF Phases, Rows
    <3> QED
      BY <1>1, <3>1 DEF Inv, TypeOK, Tasks
  <2> HIDE DEF x
  <2> QED
    BY <1>1, <1>2, <2>1, <2>2, <2>3, <2>4, WorkerKeeps, OtherTask
       DEF Inv, TypeOK, counts, history
<1>4. CASE follow[On(w)] # task[w].seen
  <2>1. End(w) /\ UNCHANGED <<follow, untold>>
    BY <1>4 DEF UndoSeenFollow
  <2> QED
    BY <1>1, <1>2, <2>1, EndKeeps, OtherTask DEF rows
<1> QED
  BY <1>3, <1>4

LEMMA UndoCountKeeps ==
  ASSUME Inv, NEW w \in Workers, UndoCount(w)
  PROVE  Inv'
<1>1. task[w] # Idle /\ task[w].kind = "inUndo"
  BY DEF UndoCount, At, Idle
<1>2. /\ CountDown({On(w)}) /\ task' = [task EXCEPT ![w] = Idle]
      /\ UNCHANGED <<remote, approves, rows, untold, crashes, overtaken>>
  BY DEF UndoCount, End
<1>3. drifted' \in BOOLEAN
  BY DEF UndoCount
<1>4. followers' \in [Accounts -> Nat] /\ following' \in [Accounts -> Nat]
  BY <1>2, Counting DEF Inv
<1> QED
  BY <1>1, <1>2, <1>3, <1>4, WorkerKeeps, OtherTask, IdleTask DEF Inv, TypeOK, rows

-----------------------------------------------------------------------------
(* Block from the inbox. *)

LEMMA BlockPhases ==
  {"forward", "forward1", "forward2", "reverse", "reverse1", "reverse2", "requests",
   "checked", "queued"} \subseteq Phases
BY DEF Phases

\* The block names what is on its way and what was asked for; what is there
\* already it has yet to delete.
LEMMA InBlockInsertKeeps ==
  ASSUME Inv, NEW w \in Workers, InBlockInsert(w)
  PROVE  Inv'
<1>1. task[w] # Idle /\ task[w].kind = "inBlock" /\ task[w].phase = "checked"
  BY DEF InBlockInsert, At, Idle
<1>2. UNCHANGED <<remote, approves, follow, request, counts, untold, crashes, drifted>>
  BY DEF InBlockInsert
<1> DEFINE p == On(w)
           both == {p, Reverse(p)}
<1>3. CASE p \notin blocks
  <2>1. /\ blocks' = blocks \cup {p}
        /\ overtaken' = (overtaken \ both) \cup {q \in both : OnItsWay(q) \/ request[q] # None}
        /\ Goto(w, "forward")
    BY <1>3 DEF InBlockInsert
  <2> DEFINE x == [task[w] EXCEPT !.phase = "forward"]
  <2>2. task' = [task EXCEPT ![w] = x]
    BY <2>1 DEF Goto
  <2>3. x \in Tasks /\ x.kind = "inBlock" /\ x.pair = p /\ x.phase = "forward"
    BY <1>1, GotoTask, BlockPhases DEF Inv, On
  <2> HIDE DEF x
  <2>4. /\ task'[w] = x
        /\ \A v \in Workers : v # w => task'[v] = task[v]
    BY <2>2 DEF Inv, TypeOK
  <2>5. task' \in [Workers -> Tasks \cup {Idle}] /\ Sane'
    BY <1>1, <1>2, <2>2, <2>3, MoveTask DEF Inv, On
  <2>6. both \subseteq Pairs
    BY <1>1, TaskFacts DEF Inv, On
  <2>7. TypeOK'
    BY <1>2, <2>1, <2>5, <2>6 DEF Inv, TypeOK, counts
  <2>8. \A q \in Pairs : OnItsWay(q)' => OnItsWay(q)
    BY <2>3, <2>4 DEF OnItsWay, On
  <2>9. \A q \in Pairs : Deleting(q) => Deleting(q)'
    BY <1>1, <2>4 DEF Deleting, YetToDelete
  <2>10. x # Idle
    BY <2>3 DEF Idle
  <2>11. \A q \in both : Deleting(q)'
    BY <2>3, <2>4, <2>10 DEF Deleting, YetToDelete
  <2>12. \A q \in Pairs : q \notin both => (BlockedPair(q)' => BlockedPair(q))
    BY <2>1 DEF BlockedPair, Reverse, Pairs
  <2>13. Severed'
    <3> HIDE DEF both
    <3> SUFFICES ASSUME NEW q \in Pairs, BlockedPair(q)'
                 PROVE  /\ OnItsWay(q)' \/ request'[q] # None => q \in overtaken'
                        /\ follow'[q] # None => q \in overtaken' \/ Deleting(q)'
      BY DEF Severed
    <3>1. CASE q \in both
      BY <1>2, <2>1, <2>8, <2>11, <3>1
    <3>2. CASE q \notin both
      BY <1>2, <2>1, <2>8, <2>9, <2>12, <3>2 DEF Inv, Severed
    <3> QED
      BY <3>1, <3>2
  <2> QED
    BY <2>5, <2>7, <2>13 DEF Inv
<1>4. CASE p \in blocks
  <2>1. End(w) /\ UNCHANGED <<blocks, overtaken>>
    BY <1>4 DEF InBlockInsert
  <2>2. \A q \in Pairs : ~YetToDelete(task[w], q)
    BY <1>1 DEF YetToDelete
  <2> QED
    BY <1>1, <1>2, <2>1, <2>2, EndKeeps DEF rows, history
<1> QED
  BY <1>3, <1>4

LEMMA InBlockDeleteKeeps ==
  ASSUME Inv, NEW w \in Workers, InBlockDelete(w)
  PROVE  Inv'
<1>1. PICK side \in {"forward", "reverse"} :
        LET q == IF side = "forward" THEN On(w) ELSE Reverse(On(w)) IN
        /\ At(w, {"inBlock"}, side)
        /\ follow' = [follow EXCEPT ![q] = None]
        /\ untold' = untold \ {q}
        /\ Goto(w, CASE side = "forward" /\ follow[q] # None -> "forward1"
                     [] side = "forward" /\ follow[q] = None -> "reverse"
                     [] side = "reverse" /\ follow[q] # None -> "reverse1"
                     [] side = "reverse" /\ follow[q] = None -> "requests")
        /\ UNCHANGED <<remote, approves, request, blocks, counts, crashes, history>>
  BY DEF InBlockDelete
<1>2. task[w] # Idle /\ task[w].kind = "inBlock" /\ task[w].phase = side
  BY <1>1 DEF At, Idle
<1> DEFINE q == IF side = "forward" THEN On(w) ELSE Reverse(On(w))
<1>3. q \in Pairs
  BY <1>2, TaskFacts DEF Inv, On
<1>4. PICK phase \in {"forward1", "reverse", "reverse1", "requests"} :
        /\ Goto(w, phase)
        /\ side = "forward" => phase \in {"forward1", "reverse"}
  <2>1. CASE side = "forward"
    BY <1>1, <2>1
  <2>2. CASE side = "reverse"
    BY <1>1, <2>2
  <2> QED
    BY <2>1, <2>2
<1>5. /\ follow' \in [Pairs -> Rows] /\ follow'[q] = None
      /\ \A r \in Pairs : follow'[r] # None => follow[r] # None
  BY <1>1, <1>3, Erasing DEF Inv, TypeOK
<1>6. /\ untold' \subseteq untold
      /\ UNCHANGED <<remote, approves, request, blocks, counts, crashes, history>>
  BY <1>1
<1> DEFINE x == [task[w] EXCEPT !.phase = phase]
<1>7. task' = [task EXCEPT ![w] = x]
  BY <1>4 DEF Goto
<1>8. x \in Tasks /\ x.kind = task[w].kind /\ x.pair = task[w].pair /\ x.phase = phase
  <2>1. phase \in Phases
    BY BlockPhases
  <2> QED
    BY <1>2, <2>1, GotoTask DEF Inv
<1> HIDE DEF x
<1>9. x # Idle
  BY <1>2, <1>8 DEF Idle
<1>10. \A r \in Pairs : YetToDelete(task[w], r) /\ ~YetToDelete(x, r) => r = q
  BY <1>2, <1>4, <1>8, <1>9 DEF YetToDelete, On
<1> HIDE DEF q
<1> QED
  BY <1>2, <1>5, <1>6, <1>7, <1>8, <1>10, WorkerKeeps, OtherTask
     DEF Inv, TypeOK, counts, history

\* What counts down leaves as much to delete as before.
LEMMA InBlockCountKeeps ==
  ASSUME Inv, NEW w \in Workers, InBlockUncountFollowing(w) \/ InBlockUncountFollower(w)
  PROVE  Inv'
<1>1. PICK old \in {"forward1", "forward2", "reverse1", "reverse2"},
           phase \in {"forward2", "reverse", "reverse2", "requests"} :
        /\ At(w, {"inBlock"}, old) /\ Goto(w, phase)
        /\ old \in {"forward1", "forward2"} <=> phase \in {"forward2", "reverse"}
  BY DEF InBlockUncountFollowing, InBlockUncountFollower
<1>2. task[w] # Idle /\ task[w].kind = "inBlock" /\ task[w].phase = old
  BY <1>1 DEF At, Idle
<1>3. UNCHANGED <<remote, approves, rows, untold, crashes, overtaken>>
  BY DEF InBlockUncountFollowing, InBlockUncountFollower
<1>4. drifted' \in BOOLEAN
  BY DEF InBlockUncountFollowing, InBlockUncountFollower
<1>5. \A a \in Accounts : Less(followers[a]) \in Nat /\ Less(following[a]) \in Nat
  BY DEF Less, Inv, TypeOK
<1>6. followers' \in [Accounts -> Nat] /\ following' \in [Accounts -> Nat]
  <2>1. task[w].pair[1] \in Accounts /\ task[w].pair[2] \in Accounts
    BY <1>2, TaskFacts DEF Inv
  <2>2. CASE InBlockUncountFollowing(w)
    <3>1. PICK a \in Accounts : following' = [following EXCEPT ![a] = Less(@)]
      BY <2>1, <2>2 DEF InBlockUncountFollowing, On
    <3> QED
      BY <1>5, <2>2, <3>1 DEF InBlockUncountFollowing, Inv, TypeOK
  <2>3. CASE InBlockUncountFollower(w)
    <3>1. PICK a \in Accounts : followers' = [followers EXCEPT ![a] = Less(@)]
      BY <2>1, <2>3 DEF InBlockUncountFollower, On
    <3> QED
      BY <1>5, <2>3, <3>1 DEF InBlockUncountFollower, Inv, TypeOK
  <2> QED
    BY <2>2, <2>3
<1> DEFINE x == [task[w] EXCEPT !.phase = phase]
<1>7. task' = [task EXCEPT ![w] = x]
  BY <1>1 DEF Goto
<1>8. x \in Tasks /\ x.kind = task[w].kind /\ x.pair = task[w].pair /\ x.phase = phase
  <2>1. phase \in Phases
    BY BlockPhases
  <2> QED
    BY <1>2, <2>1, GotoTask DEF Inv
<1> HIDE DEF x
<1>9. x # Idle
  BY <1>2, <1>8 DEF Idle
<1>10. \A r \in Pairs : YetToDelete(task[w], r) => YetToDelete(x, r)
  BY <1>1, <1>2, <1>8, <1>9 DEF YetToDelete
<1> QED
  BY <1>2, <1>3, <1>4, <1>6, <1>7, <1>8, <1>10, WorkerKeeps, OtherTask
     DEF Inv, TypeOK, rows

LEMMA InBlockRequestsKeeps ==
  ASSUME Inv, NEW w \in Workers, InBlockRequests(w)
  PROVE  Inv'
<1>1. task[w] # Idle /\ task[w].kind = "inBlock" /\ task[w].phase = "requests"
  BY DEF InBlockRequests, At, Idle
<1> DEFINE both == {On(w), Reverse(On(w))}
<1>2. /\ request' = [q \in Pairs |-> IF q \in both THEN None ELSE request[q]]
      /\ task' = [task EXCEPT ![w] = Idle]
      /\ UNCHANGED <<remote, approves, follow, blocks, counts, untold, crashes, history>>
  BY DEF InBlockRequests, End
<1> HIDE DEF both
<1>3. /\ request' \in [Pairs -> Rows]
      /\ \A q \in Pairs : request'[q] # None => request[q] # None
  BY <1>2 DEF Inv, TypeOK, Rows
<1>4. \A q \in Pairs : ~YetToDelete(task[w], q)
  BY <1>1 DEF YetToDelete
<1> QED
  BY <1>1, <1>2, <1>3, <1>4, WorkerKeeps, IdleTask DEF Inv, TypeOK, counts, history

-----------------------------------------------------------------------------
(* Interruption and redelivery. *)

\* A Block that stops after its insertion names what it may leave behind.
LEMMA CrashKeeps ==
  ASSUME Inv, NEW w \in Workers, Crash(w)
  PROVE  Inv'
<1>1. task[w] # Idle /\ UNCHANGED <<remote, approves, rows, counts, untold>>
  BY DEF Crash
<1>2. crashes' \in 0 .. MaxCrashes /\ drifted' \in BOOLEAN
  <2>1. crashes < MaxCrashes /\ crashes' = crashes + 1 /\ crashes \in 0 .. MaxCrashes
    BY DEF Crash, Inv, TypeOK
  <2>2. crashes' \in 0 .. MaxCrashes
    BY <2>1, RelationshipsAssumption
  <2>3. drifted' \in BOOLEAN
    BY DEF Crash
  <2> QED
    BY <2>2, <2>3
<1>3. On(w) \in Pairs /\ Reverse(On(w)) \in Pairs
  BY <1>1, TaskFacts DEF Inv, On
<1>4. overtaken \subseteq overtaken' /\ overtaken' \subseteq Pairs
  BY <1>3 DEF Crash, Inv, TypeOK
<1>5. ASSUME NEW q \in Pairs, YetToDelete(task[w], q)
      PROVE  follow'[q] = None \/ q \in overtaken' \/ ~BlockedPair(q)
  <2>1. Do(w, "inBlock") /\ task[w].phase # "checked" /\ q \in {On(w), Reverse(On(w))}
    BY <1>5 DEF YetToDelete, Do, On
  <2>2. BlockedPair(q) <=> BlockedPair(On(w))
    BY <1>3, <2>1 DEF BlockedPair, Reverse, Pairs
  <2>3. follow[q] # None => Coming(q)
    BY DEF Coming
  <2> QED
    BY <1>1, <2>1, <2>2, <2>3 DEF Crash, rows
<1>6. CASE task[w].kind \in QueueKinds
  <2> DEFINE x == [task[w] EXCEPT !.phase = "queued", !.seen = None]
  <2>1. task' = [task EXCEPT ![w] = x]
    BY <1>6 DEF Crash
  <2>2. x \in Tasks /\ x.kind = task[w].kind /\ x.pair = task[w].pair /\ x.phase = "queued"
    <3>1. "queued" \in Phases /\ None \in Rows
      BY DEF Phases, Rows
    <3> QED
      BY <1>1, <3>1 DEF Inv, TypeOK, Tasks
  <2> HIDE DEF x
  <2> QED
    BY <1>1, <1>2, <1>4, <1>5, <2>1, <2>2, WorkerKeeps, OtherTask DEF Inv, TypeOK, rows, counts
<1>7. CASE task[w].kind \notin QueueKinds
  <2>1. task' = [task EXCEPT ![w] = Idle]
    BY <1>7 DEF Crash, End
  <2> QED
    BY <1>1, <1>2, <1>4, <1>5, <2>1, WorkerKeeps, IdleTask DEF Inv, TypeOK, rows, counts
<1> QED
  BY <1>6, <1>7

\* A task that runs again passes the check of the blocks again.
LEMMA RedeliverKeeps ==
  ASSUME Inv, NEW w \in Workers, Redeliver(w)
  PROVE  Inv'
<1>1. /\ task[w] # Idle /\ task[w].phase = "queued"
      /\ UNCHANGED <<remote, approves, rows, counts, untold, crashes, history>>
  BY DEF Redeliver
<1>2. \A q \in Pairs : ~YetToDelete(task[w], q)
  BY <1>1 DEF YetToDelete
<1>3. CASE End(w)
  BY <1>1, <1>2, <1>3, EndKeeps
<1>4. ASSUME NEW phase \in {"checked", "sawFollow", "sawRequest"}, NEW seen \in Rows,
             task' = [task EXCEPT ![w].phase = phase, ![w].seen = seen],
             task[w].kind \in {"follow", "import", "inFollow"} => ~BlockedPair(On(w)),
             phase = "sawRequest" => seen # None
      PROVE  Inv'
  <2> DEFINE x == [task[w] EXCEPT !.phase = phase, !.seen = seen]
  <2>1. task' = [task EXCEPT ![w] = x]
    BY <1>4
  <2>2. /\ x \in Tasks /\ x.kind = task[w].kind /\ x.pair = task[w].pair
        /\ x.phase = phase /\ x.seen = seen
    <3>1. phase \in Phases
      BY DEF Phases
    <3> QED
      BY <1>1, <3>1 DEF Inv, TypeOK, Tasks
  <2> HIDE DEF x
  <2> QED
    BY <1>1, <1>2, <1>4, <2>1, <2>2, TaskKeeps DEF Heading, On
<1>5. None \in Rows /\ request[On(w)] \in Rows /\ follow[On(w)] \in Rows
  BY <1>1, TaskFacts DEF Inv, TypeOK, On, Rows
<1> DEFINE Begun(phase, seen) ==
             task' = [task EXCEPT ![w].phase = phase, ![w].seen = seen]
<1>6. CASE Do(w, "import") \/ Do(w, "inFollow")
  <2>1. (~BlockedPair(On(w)) /\ Begun("checked", None)) \/ End(w)
    BY <1>6 DEF Redeliver, Do
  <2> QED
    BY <1>3, <1>4, <1>5, <2>1
<1>7. CASE Do(w, "inBlock")
  BY <1>4, <1>5, <1>7 DEF Redeliver, Do
<1>8. CASE task[w].kind \in {"inAccept", "inReject"}
  <2>1. (request[On(w)] # None /\ Begun("sawRequest", request[On(w)])) \/ End(w)
    BY <1>8 DEF Redeliver, Do
  <2> QED
    BY <1>3, <1>4, <1>5, <1>8, <2>1
<1>9. CASE Do(w, "inUndo")
  <2>1. \/ Begun("sawFollow", follow[On(w)])
        \/ request[On(w)] # None /\ Begun("sawRequest", request[On(w)])
        \/ End(w)
    BY <1>9 DEF Redeliver, Do
  <2> QED
    BY <1>3, <1>4, <1>5, <1>9, <2>1 DEF Do
<1> QED
  BY <1>6, <1>7, <1>8, <1>9 DEF Redeliver

LEMMA BeginKeeps ==
  ASSUME Inv, NEW w \in Workers, NEW p \in Pairs, Begin(w, p)
  PROVE  Inv'
<1>1. /\ {"follow", "import", "unfollow", "dropFollower", "inFollow", "inAccept", "inReject",
          "inUndo", "inBlock"} \subseteq ApiKinds \cup QueueKinds
      /\ {"checked", "sawFollow", "sawRequest", "seekRequest"} \subseteq Phases
  BY DEF ApiKinds, QueueKinds, Phases
<1>2. None \in Rows /\ follow[p] \in Rows /\ request[p] \in Rows
  BY DEF Inv, TypeOK, Rows
<1>3. CASE StartFollow(w, p)
  <2>1. PICK kind \in {"follow", "import"} : Start(w, kind, p, "checked", None)
    BY <1>3 DEF StartFollow
  <2>2. ~BlockedPair(p)
    BY <1>3 DEF StartFollow
  <2> QED
    BY <1>1, <1>2, <2>1, <2>2, StartKeeps
<1>4. CASE StartUnfollow(w, p)
  <2>1. \/ Start(w, "unfollow", p, "sawFollow", follow[p])
        \/ Start(w, "unfollow", p, "seekRequest", None)
    BY <1>4 DEF StartUnfollow
  <2> QED
    BY <1>1, <1>2, <2>1, StartKeeps
<1>5. CASE StartDropFollower(w, p)
  <2>1. Start(w, "dropFollower", p, "sawFollow", follow[p])
    BY <1>5 DEF StartDropFollower
  <2> QED
    BY <1>1, <1>2, <2>1, StartKeeps
<1>6. CASE StartInFollow(w, p)
  <2>1. Start(w, "inFollow", p, "checked", None) /\ ~BlockedPair(p) /\ FromInbox(p)
    BY <1>6 DEF StartInFollow
  <2> QED
    BY <1>1, <1>2, <2>1, StartKeeps
<1>7. CASE StartAnswer(w, p)
  <2>1. /\ request[p] # None
        /\ \/ Start(w, "inAccept", p, "sawRequest", request[p])
           \/ Start(w, "inReject", p, "sawRequest", request[p])
    BY <1>7 DEF StartAnswer
  <2> QED
    BY <1>1, <1>2, <2>1, StartKeeps
<1>8. CASE StartInUndo(w, p)
  <2>1. \/ Start(w, "inUndo", p, "sawFollow", follow[p])
        \/ Start(w, "inUndo", p, "sawRequest", request[p])
    BY <1>8 DEF StartInUndo
  <2> QED
    BY <1>1, <1>2, <2>1, StartKeeps
<1>9. CASE StartInBlock(w, p)
  <2>1. Start(w, "inBlock", p, "checked", None)
    BY <1>9 DEF StartInBlock
  <2> QED
    BY <1>1, <1>2, <2>1, StartKeeps
<1> QED
  BY <1>3, <1>4, <1>5, <1>6, <1>7, <1>8, <1>9 DEF Begin

-----------------------------------------------------------------------------
(* The theorems. *)

LEMMA StepKeeps ==
  ASSUME Inv, NEW w \in Workers, Step(w)
  PROVE  Inv'
BY FindFollowKeeps, FindRequestKeeps, InsertRefusedKeeps, InsertRequestKeeps,
   InsertFollowKeeps, CountImportKeeps, RemoveSeenFollowKeeps, SeekRequestKeeps,
   DropSeenRequestKeeps, InFollowDuplicateKeeps, InFollowInsertKeeps, CountFollowerKeeps,
   CountFollowingKeeps, TellKeeps, AcceptMoveKeeps, UndoSeenFollowKeeps, UndoCountKeeps,
   InBlockInsertKeeps, InBlockDeleteKeeps, InBlockCountKeeps, InBlockRequestsKeeps,
   CrashKeeps, RedeliverKeeps
   DEF Step

LEMMA NextInv == Inv /\ [Next]_vars => Inv'
<1> SUFFICES ASSUME Inv, [Next]_vars
             PROVE  Inv'
  OBVIOUS
<1>1. ASSUME NEW w \in Workers, Step(w)
      PROVE  Inv'
  BY <1>1, StepKeeps
<1>2. ASSUME NEW w \in Workers, NEW p \in Pairs, Begin(w, p)
      PROVE  Inv'
  BY <1>2, BeginKeeps
<1>3. ASSUME NEW p \in Pairs, Batch(p)
      PROVE  Inv'
  BY <1>3, AnswerKeeps, CreateBlockKeeps, RemoveBlockKeeps DEF Batch
<1>4. CASE UNCHANGED vars
  <2>1. TypeOK' /\ Sane'
    BY <1>4 DEF Inv, TypeOK, Sane, FromInbox, Local, vars, rows, counts, history
  <2>2. Severed'
    BY <1>4 DEF Inv, Severed, BlockedPair, OnItsWay, On, Deleting, YetToDelete,
                vars, rows, history
  <2> QED
    BY <2>1, <2>2 DEF Inv
<1> QED
  BY <1>1, <1>2, <1>3, <1>4 DEF Next

LEMMA SpecInv == Spec => []Inv
BY InitInv, NextInv, PTL DEF Spec

\* Every variable keeps its type: the counters stay natural numbers, for they
\* are floored, and rows only appear for pairs of two accounts.
THEOREM RelationshipsTyped == Spec => []TypeOK
<1>1. Inv => TypeOK
  BY DEF Inv
<1> QED
  BY <1>1, SpecInv, PTL

\* For any accounts, workers and interruptions, a follow between two accounts of
\* a block is one the block overtook, or one a Block is still deleting.
THEOREM BlocksSever == Spec => []BlockedPairsDoNotFollow
<1>1. Inv => BlockedPairsDoNotFollow
  <2> SUFFICES ASSUME Inv, NEW p \in Pairs, BlockedPair(p), follow[p] # None, p \notin overtaken
               PROVE  \E w \in Workers : task[w] # Idle /\ Do(w, "inBlock") /\ On(w) \in {p, Reverse(p)}
    BY DEF BlockedPairsDoNotFollow
  <2>1. PICK w \in Workers : YetToDelete(task[w], p)
    BY DEF Inv, Severed, Deleting
  <2>2. task[w] # Idle /\ Do(w, "inBlock") /\ (p = On(w) \/ p = Reverse(On(w)))
    BY <2>1 DEF YetToDelete, Do, On
  <2>3. On(w) \in {p, Reverse(p)}
    <3>1. On(w) \in Pairs
      BY <2>2, TaskFacts DEF Inv, On
    <3> QED
      BY <2>2, <3>1 DEF Reverse, Pairs
  <2> QED
    BY <2>2, <2>3
<1> QED
  BY <1>1, SpecInv, PTL

\* A step that makes p a follow of an account that answers its requests.
Consented(p) ==
  /\ follow[p] # follow'[p]
  /\ follow'[p] # None
  /\ NeedsAnswer(p)
  => request[p] # None /\ request'[p] = None

LEMMA StepConsents ==
  ASSUME Inv, NEW w \in Workers, Step(w), NEW p \in Pairs
  PROVE  Consented(p)
<1> SUFFICES ASSUME follow[p] # follow'[p], follow'[p] # None, NeedsAnswer(p)
             PROVE  request[p] # None /\ request'[p] = None
  BY DEF Consented
<1>1. \A q : follow' = [follow EXCEPT ![q] = None] => FALSE
  BY DEF Inv, TypeOK
<1>2. follow' # follow
  OBVIOUS
<1>3. InsertFollow(w) \/ InFollowInsert(w) \/ AcceptMove(w)
  BY <1>1, <1>2 DEF Step, FindFollow, FindRequest, InsertRefused, InsertRequest, CountImport,
     RemoveSeenFollow, SeekRequest, DropSeenRequest, InFollowDuplicate, InFollowRequest,
     CountFollower, CountFollowing, Tell, UndoSeenFollow, UndoCount, InBlockInsert,
     InBlockDelete, InBlockUncountFollowing, InBlockUncountFollower, InBlockRequests,
     Crash, Redeliver, rows
<1>4. CASE InsertFollow(w)
  <2>1. ~NeedsAnswer(On(w)) /\ \E id : follow' = [follow EXCEPT ![On(w)] = id]
    BY <1>4 DEF InsertFollow
  <2> QED
    BY <2>1 DEF Inv, TypeOK
<1>5. CASE InFollowInsert(w)
  <2>1. /\ On(w)[2] \notin approves /\ FromInbox(On(w))
        /\ \E id : follow' = [follow EXCEPT ![On(w)] = id]
    BY <1>5 DEF InFollowInsert, At, Inv, Sane, On
  <2>2. ~NeedsAnswer(On(w))
    BY <2>1 DEF NeedsAnswer, FromInbox, Local
  <2> QED
    BY <2>1, <2>2 DEF Inv, TypeOK
<1>6. CASE AcceptMove(w)
  <2>1. /\ request[On(w)] = task[w].seen /\ task[w].seen # None
        /\ request' = [request EXCEPT ![On(w)] = None]
        /\ \E id : follow' = [follow EXCEPT ![On(w)] = id]
    BY <1>2, <1>6 DEF AcceptMove, At, Inv, Sane
  <2>2. p = On(w)
    BY <2>1 DEF Inv, TypeOK
  <2> QED
    BY <2>1, <2>2 DEF Inv, TypeOK
<1> QED
  BY <1>3, <1>4, <1>5, <1>6

LEMMA BatchConsents ==
  ASSUME Inv, NEW b \in Pairs, Batch(b), NEW p \in Pairs
  PROVE  Consented(p)
<1> SUFFICES ASSUME follow[p] # follow'[p], follow'[p] # None, NeedsAnswer(p)
             PROVE  request[p] # None /\ request'[p] = None
  BY DEF Consented
<1>1. CASE Authorize(b)
  <2>1. request[b] # None /\ request' = [request EXCEPT ![b] = None]
    BY <1>1 DEF Authorize
  <2>2. \A q \in Pairs : q # b => follow'[q] = follow[q]
    BY <1>1 DEF Authorize, Inv, TypeOK
  <2> QED
    BY <2>1, <2>2 DEF Inv, TypeOK
<1>2. CASE CreateBlock(b)
  BY <1>2 DEF CreateBlock
<1>3. CASE RejectRequest(b) \/ RemoveBlock(b)
  BY <1>3 DEF RejectRequest, RemoveBlock
<1> QED
  BY <1>1, <1>2, <1>3 DEF Batch

\* For any accounts and workers, however tasks interleave and are interrupted,
\* nobody becomes a follower of an account that answers its requests but in the
\* step that consumes the request.
THEOREM ConsentIsAsked == Spec => FollowsByConsent
<1>1. Inv /\ [Next]_vars => [\A p \in Pairs : Consented(p)]_vars
  <2> SUFFICES ASSUME Inv, Next, NEW p \in Pairs
               PROVE  Consented(p)
    OBVIOUS
  <2>1. CASE \E w \in Workers, q \in Pairs : Begin(w, q)
    BY <2>1 DEF Begin, StartFollow, StartUnfollow, StartDropFollower, StartInFollow,
       StartAnswer, StartInUndo, StartInBlock, Start, rows, Consented
  <2> QED
    BY <2>1, StepConsents, BatchConsents DEF Next
<1> QED
  BY <1>1, SpecInv, PTL DEF Spec, FollowsByConsent, Consented

-----------------------------------------------------------------------------
(* The counters. *)

Fields == {"followers", "following"}
Side(f) == IF f = "followers" THEN 2 ELSE 1
Count(f) == IF f = "followers" THEN followers ELSE following

\* What a task t has still to count for account a.
Up(t, f, a) ==
  /\ t # Idle
  /\ a = t.pair[Side(f)]
  /\ \/ t.kind = "import" /\ t.phase = "countBoth"
     \/ t.kind \in {"inFollow", "inAccept"} /\ t.phase = "count1"
     \/ f = "followers" /\ t.kind = "inAccept" /\ t.phase = "count2"
     \/ f = "following" /\ t.kind = "inFollow" /\ t.phase = "count2"

Down(t, f, a) ==
  /\ t # Idle
  /\ \/ t.kind = "inUndo" /\ t.phase = "uncount" /\ a = t.pair[Side(f)]
     \/ t.kind = "inBlock" /\ t.phase = "forward1" /\ a = t.pair[Side(f)]
     \/ t.kind = "inBlock" /\ t.phase = "reverse1" /\ a = Reverse(t.pair)[Side(f)]
     \/ f = "followers" /\ t.kind = "inBlock" /\ t.phase = "forward2" /\ a = t.pair[2]
     \/ f = "followers" /\ t.kind = "inBlock" /\ t.phase = "reverse2" /\ a = t.pair[1]

Ups(f, a) == {w \in Workers : Up(task[w], f, a)}
Downs(f, a) == {w \in Workers : Down(task[w], f, a)}
Follows(f, a) == {p \in Pairs : p[Side(f)] = a /\ follow[p] # None}

Even(f, a) ==
  Count(f)[a] + Cardinality(Ups(f, a)) = Cardinality(Follows(f, a)) + Cardinality(Downs(f, a))

EvenInv == drifted \/ \A f \in Fields, a \in Accounts : Even(f, a)

\* A task that is to delete a follow has read one.
SeenInv ==
  \A w \in Workers :
    /\ task[w] # Idle /\ task[w].kind \in {"unfollow", "dropFollower", "inUndo"}
    /\ task[w].phase = "sawFollow"
    => task[w].seen # None

Bit(b) == IF b THEN 1 ELSE 0

\* The counter changes by what becomes of the row of pair p, and of the debt of
\* worker w that goes on to x.
Balances(f, a, w, x, p) ==
  Count(f)'[a] + Bit(Up(x, f, a)) + Bit(p[Side(f)] = a /\ follow[p] # None)
    + Bit(Down(task[w], f, a))
  = Count(f)[a] + Bit(Up(task[w], f, a)) + Bit(p[Side(f)] = a /\ follow'[p] # None)
    + Bit(Down(x, f, a))

LEMMA OwingTasks ==
  ASSUME NEW w \in Workers, NEW f \in Fields, NEW a \in Accounts
  PROVE  /\ OwesUp(w, f, a) <=> Up(task[w], f, a)
         /\ OwesDown(w, f, a) <=> Down(task[w], f, a)
BY DEF OwesUp, OwesDown, Up, Down, At, On, Fields, Side, Reverse

\* The size of a set changes by what becomes of the one element that may change.
LEMMA CardStep ==
  ASSUME NEW S, NEW T, IsFiniteSet(S), NEW x, \A y : y # x => (y \in S <=> y \in T)
  PROVE  /\ IsFiniteSet(T) /\ Cardinality(S) \in Nat /\ Cardinality(T) \in Nat
         /\ Cardinality(T) + Bit(x \in S) = Cardinality(S) + Bit(x \in T)
<1>1. CASE x \in S <=> x \in T
  <2>1. T = S
    BY <1>1
  <2> QED
    BY <1>1, <2>1, FS_CardinalityType DEF Bit
<1>2. CASE x \notin S /\ x \in T
  <2>1. T = S \cup {x}
    BY <1>2
  <2> QED
    BY <1>2, <2>1, FS_AddElement, FS_CardinalityType DEF Bit
<1>3. CASE x \in S /\ x \notin T
  <2>1. T = S \ {x}
    BY <1>3
  <2>2. Cardinality(T) = Cardinality(S) - 1 /\ IsFiniteSet(T)
    BY <1>3, <2>1, FS_RemoveElement
  <2>3. Cardinality(S) \in Nat /\ Cardinality(T) \in Nat
    BY <2>2, FS_CardinalityType
  <2> QED
    BY <1>3, <2>2, <2>3 DEF Bit
<1> QED
  BY <1>1, <1>2, <1>3

LEMMA FinitePairs ==
  ASSUME NEW f, NEW a
  PROVE  IsFiniteSet(Ups(f, a)) /\ IsFiniteSet(Downs(f, a)) /\ IsFiniteSet(Follows(f, a))
<1>1. IsFiniteSet(Accounts \X Accounts)
  BY RelationshipsAssumption, FS_Product
<1>2. Follows(f, a) \in SUBSET (Accounts \X Accounts)
  BY DEF Follows, Pairs
<1>3. Ups(f, a) \in SUBSET Workers /\ Downs(f, a) \in SUBSET Workers
  BY DEF Ups, Downs
<1> QED
  BY <1>1, <1>2, <1>3, RelationshipsAssumption, FS_Subset

LEMMA BitNat == \A b : Bit(b) \in Nat
BY DEF Bit

LEMMA Sums ==
  ASSUME NEW c \in Nat, NEW c1 \in Nat, NEW u \in Nat, NEW u1 \in Nat,
         NEW d \in Nat, NEW d1 \in Nat, NEW n \in Nat, NEW n1 \in Nat,
         NEW bu \in Nat, NEW bu1 \in Nat, NEW bd \in Nat, NEW bd1 \in Nat,
         NEW bn \in Nat, NEW bn1 \in Nat,
         u1 + bu = u + bu1, d1 + bd = d + bd1, n1 + bn = n + bn1, c + u = n + d,
         c1 + bu1 + bn + bd = c + bu + bn1 + bd1
  PROVE  c1 + u1 = n1 + d1
OBVIOUS

\* A worker goes from one task to another and the row of pair p changes: the
\* counter must change by the difference.
LEMMA EvenStep ==
  ASSUME TypeOK, NEW f \in Fields, NEW a \in Accounts, Even(f, a),
         NEW w \in Workers, NEW x, task' = [task EXCEPT ![w] = x],
         NEW p \in Pairs, \A q \in Pairs : q # p => follow'[q] = follow[q],
         Count(f)[a] \in Nat, Count(f)'[a] \in Nat,
         Balances(f, a, w, x, p)
  PROVE  Even(f, a)'
<1> DEFINE U == Ups(f, a)
           D == Downs(f, a)
           F == Follows(f, a)
<1>1. task'[w] = x /\ \A v \in Workers : v # w => task'[v] = task[v]
  BY DEF TypeOK
<1>2. /\ Ups(f, a)' = {v \in Workers : Up(task'[v], f, a)}
      /\ Downs(f, a)' = {v \in Workers : Down(task'[v], f, a)}
      /\ Follows(f, a)' = {q \in Pairs : q[Side(f)] = a /\ follow'[q] # None}
  BY DEF Ups, Downs, Follows, Up, Down
<1>3. PICK U1, D1, F1 : U1 = Ups(f, a)' /\ D1 = Downs(f, a)' /\ F1 = Follows(f, a)'
  OBVIOUS
<1>4. /\ w \in U <=> Up(task[w], f, a)
      /\ w \in U1 <=> Up(x, f, a)
      /\ w \in D <=> Down(task[w], f, a)
      /\ w \in D1 <=> Down(x, f, a)
      /\ p \in F <=> p[Side(f)] = a /\ follow[p] # None
      /\ p \in F1 <=> p[Side(f)] = a /\ follow'[p] # None
  BY <1>1, <1>2, <1>3 DEF Ups, Downs, Follows
<1>5. /\ \A v : v # w => (v \in U <=> v \in U1)
      /\ \A v : v # w => (v \in D <=> v \in D1)
  BY <1>1, <1>2, <1>3 DEF Ups, Downs
<1>6. \A q : q # p => (q \in F <=> q \in F1)
  BY <1>2, <1>3 DEF Follows
<1>7. IsFiniteSet(U) /\ IsFiniteSet(D) /\ IsFiniteSet(F)
  BY FinitePairs
<1>11. Count(f)[a] + Cardinality(U) = Cardinality(F) + Cardinality(D)
  BY DEF Even
<1> HIDE DEF U, D, F
<1>8. /\ Cardinality(U) \in Nat /\ Cardinality(U1) \in Nat
      /\ Cardinality(U1) + Bit(w \in U) = Cardinality(U) + Bit(w \in U1)
  BY <1>5, <1>7, CardStep
<1>9. /\ Cardinality(D) \in Nat /\ Cardinality(D1) \in Nat
      /\ Cardinality(D1) + Bit(w \in D) = Cardinality(D) + Bit(w \in D1)
  BY <1>5, <1>7, CardStep
<1>10. /\ Cardinality(F) \in Nat /\ Cardinality(F1) \in Nat
       /\ Cardinality(F1) + Bit(p \in F) = Cardinality(F) + Bit(p \in F1)
  BY <1>6, <1>7, CardStep
<1>12. PICK c, c1 \in Nat : c = Count(f)[a] /\ c1 = Count(f)'[a]
  OBVIOUS
<1>13. c1 + Bit(w \in U1) + Bit(p \in F) + Bit(w \in D)
         = c + Bit(w \in U) + Bit(p \in F1) + Bit(w \in D1)
  BY <1>4, <1>12 DEF Balances, Bit
<1>14. c1 + Cardinality(U1) = Cardinality(F1) + Cardinality(D1)
  <2>1. c + Cardinality(U) = Cardinality(F) + Cardinality(D)
    BY <1>11, <1>12
  <2>2. PICK bu, bu1, bd, bd1, bn, bn1 \in Nat :
          /\ bu = Bit(w \in U) /\ bu1 = Bit(w \in U1) /\ bd = Bit(w \in D)
          /\ bd1 = Bit(w \in D1) /\ bn = Bit(p \in F) /\ bn1 = Bit(p \in F1)
    BY BitNat
  <2>3. PICK u, u1, d, d1, n, n1 \in Nat :
          /\ u = Cardinality(U) /\ u1 = Cardinality(U1) /\ d = Cardinality(D)
          /\ d1 = Cardinality(D1) /\ n = Cardinality(F) /\ n1 = Cardinality(F1)
    BY <1>8, <1>9, <1>10
  <2>4. u1 + bu = u + bu1 /\ d1 + bd = d + bd1 /\ n1 + bn = n + bn1
    BY <1>8, <1>9, <1>10, <2>2, <2>3
  <2>5. c1 + bu1 + bn + bd = c + bu + bn1 + bd1
    BY <1>13, <2>2
  <2>6. c + u = n + d
    BY <2>1, <2>3
  <2>7. c1 + u1 = n1 + d1
    BY <2>4, <2>5, <2>6, Sums
  <2> QED
    BY <2>3, <2>7
<1> QED
  BY <1>3, <1>12, <1>14 DEF Even

Debts == {"countBoth", "count1", "count2", "uncount",
          "forward1", "forward2", "reverse1", "reverse2"}

EvenSteps == EvenInv /\ SeenInv

LEMMA IdleSeen == Idle.kind = "idle"
BY DEF Idle

LEMMA NoDebt ==
  ASSUME NEW t, t = Idle \/ t.phase \notin Debts
  PROVE  \A f, a : ~Up(t, f, a) /\ ~Down(t, f, a)
BY DEF Up, Down, Debts

LEMMA CountNat ==
  ASSUME followers \in [Accounts -> Nat], following \in [Accounts -> Nat],
         NEW f, NEW a \in Accounts
  PROVE  Count(f)[a] \in Nat
BY DEF Count

LEMMA RaiseEffect ==
  ASSUME TypeOK, NEW p \in Pairs, CountUp({p}), NEW f \in Fields, NEW a \in Accounts
  PROVE  Count(f)'[a] = Count(f)[a] + Bit(p[Side(f)] = a)
<1>1. /\ followers'[a] = IF p[2] = a THEN followers[a] + 1 ELSE followers[a]
      /\ following'[a] = IF p[1] = a THEN following[a] + 1 ELSE following[a]
  BY DEF CountUp
<1>2. followers[a] \in Nat /\ following[a] \in Nat
  BY DEF TypeOK
<1> QED
  BY <1>1, <1>2 DEF Count, Fields, Side, Bit

LEMMA LowerEffect ==
  ASSUME TypeOK, NEW p \in Pairs, CountDown({p}), ~Floored({p}),
         NEW f \in Fields, NEW a \in Accounts
  PROVE  Count(f)'[a] + Bit(p[Side(f)] = a) = Count(f)[a]
<1>1. /\ followers'[a] = IF p[2] = a THEN Less(followers[a]) ELSE followers[a]
      /\ following'[a] = IF p[1] = a THEN Less(following[a]) ELSE following[a]
  BY DEF CountDown
<1>2. followers[a] \in Nat /\ following[a] \in Nat
  BY DEF TypeOK
<1>3. (p[2] = a => followers[a] # 0) /\ (p[1] = a => following[a] # 0)
  BY DEF Floored
<1> QED
  BY <1>1, <1>2, <1>3 DEF Count, Fields, Side, Bit, Less

\* What is to show of a step of worker w: what the counters change by is what the
\* row of pair p and the debt of the task change by.
LEMMA WorkerEven ==
  ASSUME Inv, EvenSteps, NEW w \in Workers, NEW x, task' = [task EXCEPT ![w] = x],
         NEW p \in Pairs, \A q \in Pairs : q # p => follow'[q] = follow[q],
         followers' \in [Accounts -> Nat], following' \in [Accounts -> Nat],
         drifted => drifted',
         x # Idle /\ x.kind \in {"unfollow", "dropFollower", "inUndo"}
           /\ x.phase = "sawFollow" => x.seen # None,
         ~drifted' => \A f \in Fields, a \in Accounts : Balances(f, a, w, x, p)
  PROVE  EvenSteps'
<1>1. task'[w] = x /\ \A v \in Workers : v # w => task'[v] = task[v]
  BY DEF Inv, TypeOK
<1>2. SeenInv'
  BY <1>1 DEF EvenSteps, SeenInv
<1>3. ASSUME ~drifted', NEW f \in Fields, NEW a \in Accounts
      PROVE  Even(f, a)'
  <2>1. Even(f, a) /\ TypeOK
    BY <1>3 DEF EvenSteps, EvenInv, Inv
  <2>2. Count(f)[a] \in Nat
    BY <2>1, CountNat DEF TypeOK
  <2>3. Count(f)'[a] \in Nat
    BY DEF Count
  <2>4. Balances(f, a, w, x, p)
    BY <1>3
  <2> QED
    BY <2>1, <2>2, <2>3, <2>4, EvenStep
<1>4. EvenInv'
  BY <1>3 DEF EvenInv
<1> QED
  BY <1>2, <1>4 DEF EvenSteps

\* A task without debts goes on, and follows and counters stay.
LEMMA QuietEven ==
  ASSUME Inv, EvenSteps, NEW w \in Workers, NEW x, task' = [task EXCEPT ![w] = x],
         NEW p \in Pairs, UNCHANGED <<follow, counts>>, drifted => drifted',
         x # Idle /\ x.kind \in {"unfollow", "dropFollower", "inUndo"}
           /\ x.phase = "sawFollow" => x.seen # None,
         x = Idle \/ x.phase \notin Debts,
         task[w] = Idle \/ task[w].phase \notin Debts
  PROVE  EvenSteps'
<1>1. /\ followers' \in [Accounts -> Nat] /\ following' \in [Accounts -> Nat]
      /\ followers' = followers /\ following' = following /\ follow' = follow
  BY DEF Inv, TypeOK, counts
<1>2. ASSUME NEW f \in Fields, NEW a \in Accounts
      PROVE  Balances(f, a, w, x, p)
  <2>1. /\ ~Up(x, f, a) /\ ~Down(x, f, a)
        /\ ~Up(task[w], f, a) /\ ~Down(task[w], f, a)
    BY NoDebt
  <2>2. Count(f)' = Count(f)
    BY <1>1 DEF Count
  <2> QED
    BY <1>1, <2>1, <2>2 DEF Balances, Bit
<1> QED
  BY <1>1, <1>2, WorkerEven

\* Every task that reads, ends, inserts or deletes requests, places a block or is
\* told.
LEMMA QuietStepEven ==
  ASSUME Inv, EvenSteps, NEW w \in Workers,
         \/ FindFollow(w) \/ FindRequest(w) \/ InsertRefused(w) \/ InsertRequest(w)
         \/ SeekRequest(w) \/ DropSeenRequest(w) \/ InFollowDuplicate(w)
         \/ InFollowRequest(w) \/ Tell(w) \/ InBlockInsert(w) \/ InBlockRequests(w)
  PROVE  EvenSteps'
<1>1. /\ task[w] # Idle /\ UNCHANGED <<follow, counts, drifted>>
      /\ task[w].phase \in {"checked", "noFollow", "noRequest", "seekRequest", "sawRequest",
                            "tell", "requests"}
  BY DEF FindFollow, FindRequest, InsertRefused, InsertRequest, SeekRequest,
     DropSeenRequest, InFollowDuplicate, InFollowRequest, Tell, InBlockInsert,
     InBlockRequests, At, Idle, rows, counts, history
<1>2. task[w].pair \in Pairs /\ task[w] \in Tasks
  BY <1>1, TaskFacts DEF Inv
<1>3. task[w].phase \notin Debts
  BY <1>1 DEF Debts
<1>4. CASE End(w)
  <2>1. task' = [task EXCEPT ![w] = Idle]
    BY <1>4 DEF End
  <2> QED
    BY <1>1, <1>2, <1>3, <2>1, QuietEven
<1>5. ASSUME NEW phase \in {"noFollow", "noRequest", "forward"}, Goto(w, phase)
      PROVE  EvenSteps'
  <2> DEFINE x == [task[w] EXCEPT !.phase = phase]
  <2>1. x.phase = phase /\ task' = [task EXCEPT ![w] = x]
    BY <1>2, <1>5 DEF Goto, Tasks
  <2> HIDE DEF x
  <2>2. x.phase # "sawFollow" /\ x.phase \notin Debts
    BY <1>5, <2>1 DEF Debts
  <2> QED
    BY <1>1, <1>2, <1>3, <2>1, <2>2, QuietEven
<1>6. ASSUME SeekRequest(w), ~End(w)
      PROVE  EvenSteps'
  <2> DEFINE x == [task[w] EXCEPT !.phase = "sawRequest", !.seen = request[On(w)]]
  <2>1. x.phase = "sawRequest" /\ task' = [task EXCEPT ![w] = x]
    BY <1>2, <1>6 DEF SeekRequest, Tasks
  <2> HIDE DEF x
  <2>2. x.phase # "sawFollow" /\ x.phase \notin Debts
    BY <2>1 DEF Debts
  <2> QED
    BY <1>1, <1>2, <1>3, <2>1, <2>2, QuietEven
<1>7. \/ End(w) \/ SeekRequest(w)
      \/ \E phase \in {"noFollow", "noRequest", "forward"} : Goto(w, phase)
  BY DEF FindFollow, FindRequest, InsertRefused, InsertRequest, SeekRequest,
     DropSeenRequest, InFollowDuplicate, InFollowRequest, Tell, InBlockInsert,
     InBlockRequests
<1> QED
  BY <1>4, <1>5, <1>6, <1>7

\* Tasks that owe both counters of their pair.
LEMMA OwesBoth ==
  ASSUME NEW t, t # Idle
  PROVE  /\ \/ t.kind = "import" /\ t.phase = "countBoth"
            \/ t.kind \in {"inFollow", "inAccept"} /\ t.phase = "count1"
            => \A f, a : (Up(t, f, a) <=> t.pair[Side(f)] = a) /\ ~Down(t, f, a)
         /\ \/ t.kind = "inUndo" /\ t.phase = "uncount"
            \/ t.kind = "inBlock" /\ t.phase = "forward1"
            => \A f, a : ~Up(t, f, a) /\ (Down(t, f, a) <=> t.pair[Side(f)] = a)
         /\ t.kind = "inBlock" /\ t.phase = "reverse1"
            => \A f, a : ~Up(t, f, a) /\ (Down(t, f, a) <=> Reverse(t.pair)[Side(f)] = a)
BY DEF Up, Down

\* A row of pair p appears, and the task counts it, or owes it.
LEMMA InsertEven ==
  ASSUME Inv, EvenSteps, NEW w \in Workers, task[w] # Idle, task[w].phase \notin Debts,
         NEW x, task' = [task EXCEPT ![w] = x],
         NEW p \in Pairs, p = task[w].pair, follow[p] = None,
         NEW id \in Ids, follow' = [follow EXCEPT ![p] = id], drifted => drifted',
         \/ x = Idle /\ CountUp({p})
         \/ /\ x # Idle /\ x.pair = p /\ UNCHANGED counts
            /\ \/ x.kind = "import" /\ x.phase = "countBoth"
               \/ x.kind \in {"inFollow", "inAccept"} /\ x.phase = "count1"
  PROVE  EvenSteps'
<1>1. /\ follow'[p] = id /\ id # None
      /\ \A q \in Pairs : q # p => follow'[q] = follow[q]
  BY RelationshipsAssumption DEF Inv, TypeOK
<1>2. followers' \in [Accounts -> Nat] /\ following' \in [Accounts -> Nat]
  BY Counting DEF Inv, TypeOK, counts
<1>3. x # Idle /\ x.kind \in {"unfollow", "dropFollower", "inUndo"}
        /\ x.phase = "sawFollow" => x.seen # None
  OBVIOUS
<1>4. ASSUME NEW f \in Fields, NEW a \in Accounts
      PROVE  Balances(f, a, w, x, p)
  <2>1. Count(f)[a] \in Nat
    BY CountNat DEF Inv, TypeOK
  <2>2. ~Up(task[w], f, a) /\ ~Down(task[w], f, a)
    BY NoDebt
  <2>3. CASE x = Idle /\ CountUp({p})
    <3>1. Count(f)'[a] = Count(f)[a] + Bit(p[Side(f)] = a)
      BY <2>3, RaiseEffect DEF Inv
    <3>2. ~Up(x, f, a) /\ ~Down(x, f, a)
      BY <2>3, NoDebt
    <3> QED
      BY <1>1, <2>1, <2>2, <3>1, <3>2 DEF Balances, Bit
  <2>4. CASE /\ x # Idle /\ x.pair = p /\ UNCHANGED counts
             /\ \/ x.kind = "import" /\ x.phase = "countBoth"
                \/ x.kind \in {"inFollow", "inAccept"} /\ x.phase = "count1"
    <3>1. (Up(x, f, a) <=> p[Side(f)] = a) /\ ~Down(x, f, a)
      BY <2>4, OwesBoth
    <3>2. Count(f)' = Count(f)
      BY <2>4 DEF Count, counts
    <3> QED
      BY <1>1, <2>1, <2>2, <3>1, <3>2 DEF Balances, Bit
  <2> QED
    BY <2>3, <2>4
<1> QED
  BY <1>1, <1>2, <1>3, <1>4, WorkerEven

LEMMA InsertFollowEven ==
  ASSUME Inv, EvenSteps, NEW w \in Workers, InsertFollow(w)
  PROVE  EvenSteps'
<1>1. /\ task[w] # Idle /\ task[w].kind \in {"follow", "import"} /\ task[w].phase = "noRequest"
      /\ follow[On(w)] = None /\ UNCHANGED drifted
  BY DEF InsertFollow, At, Idle, history
<1>2. task[w] \in Tasks /\ task[w].pair \in Pairs /\ task[w].phase \notin Debts
  BY <1>1, TaskFacts DEF Inv, Debts
<1>3. PICK id \in Ids : follow' = [follow EXCEPT ![task[w].pair] = id]
  BY DEF InsertFollow, Fresh, On
<1>4. CASE task[w].kind = "follow"
  <2>1. CountUp({task[w].pair}) /\ task' = [task EXCEPT ![w] = Idle]
    BY <1>4 DEF InsertFollow, Do, End, On
  <2> QED
    BY <1>1, <1>2, <1>3, <2>1, InsertEven DEF On
<1>5. CASE task[w].kind # "follow"
  <2> DEFINE x == [task[w] EXCEPT !.phase = "countBoth"]
  <2>1. UNCHANGED counts /\ task' = [task EXCEPT ![w] = x]
    BY <1>5 DEF InsertFollow, Do, Goto
  <2>2. /\ x.kind = "import" /\ x.phase = "countBoth" /\ x.pair = task[w].pair
    BY <1>1, <1>2, <1>5 DEF Tasks
  <2> HIDE DEF x
  <2>3. x # Idle
    BY <2>2, IdleSeen
  <2> QED
    BY <1>1, <1>2, <1>3, <2>1, <2>2, <2>3, InsertEven DEF On
<1> QED
  BY <1>4, <1>5

LEMMA InFollowInsertEven ==
  ASSUME Inv, EvenSteps, NEW w \in Workers, InFollowInsert(w)
  PROVE  EvenSteps'
<1>1. /\ task[w] # Idle /\ task[w].kind = "inFollow" /\ task[w].phase = "checked"
      /\ follow[On(w)] = None /\ UNCHANGED <<drifted, counts>>
  BY DEF InFollowInsert, At, Idle, history
<1>2. task[w] \in Tasks /\ task[w].pair \in Pairs /\ task[w].phase \notin Debts
  BY <1>1, TaskFacts DEF Inv, Debts
<1>3. PICK id \in Ids : follow' = [follow EXCEPT ![task[w].pair] = id]
  BY DEF InFollowInsert, Fresh, On
<1> DEFINE x == [task[w] EXCEPT !.phase = "count1"]
<1>4. /\ task' = [task EXCEPT ![w] = x]
      /\ x.kind = "inFollow" /\ x.phase = "count1" /\ x.pair = task[w].pair
  BY <1>1, <1>2 DEF InFollowInsert, Goto, Tasks
<1> HIDE DEF x
<1>5. x # Idle
  BY <1>4, IdleSeen
<1> QED
  BY <1>1, <1>2, <1>3, <1>4, <1>5, InsertEven DEF On

LEMMA AcceptMoveEven ==
  ASSUME Inv, EvenSteps, NEW w \in Workers, AcceptMove(w)
  PROVE  EvenSteps'
<1>1. /\ task[w] # Idle /\ task[w].kind = "inAccept" /\ task[w].phase = "sawRequest"
      /\ UNCHANGED <<drifted, counts>>
  BY DEF AcceptMove, At, Idle, history
<1>2. task[w] \in Tasks /\ task[w].pair \in Pairs /\ task[w].phase \notin Debts
  BY <1>1, TaskFacts DEF Inv, Debts
<1>3. CASE End(w) /\ UNCHANGED <<follow, request>>
  <2>1. task' = [task EXCEPT ![w] = Idle]
    BY <1>3 DEF End
  <2> QED
    BY <1>1, <1>2, <1>3, <2>1, QuietEven
<1>4. CASE ~(End(w) /\ UNCHANGED <<follow, request>>)
  <2>1. follow[task[w].pair] = None
    BY <1>4 DEF AcceptMove, On
  <2>2. PICK id \in Ids : follow' = [follow EXCEPT ![task[w].pair] = id]
    BY <1>4 DEF AcceptMove, Fresh, On
  <2> DEFINE x == [task[w] EXCEPT !.phase = "count1", !.seen = None]
  <2>3. /\ task' = [task EXCEPT ![w] = x]
        /\ x.kind = "inAccept" /\ x.phase = "count1" /\ x.pair = task[w].pair
    BY <1>1, <1>2, <1>4 DEF AcceptMove, Tasks
  <2> HIDE DEF x
  <2>4. x # Idle
    BY <2>3, IdleSeen
  <2> QED
    BY <1>1, <1>2, <2>1, <2>2, <2>3, <2>4, InsertEven
<1> QED
  BY <1>3, <1>4

-----------------------------------------------------------------------------
(* Debts that are paid. *)

\* The counter changes by what the task owes less.
Pays(f, a, w, x) ==
  Count(f)'[a] + Bit(Up(x, f, a)) + Bit(Down(task[w], f, a))
  = Count(f)[a] + Bit(Up(task[w], f, a)) + Bit(Down(x, f, a))

LEMMA PaymentEven ==
  ASSUME Inv, EvenSteps, NEW w \in Workers, NEW x, task' = [task EXCEPT ![w] = x],
         NEW p \in Pairs, UNCHANGED follow, drifted => drifted',
         followers' \in [Accounts -> Nat], following' \in [Accounts -> Nat],
         x = Idle \/ x.phase # "sawFollow",
         ~drifted' => \A f \in Fields, a \in Accounts : Pays(f, a, w, x)
  PROVE  EvenSteps'
<1>1. ASSUME ~drifted', NEW f \in Fields, NEW a \in Accounts
      PROVE  Balances(f, a, w, x, p)
  <2>1. Count(f)[a] \in Nat /\ Count(f)'[a] \in Nat
    BY CountNat DEF Inv, TypeOK, Count
  <2>2. Count(f)'[a] + Bit(Up(x, f, a)) + Bit(Down(task[w], f, a))
             = Count(f)[a] + Bit(Up(task[w], f, a)) + Bit(Down(x, f, a))
    BY <1>1 DEF Pays
  <2>3. follow' = follow
    OBVIOUS
  <2> QED
    BY <2>1, <2>2, <2>3 DEF Balances, Bit
<1>2. \A q \in Pairs : q # p => follow'[q] = follow[q]
  OBVIOUS
<1>3. x # Idle /\ x.kind \in {"unfollow", "dropFollower", "inUndo"}
        /\ x.phase = "sawFollow" => x.seen # None
  OBVIOUS
<1>4. ~drifted' => \A f \in Fields, a \in Accounts : Balances(f, a, w, x, p)
  BY <1>1
<1> QED
  BY <1>2, <1>3, <1>4, WorkerEven

LEMMA CountImportEven ==
  ASSUME Inv, EvenSteps, NEW w \in Workers, CountImport(w)
  PROVE  EvenSteps'
<1>1. /\ task[w] # Idle /\ task[w].kind = "import" /\ task[w].phase = "countBoth"
      /\ CountUp({task[w].pair}) /\ task' = [task EXCEPT ![w] = Idle]
      /\ UNCHANGED <<follow, drifted>>
  BY DEF CountImport, At, Idle, history, rows, End, On
<1>2. task[w].pair \in Pairs
  BY <1>1, TaskFacts DEF Inv
<1>3. followers' \in [Accounts -> Nat] /\ following' \in [Accounts -> Nat]
  BY <1>1, Counting DEF Inv
<1>4. ASSUME NEW f \in Fields, NEW a \in Accounts
      PROVE  Pays(f, a, w, Idle)
  <2>1. Count(f)'[a] = Count(f)[a] + Bit(task[w].pair[Side(f)] = a)
    BY <1>1, <1>2, RaiseEffect DEF Inv
  <2>2. (Up(task[w], f, a) <=> task[w].pair[Side(f)] = a) /\ ~Down(task[w], f, a)
    BY <1>1, OwesBoth
  <2>3. ~Up(Idle, f, a) /\ ~Down(Idle, f, a) /\ Count(f)[a] \in Nat
    BY NoDebt, CountNat DEF Inv, TypeOK
  <2> QED
    BY <2>1, <2>2, <2>3 DEF Pays, Bit
<1> QED
  BY <1>1, <1>2, <1>3, <1>4, PaymentEven

LEMMA UndoCountEven ==
  ASSUME Inv, EvenSteps, NEW w \in Workers, UndoCount(w)
  PROVE  EvenSteps'
<1>1. /\ task[w] # Idle /\ task[w].kind = "inUndo" /\ task[w].phase = "uncount"
      /\ CountDown({task[w].pair}) /\ task' = [task EXCEPT ![w] = Idle]
      /\ UNCHANGED follow /\ drifted' = (drifted \/ Floored({task[w].pair}))
  BY DEF UndoCount, At, Idle, rows, End, On
<1>2. task[w].pair \in Pairs
  BY <1>1, TaskFacts DEF Inv
<1>3. followers' \in [Accounts -> Nat] /\ following' \in [Accounts -> Nat]
  BY <1>1, Counting DEF Inv
<1>4. ASSUME ~drifted', NEW f \in Fields, NEW a \in Accounts
      PROVE  Pays(f, a, w, Idle)
  <2>1. Count(f)'[a] + Bit(task[w].pair[Side(f)] = a) = Count(f)[a]
    BY <1>1, <1>2, <1>4, LowerEffect DEF Inv
  <2>2. ~Up(task[w], f, a) /\ (Down(task[w], f, a) <=> task[w].pair[Side(f)] = a)
    BY <1>1, OwesBoth
  <2>3. /\ ~Up(Idle, f, a) /\ ~Down(Idle, f, a)
        /\ Count(f)[a] \in Nat /\ Count(f)'[a] \in Nat
    BY <1>3, NoDebt, CountNat DEF Inv, TypeOK, Count
  <2> QED
    BY <2>1, <2>2, <2>3 DEF Pays, Bit
<1> QED
  BY <1>1, <1>2, <1>3, <1>4, PaymentEven

\* One counter of one account changes by one.
LEMMA OneCounter ==
  ASSUME NEW c \in [Accounts -> Nat], NEW b \in Accounts
  PROVE  /\ [c EXCEPT ![b] = c[b] + 1] \in [Accounts -> Nat]
         /\ [c EXCEPT ![b] = Less(c[b])] \in [Accounts -> Nat]
         /\ \A a \in Accounts :
              /\ [c EXCEPT ![b] = c[b] + 1][a] = c[a] + Bit(b = a)
              /\ c[b] # 0 => [c EXCEPT ![b] = Less(c[b])][a] + Bit(b = a) = c[a]
<1>1. c[b] + 1 \in Nat /\ Less(c[b]) \in Nat /\ (c[b] # 0 => Less(c[b]) + 1 = c[b])
  BY DEF Less
<1> QED
  BY <1>1 DEF Bit

LEMMA CountFollowerEven ==
  ASSUME Inv, EvenSteps, NEW w \in Workers, CountFollower(w)
  PROVE  EvenSteps'
<1>1. /\ task[w] # Idle /\ UNCHANGED <<follow, following, drifted>>
      /\ followers' = [followers EXCEPT ![task[w].pair[2]] = followers[task[w].pair[2]] + 1]
      /\ \/ task[w].kind = "inFollow" /\ task[w].phase = "count1" /\ Goto(w, "count2")
         \/ task[w].kind = "inAccept" /\ task[w].phase = "count2" /\ End(w)
  BY DEF CountFollower, At, Idle, rows, history, On
<1>2. /\ task[w] \in Tasks /\ task[w].pair \in Pairs /\ task[w].pair[2] \in Accounts
      /\ followers \in [Accounts -> Nat] /\ following \in [Accounts -> Nat]
  BY <1>1, TaskFacts DEF Inv, TypeOK
<1>3. /\ followers' \in [Accounts -> Nat] /\ following' \in [Accounts -> Nat]
      /\ \A a \in Accounts : followers'[a] = followers[a] + Bit(task[w].pair[2] = a)
  BY <1>1, <1>2, OneCounter
<1>4. CASE task[w].kind = "inFollow" /\ task[w].phase = "count1" /\ Goto(w, "count2")
  <2> DEFINE x == [task[w] EXCEPT !.phase = "count2"]
  <2>1. /\ task' = [task EXCEPT ![w] = x]
        /\ x.kind = "inFollow" /\ x.phase = "count2" /\ x.pair = task[w].pair
    BY <1>2, <1>4 DEF Goto, Tasks
  <2> HIDE DEF x
  <2>2. x # Idle
    BY <2>1, IdleSeen
  <2>3. ASSUME NEW f \in Fields, NEW a \in Accounts
        PROVE  Pays(f, a, w, x)
    <3>1. (Up(task[w], f, a) <=> task[w].pair[Side(f)] = a) /\ ~Down(task[w], f, a)
      BY <1>1, <1>4, OwesBoth
    <3>2. /\ Up(x, f, a) <=> f = "following" /\ task[w].pair[1] = a
          /\ ~Down(x, f, a)
      BY <2>1, <2>2 DEF Up, Down, Side
    <3>3. followers[a] \in Nat /\ following[a] \in Nat
      BY <1>2
    <3>4. CASE f = "followers"
      BY <1>3, <3>1, <3>2, <3>3, <3>4 DEF Pays, Bit, Count, Side
    <3>5. CASE f = "following"
      BY <1>1, <3>1, <3>2, <3>3, <3>5 DEF Pays, Bit, Count, Side
    <3> QED
      BY <3>4, <3>5 DEF Fields
  <2> QED
    BY <1>1, <1>2, <1>3, <2>1, <2>3, PaymentEven
<1>5. CASE task[w].kind = "inAccept" /\ task[w].phase = "count2" /\ End(w)
  <2>1. task' = [task EXCEPT ![w] = Idle]
    BY <1>5 DEF End
  <2>2. ASSUME NEW f \in Fields, NEW a \in Accounts
        PROVE  Pays(f, a, w, Idle)
    <3>1. /\ Up(task[w], f, a) <=> f = "followers" /\ task[w].pair[2] = a
          /\ ~Down(task[w], f, a)
      BY <1>1, <1>5 DEF Up, Down, Side
    <3>2. ~Up(Idle, f, a) /\ ~Down(Idle, f, a) /\ followers[a] \in Nat /\ following[a] \in Nat
      BY <1>2, NoDebt
    <3>3. CASE f = "followers"
      BY <1>3, <3>1, <3>2, <3>3 DEF Pays, Bit, Count
    <3>4. CASE f = "following"
      BY <1>1, <3>1, <3>2, <3>4 DEF Pays, Bit, Count
    <3> QED
      BY <3>3, <3>4 DEF Fields
  <2> QED
    BY <1>1, <1>2, <1>3, <2>1, <2>2, PaymentEven
<1> QED
  BY <1>1, <1>4, <1>5

LEMMA CountFollowingEven ==
  ASSUME Inv, EvenSteps, NEW w \in Workers, CountFollowing(w)
  PROVE  EvenSteps'
<1>1. /\ task[w] # Idle /\ UNCHANGED <<follow, followers, drifted>>
      /\ following' = [following EXCEPT ![task[w].pair[1]] = following[task[w].pair[1]] + 1]
      /\ \/ task[w].kind = "inAccept" /\ task[w].phase = "count1" /\ Goto(w, "count2")
         \/ task[w].kind = "inFollow" /\ task[w].phase = "count2" /\ Goto(w, "tell")
  BY DEF CountFollowing, At, Idle, rows, history, On
<1>2. /\ task[w] \in Tasks /\ task[w].pair \in Pairs /\ task[w].pair[1] \in Accounts
      /\ followers \in [Accounts -> Nat] /\ following \in [Accounts -> Nat]
  BY <1>1, TaskFacts DEF Inv, TypeOK
<1>3. /\ followers' \in [Accounts -> Nat] /\ following' \in [Accounts -> Nat]
      /\ \A a \in Accounts : following'[a] = following[a] + Bit(task[w].pair[1] = a)
  BY <1>1, <1>2, OneCounter
<1>4. CASE task[w].kind = "inAccept" /\ task[w].phase = "count1" /\ Goto(w, "count2")
  <2> DEFINE x == [task[w] EXCEPT !.phase = "count2"]
  <2>1. /\ task' = [task EXCEPT ![w] = x]
        /\ x.kind = "inAccept" /\ x.phase = "count2" /\ x.pair = task[w].pair
    BY <1>2, <1>4 DEF Goto, Tasks
  <2> HIDE DEF x
  <2>2. x # Idle
    BY <2>1, IdleSeen
  <2>3. ASSUME NEW f \in Fields, NEW a \in Accounts
        PROVE  Pays(f, a, w, x)
    <3>1. (Up(task[w], f, a) <=> task[w].pair[Side(f)] = a) /\ ~Down(task[w], f, a)
      BY <1>1, <1>4, OwesBoth
    <3>2. /\ Up(x, f, a) <=> f = "followers" /\ task[w].pair[2] = a
          /\ ~Down(x, f, a)
      BY <2>1, <2>2 DEF Up, Down, Side
    <3>3. followers[a] \in Nat /\ following[a] \in Nat
      BY <1>2
    <3>4. CASE f = "followers"
      BY <1>1, <3>1, <3>2, <3>3, <3>4 DEF Pays, Bit, Count, Side
    <3>5. CASE f = "following"
      BY <1>3, <3>1, <3>2, <3>3, <3>5 DEF Pays, Bit, Count, Side
    <3> QED
      BY <3>4, <3>5 DEF Fields
  <2> QED
    BY <1>1, <1>2, <1>3, <2>1, <2>3, PaymentEven
<1>5. CASE task[w].kind = "inFollow" /\ task[w].phase = "count2" /\ Goto(w, "tell")
  <2> DEFINE x == [task[w] EXCEPT !.phase = "tell"]
  <2>1. task' = [task EXCEPT ![w] = x] /\ x.phase = "tell"
    BY <1>2, <1>5 DEF Goto, Tasks
  <2> HIDE DEF x
  <2>2. ASSUME NEW f \in Fields, NEW a \in Accounts
        PROVE  Pays(f, a, w, x)
    <3>1. /\ Up(task[w], f, a) <=> f = "following" /\ task[w].pair[1] = a
          /\ ~Down(task[w], f, a)
      BY <1>1, <1>5 DEF Up, Down, Side
    <3>2. ~Up(x, f, a) /\ ~Down(x, f, a) /\ followers[a] \in Nat /\ following[a] \in Nat
      BY <1>2, <2>1, NoDebt DEF Debts
    <3>3. CASE f = "followers"
      BY <1>1, <3>1, <3>2, <3>3 DEF Pays, Bit, Count
    <3>4. CASE f = "following"
      BY <1>3, <3>1, <3>2, <3>4 DEF Pays, Bit, Count
    <3> QED
      BY <3>3, <3>4 DEF Fields
  <2> QED
    BY <1>1, <1>2, <1>3, <2>1, <2>2, PaymentEven
<1> QED
  BY <1>1, <1>4, <1>5

\* What a Block still owes after one direction's delete, one counter after the other.
LEMMA BlockDebts ==
  ASSUME NEW t, t # Idle, t.kind = "inBlock", NEW f \in Fields, NEW a
  PROVE  /\ ~Up(t, f, a)
         /\ t.phase = "forward1" => (Down(t, f, a) <=> t.pair[Side(f)] = a)
         /\ t.phase = "reverse1" => (Down(t, f, a) <=> Reverse(t.pair)[Side(f)] = a)
         /\ t.phase = "forward2" => (Down(t, f, a) <=> f = "followers" /\ t.pair[2] = a)
         /\ t.phase = "reverse2" => (Down(t, f, a) <=> f = "followers" /\ t.pair[1] = a)
         /\ t.phase \in {"reverse", "requests"} => ~Down(t, f, a)
BY DEF Up, Down

LEMMA InBlockUncountFollowingEven ==
  ASSUME Inv, EvenSteps, NEW w \in Workers, InBlockUncountFollowing(w)
  PROVE  EvenSteps'
<1>1. /\ task[w] # Idle /\ task[w].kind = "inBlock" /\ UNCHANGED <<follow, followers>>
  BY DEF InBlockUncountFollowing, At, Idle, rows
<1>2. PICK b, c \in Accounts, from, to \in Phases :
        /\ \/ /\ from = "forward1" /\ to = "forward2"
              /\ b = task[w].pair[1] /\ c = task[w].pair[2]
           \/ /\ from = "reverse1" /\ to = "reverse2"
              /\ b = task[w].pair[2] /\ c = task[w].pair[1]
        /\ task[w].phase = from /\ Goto(w, to)
        /\ following' = [following EXCEPT ![b] = Less(following[b])]
        /\ drifted' = (drifted \/ following[b] = 0)
  BY <1>1, TaskFacts DEF InBlockUncountFollowing, At, On, Inv, Phases
<1>3. /\ task[w] \in Tasks /\ task[w].pair \in Pairs
      /\ followers \in [Accounts -> Nat] /\ following \in [Accounts -> Nat]
  BY <1>1, TaskFacts DEF Inv, TypeOK
<1>4. /\ followers' \in [Accounts -> Nat] /\ following' \in [Accounts -> Nat]
      /\ following[b] # 0 => \A a \in Accounts : following'[a] + Bit(b = a) = following[a]
  BY <1>1, <1>2, <1>3, OneCounter
<1> DEFINE x == [task[w] EXCEPT !.phase = to]
<1>5. /\ task' = [task EXCEPT ![w] = x]
      /\ x.kind = "inBlock" /\ x.phase = to /\ x.pair = task[w].pair
  BY <1>1, <1>2, <1>3 DEF Goto, Tasks
<1> HIDE DEF x
<1>6. x # Idle
  BY <1>5, IdleSeen
<1>7. ASSUME ~drifted', NEW f \in Fields, NEW a \in Accounts
      PROVE  Pays(f, a, w, x)
  <2>1. following'[a] + Bit(b = a) = following[a]
    BY <1>2, <1>4, <1>7
  <2>2. ~Up(task[w], f, a) /\ ~Up(x, f, a)
    BY <1>1, <1>5, <1>6, BlockDebts
  <2>3. /\ followers[a] \in Nat /\ following[a] \in Nat /\ following'[a] \in Nat
        /\ followers'[a] = followers[a]
    BY <1>1, <1>3, <1>4
  <2>4. Down(task[w], f, a) <=> IF f = "followers" THEN c = a ELSE b = a
    <3>1. CASE from = "forward1"
      <4>1. Down(task[w], f, a) <=> task[w].pair[Side(f)] = a
        BY <1>1, <1>2, <3>1, BlockDebts
      <4> QED
        BY <1>2, <3>1, <4>1 DEF Side
    <3>2. CASE from = "reverse1"
      <4>1. Down(task[w], f, a) <=> Reverse(task[w].pair)[Side(f)] = a
        BY <1>1, <1>2, <3>2, BlockDebts
      <4>2. /\ Reverse(task[w].pair)[1] = task[w].pair[2]
            /\ Reverse(task[w].pair)[2] = task[w].pair[1]
        BY DEF Reverse
      <4> HIDE DEF Reverse
      <4> QED
        BY <1>2, <3>2, <4>1, <4>2 DEF Side
    <3> QED
      BY <1>2, <3>1, <3>2
  <2>5. Down(x, f, a) <=> f = "followers" /\ c = a
    <3>1. CASE from = "forward1"
      <4>1. x.phase = "forward2" /\ c = x.pair[2]
        BY <1>2, <1>5, <3>1
      <4> QED
        BY <1>5, <1>6, <4>1, BlockDebts
    <3>2. CASE from = "reverse1"
      <4>1. x.phase = "reverse2" /\ c = x.pair[1]
        BY <1>2, <1>5, <3>2
      <4> QED
        BY <1>5, <1>6, <4>1, BlockDebts
    <3> QED
      BY <1>2, <3>1, <3>2
  <2>6. CASE f = "followers"
    BY <2>2, <2>3, <2>4, <2>5, <2>6 DEF Pays, Bit, Count
  <2>7. CASE f = "following"
    BY <2>1, <2>2, <2>3, <2>4, <2>5, <2>7 DEF Pays, Bit, Count
  <2> QED
    BY <2>6, <2>7 DEF Fields
<1>8. x.phase # "sawFollow"
  BY <1>2, <1>5
<1> QED
  BY <1>1, <1>2, <1>3, <1>4, <1>5, <1>7, <1>8, PaymentEven

LEMMA InBlockUncountFollowerEven ==
  ASSUME Inv, EvenSteps, NEW w \in Workers, InBlockUncountFollower(w)
  PROVE  EvenSteps'
<1>1. /\ task[w] # Idle /\ task[w].kind = "inBlock" /\ UNCHANGED <<follow, following>>
  BY DEF InBlockUncountFollower, At, Idle, rows
<1>2. PICK b \in Accounts, from, to \in Phases :
        /\ \/ from = "forward2" /\ to = "reverse" /\ b = task[w].pair[2]
           \/ from = "reverse2" /\ to = "requests" /\ b = task[w].pair[1]
        /\ task[w].phase = from /\ Goto(w, to)
        /\ followers' = [followers EXCEPT ![b] = Less(followers[b])]
        /\ drifted' = (drifted \/ followers[b] = 0)
  BY <1>1, TaskFacts DEF InBlockUncountFollower, At, On, Inv, Phases
<1>3. /\ task[w] \in Tasks /\ task[w].pair \in Pairs
      /\ followers \in [Accounts -> Nat] /\ following \in [Accounts -> Nat]
  BY <1>1, TaskFacts DEF Inv, TypeOK
<1>4. /\ followers' \in [Accounts -> Nat] /\ following' \in [Accounts -> Nat]
      /\ followers[b] # 0 => \A a \in Accounts : followers'[a] + Bit(b = a) = followers[a]
  BY <1>1, <1>2, <1>3, OneCounter
<1> DEFINE x == [task[w] EXCEPT !.phase = to]
<1>5. /\ task' = [task EXCEPT ![w] = x]
      /\ x.kind = "inBlock" /\ x.phase = to /\ x.pair = task[w].pair
  BY <1>1, <1>2, <1>3 DEF Goto, Tasks
<1> HIDE DEF x
<1>6. x # Idle
  BY <1>5, IdleSeen
<1>7. ASSUME ~drifted', NEW f \in Fields, NEW a \in Accounts
      PROVE  Pays(f, a, w, x)
  <2>1. followers'[a] + Bit(b = a) = followers[a]
    BY <1>2, <1>4, <1>7
  <2>2. ~Up(task[w], f, a) /\ ~Up(x, f, a) /\ ~Down(x, f, a)
    BY <1>1, <1>2, <1>5, <1>6, BlockDebts
  <2>3. /\ followers[a] \in Nat /\ following[a] \in Nat /\ followers'[a] \in Nat
        /\ following'[a] = following[a]
    BY <1>1, <1>3, <1>4
  <2>4. Down(task[w], f, a) <=> f = "followers" /\ b = a
    BY <1>1, <1>2, BlockDebts
  <2>5. CASE f = "followers"
    BY <2>1, <2>2, <2>3, <2>4, <2>5 DEF Pays, Bit, Count
  <2>6. CASE f = "following"
    BY <2>2, <2>3, <2>4, <2>6 DEF Pays, Bit, Count
  <2> QED
    BY <2>5, <2>6 DEF Fields
<1>8. x.phase # "sawFollow"
  BY <1>2, <1>5
<1> QED
  BY <1>1, <1>2, <1>3, <1>4, <1>5, <1>7, <1>8, PaymentEven
-----------------------------------------------------------------------------
(* Rows that are deleted. *)

\* The task owes both counters of pair p, downwards.
Owing(x, p) ==
  \A f \in Fields, a \in Accounts : ~Up(x, f, a) /\ (Down(x, f, a) <=> p[Side(f)] = a)

LEMMA RemovedEven ==
  ASSUME Inv, EvenSteps, NEW w \in Workers, task[w] # Idle, task[w].phase \notin Debts,
         NEW x, task' = [task EXCEPT ![w] = x], x = Idle \/ x.phase # "sawFollow",
         NEW p \in Pairs, follow[p] # None, follow' = [follow EXCEPT ![p] = None],
         drifted => drifted',
         \/ /\ x = Idle \/ x.phase \notin Debts
            /\ CountDown({p})
            /\ ~drifted' => ~Floored({p})
         \/ UNCHANGED counts /\ Owing(x, p)
  PROVE  EvenSteps'
<1>1. /\ follow'[p] = None
      /\ \A q \in Pairs : q # p => follow'[q] = follow[q]
  BY DEF Inv, TypeOK
<1>2. followers' \in [Accounts -> Nat] /\ following' \in [Accounts -> Nat]
  BY Counting DEF Inv, TypeOK, counts
<1>3. x # Idle /\ x.kind \in {"unfollow", "dropFollower", "inUndo"}
        /\ x.phase = "sawFollow" => x.seen # None
  OBVIOUS
<1>4. ASSUME ~drifted', NEW f \in Fields, NEW a \in Accounts
      PROVE  Balances(f, a, w, x, p)
  <2>1. Count(f)[a] \in Nat /\ Count(f)'[a] \in Nat
    BY <1>2, CountNat DEF Inv, TypeOK, Count
  <2>2. ~Up(task[w], f, a) /\ ~Down(task[w], f, a)
    BY NoDebt
  <2>3. CASE (x = Idle \/ x.phase \notin Debts) /\ CountDown({p}) /\ ~Floored({p})
    <3>1. Count(f)'[a] + Bit(p[Side(f)] = a) = Count(f)[a]
      BY <2>3, LowerEffect DEF Inv
    <3>2. ~Up(x, f, a) /\ ~Down(x, f, a)
      BY <2>3, NoDebt
    <3> QED
      BY <1>1, <2>1, <2>2, <3>1, <3>2 DEF Balances, Bit
  <2>4. CASE UNCHANGED counts /\ Owing(x, p)
    <3>1. ~Up(x, f, a) /\ (Down(x, f, a) <=> p[Side(f)] = a)
      BY <2>4 DEF Owing
    <3>2. Count(f)' = Count(f)
      BY <2>4 DEF Count, counts
    <3> QED
      BY <1>1, <2>1, <2>2, <3>1, <3>2 DEF Balances, Bit
  <2> QED
    BY <1>4, <2>3, <2>4
<1> QED
  BY <1>1, <1>2, <1>3, <1>4, WorkerEven

\* An unfollow that does not find its row lowers the counters all the same, and is
\* remembered as drifted.
LEMMA RemoveSeenFollowEven ==
  ASSUME Inv, EvenSteps, NEW w \in Workers, RemoveSeenFollow(w)
  PROVE  EvenSteps'
<1>1. /\ task[w] # Idle /\ task[w].kind \in {"unfollow", "dropFollower"}
      /\ task[w].phase = "sawFollow" /\ CountDown({task[w].pair})
      /\ drifted' = (drifted \/ follow[task[w].pair] # task[w].seen \/ Floored({task[w].pair}))
  BY DEF RemoveSeenFollow, At, Idle, On
<1>2. /\ task[w] \in Tasks /\ task[w].pair \in Pairs /\ task[w].phase \notin Debts
      /\ task[w].seen # None
  BY <1>1, TaskFacts DEF Inv, Debts, EvenSteps, SeenInv
<1>3. PICK x : /\ task' = [task EXCEPT ![w] = x]
               /\ x = Idle \/ x.phase = "seekRequest"
  <2>1. CASE Do(w, "unfollow")
    <3> DEFINE x == [task[w] EXCEPT !.phase = "seekRequest", !.seen = None]
    <3>1. task' = [task EXCEPT ![w] = x] /\ x.phase = "seekRequest"
      BY <1>2, <2>1 DEF RemoveSeenFollow, Tasks
    <3> QED
      BY <3>1
  <2>2. CASE ~Do(w, "unfollow")
    BY <2>2 DEF RemoveSeenFollow, End
  <2> QED
    BY <2>1, <2>2
<1>4. x = Idle \/ (x.phase # "sawFollow" /\ x.phase \notin Debts)
  BY <1>3 DEF Debts
<1>5. CASE drifted'
  <2>1. followers' \in [Accounts -> Nat] /\ following' \in [Accounts -> Nat]
    BY <1>1, Counting DEF Inv
  <2>2. follow' = follow \/ follow' = [follow EXCEPT ![task[w].pair] = None]
    BY DEF RemoveSeenFollow, On
  <2>3. \A q \in Pairs : q # task[w].pair => follow'[q] = follow[q]
    BY <2>2 DEF Inv, TypeOK
  <2> QED
    BY <1>2, <1>3, <1>4, <1>5, <2>1, <2>3, WorkerEven
<1>6. CASE ~drifted'
  <2>1. follow[task[w].pair] = task[w].seen /\ ~Floored({task[w].pair}) /\ ~drifted
    BY <1>1, <1>6
  <2>2. follow' = [follow EXCEPT ![task[w].pair] = None]
    BY <2>1 DEF RemoveSeenFollow, On
  <2>3. follow[task[w].pair] # None
    BY <1>2, <2>1
  <2> QED
    BY <1>1, <1>2, <1>3, <1>4, <2>1, <2>2, <2>3, RemovedEven
<1> QED
  BY <1>5, <1>6

LEMMA UndoSeenFollowEven ==
  ASSUME Inv, EvenSteps, NEW w \in Workers, UndoSeenFollow(w)
  PROVE  EvenSteps'
<1>1. /\ task[w] # Idle /\ task[w].kind = "inUndo" /\ task[w].phase = "sawFollow"
      /\ UNCHANGED <<drifted, counts>>
  BY DEF UndoSeenFollow, At, Idle, history
<1>2. /\ task[w] \in Tasks /\ task[w].pair \in Pairs /\ task[w].phase \notin Debts
      /\ task[w].seen # None
  BY <1>1, TaskFacts DEF Inv, Debts, EvenSteps, SeenInv
<1>3. CASE End(w) /\ UNCHANGED <<follow, untold>>
  <2>1. task' = [task EXCEPT ![w] = Idle]
    BY <1>3 DEF End
  <2> QED
    BY <1>1, <1>2, <1>3, <2>1, QuietEven
<1>4. CASE ~(End(w) /\ UNCHANGED <<follow, untold>>)
  <2>1. follow[task[w].pair] # None /\ follow' = [follow EXCEPT ![task[w].pair] = None]
    BY <1>2, <1>4 DEF UndoSeenFollow, On
  <2> DEFINE x == [task[w] EXCEPT !.phase = "uncount", !.seen = None]
  <2>2. /\ task' = [task EXCEPT ![w] = x]
        /\ x.kind = "inUndo" /\ x.phase = "uncount" /\ x.pair = task[w].pair
    BY <1>1, <1>2, <1>4 DEF UndoSeenFollow, Tasks
  <2> HIDE DEF x
  <2>3. x # Idle /\ x.phase # "sawFollow"
    BY <2>2, IdleSeen
  <2>4. Owing(x, task[w].pair)
    BY <2>2, <2>3, OwesBoth DEF Owing
  <2> QED
    BY <1>1, <1>2, <2>1, <2>2, <2>3, <2>4, RemovedEven
<1> QED
  BY <1>3, <1>4

LEMMA InBlockDeleteEven ==
  ASSUME Inv, EvenSteps, NEW w \in Workers, InBlockDelete(w)
  PROVE  EvenSteps'
<1>1. PICK side \in {"forward", "reverse"}, q \in Pairs :
        /\ task[w] # Idle /\ task[w].kind = "inBlock" /\ task[w].phase = side
        /\ q = IF side = "forward" THEN task[w].pair ELSE Reverse(task[w].pair)
        /\ follow' = [follow EXCEPT ![q] = None]
        /\ Goto(w, CASE side = "forward" /\ follow[q] # None -> "forward1"
                     [] side = "forward" /\ follow[q] = None -> "reverse"
                     [] side = "reverse" /\ follow[q] # None -> "reverse1"
                     [] side = "reverse" /\ follow[q] = None -> "requests")
        /\ UNCHANGED <<drifted, counts>>
  <2>1. PICK side \in {"forward", "reverse"} :
          LET q == IF side = "forward" THEN On(w) ELSE Reverse(On(w)) IN
          /\ At(w, {"inBlock"}, side)
          /\ follow' = [follow EXCEPT ![q] = None]
          /\ Goto(w, CASE side = "forward" /\ follow[q] # None -> "forward1"
                       [] side = "forward" /\ follow[q] = None -> "reverse"
                       [] side = "reverse" /\ follow[q] # None -> "reverse1"
                       [] side = "reverse" /\ follow[q] = None -> "requests")
          /\ UNCHANGED <<drifted, counts>>
    BY DEF InBlockDelete, history
  <2>2. task[w] # Idle /\ task[w].kind = "inBlock" /\ task[w].phase = side
    BY <2>1 DEF At, Idle
  <2>3. task[w].pair \in Pairs /\ Reverse(task[w].pair) \in Pairs
    BY <2>2, TaskFacts DEF Inv
  <2> QED
    BY <2>1, <2>2, <2>3 DEF On
<1>2. /\ task[w] \in Tasks /\ task[w].pair \in Pairs /\ q \in Pairs
      /\ task[w].phase \notin Debts
  BY <1>1, TaskFacts DEF Inv, Debts
<1>3. CASE follow[q] = None
  <2>1. follow' = follow
    BY <1>1, <1>2, <1>3 DEF Inv, TypeOK
  <2>2. PICK to \in {"reverse", "requests"} : Goto(w, to)
    BY <1>1, <1>3
  <2> DEFINE x == [task[w] EXCEPT !.phase = to]
  <2>3. task' = [task EXCEPT ![w] = x] /\ x.phase = to
    BY <1>2, <2>2 DEF Goto, Tasks
  <2> HIDE DEF x
  <2>4. x.phase # "sawFollow" /\ x.phase \notin Debts
    BY <2>2, <2>3 DEF Debts
  <2> QED
    BY <1>1, <1>2, <2>1, <2>3, <2>4, QuietEven
<1>4. CASE follow[q] # None
  <2>1. PICK to : /\ Goto(w, to)
                  /\ \/ side = "forward" /\ to = "forward1"
                     \/ side = "reverse" /\ to = "reverse1"
    BY <1>1, <1>4
  <2> DEFINE x == [task[w] EXCEPT !.phase = to]
  <2>2. /\ task' = [task EXCEPT ![w] = x]
        /\ x.kind = "inBlock" /\ x.phase = to /\ x.pair = task[w].pair
    BY <1>1, <1>2, <2>1 DEF Goto, Tasks
  <2> HIDE DEF x
  <2>3. x # Idle /\ x.phase # "sawFollow"
    BY <2>1, <2>2, IdleSeen
  <2>4. Owing(x, q)
    <3>1. CASE side = "forward"
      BY <1>1, <2>1, <2>2, <2>3, <3>1, BlockDebts DEF Owing
    <3>2. CASE side = "reverse"
      BY <1>1, <2>1, <2>2, <2>3, <3>2, BlockDebts DEF Owing
    <3> QED
      BY <3>1, <3>2
  <2> QED
    BY <1>1, <1>2, <1>4, <2>2, <2>3, <2>4, RemovedEven
<1> QED
  BY <1>3, <1>4
-----------------------------------------------------------------------------
(* Interruption, redelivery, new tasks and batches. *)

\* A task that is interrupted while it owes a count is remembered as drifted.
LEMMA CrashEven ==
  ASSUME Inv, EvenSteps, NEW w \in Workers, Crash(w)
  PROVE  EvenSteps'
<1>1. /\ task[w] # Idle /\ UNCHANGED <<follow, counts>>
      /\ drifted' = (drifted \/ Owes(w))
  BY DEF Crash, rows
<1>2. task[w] \in Tasks /\ task[w].pair \in Pairs
  BY <1>1, TaskFacts DEF Inv
<1>3. PICK x : /\ task' = [task EXCEPT ![w] = x]
               /\ x = Idle \/ x.phase = "queued"
  <2>1. CASE task[w].kind \in QueueKinds
    <3> DEFINE x == [task[w] EXCEPT !.phase = "queued", !.seen = None]
    <3>1. task' = [task EXCEPT ![w] = x] /\ x.phase = "queued"
      BY <1>2, <2>1 DEF Crash, Tasks
    <3> QED
      BY <3>1
  <2>2. CASE task[w].kind \notin QueueKinds
    BY <2>2 DEF Crash, End
  <2> QED
    BY <2>1, <2>2
<1>4. x = Idle \/ (x.phase # "sawFollow" /\ x.phase \notin Debts)
  BY <1>3 DEF Debts
<1>5. /\ followers' = followers /\ following' = following
      /\ followers' \in [Accounts -> Nat] /\ following' \in [Accounts -> Nat]
  BY <1>1 DEF Inv, TypeOK, counts
<1>6. ASSUME ~drifted', NEW f \in Fields, NEW a \in Accounts
      PROVE  Pays(f, a, w, x)
  <2>1. ~Up(task[w], f, a) /\ ~Down(task[w], f, a)
    BY <1>1, <1>6, OwingTasks DEF Owes, Fields
  <2>2. ~Up(x, f, a) /\ ~Down(x, f, a)
    BY <1>4, NoDebt
  <2>3. Count(f)' = Count(f)
    BY <1>5 DEF Count
  <2> QED
    BY <2>1, <2>2, <2>3 DEF Pays, Bit
<1> QED
  BY <1>1, <1>2, <1>3, <1>4, <1>5, <1>6, PaymentEven

LEMMA RedeliverEven ==
  ASSUME Inv, EvenSteps, NEW w \in Workers, Redeliver(w)
  PROVE  EvenSteps'
<1>1. /\ task[w] # Idle /\ task[w].phase = "queued"
      /\ UNCHANGED <<follow, counts, drifted>>
  BY DEF Redeliver, rows, history
<1>2. task[w] \in Tasks /\ task[w].pair \in Pairs /\ task[w].phase \notin Debts
  BY <1>1, TaskFacts DEF Inv, Debts
<1>3. \/ End(w)
      \/ \E phase \in {"checked", "sawRequest", "sawFollow"}, seen \in Rows :
           /\ task' = [task EXCEPT ![w].phase = phase, ![w].seen = seen]
           /\ phase = "sawFollow" => seen # None
  <2>1. follow[On(w)] \in Rows /\ request[On(w)] \in Rows /\ None \in Rows
    BY <1>2 DEF On, Inv, TypeOK, Rows
  <2> QED
    BY <2>1 DEF Redeliver
<1>4. CASE End(w)
  <2>1. task' = [task EXCEPT ![w] = Idle]
    BY <1>4 DEF End
  <2> QED
    BY <1>1, <1>2, <2>1, QuietEven
<1>5. ASSUME NEW phase \in {"checked", "sawRequest", "sawFollow"}, NEW seen,
             task' = [task EXCEPT ![w].phase = phase, ![w].seen = seen],
             phase = "sawFollow" => seen # None
      PROVE  EvenSteps'
  <2> DEFINE x == [task[w] EXCEPT !.phase = phase, !.seen = seen]
  <2>1. task' = [task EXCEPT ![w] = x] /\ x.phase = phase /\ x.seen = seen
    BY <1>2, <1>5 DEF Tasks
  <2> HIDE DEF x
  <2>2. (x.phase = "sawFollow" => x.seen # None) /\ x.phase \notin Debts
    BY <1>5, <2>1 DEF Debts
  <2> QED
    BY <1>1, <1>2, <2>1, <2>2, QuietEven
<1> QED
  BY <1>3, <1>4, <1>5

LEMMA StartEven ==
  ASSUME Inv, EvenSteps, NEW w \in Workers, NEW p \in Pairs, NEW kind, NEW phase, NEW seen,
         Start(w, kind, p, phase, seen), phase \notin Debts,
         phase = "sawFollow" => seen # None
  PROVE  EvenSteps'
<1> DEFINE x == [kind |-> kind, pair |-> p, phase |-> phase, seen |-> seen]
<1>1. /\ task[w] = Idle /\ task' = [task EXCEPT ![w] = x]
      /\ UNCHANGED <<follow, counts, drifted>>
  BY DEF Start, rows, history
<1>2. x.phase = phase /\ x.seen = seen
  OBVIOUS
<1> HIDE DEF x
<1> QED
  BY <1>1, <1>2, QuietEven

LEMMA BeginEven ==
  ASSUME Inv, EvenSteps, NEW w \in Workers, NEW p \in Pairs, Begin(w, p)
  PROVE  EvenSteps'
<1>1. PICK kind, phase, seen :
        /\ Start(w, kind, p, phase, seen)
        /\ phase \in {"checked", "sawFollow", "seekRequest", "sawRequest"}
        /\ phase = "sawFollow" => seen # None
  <2>1. CASE StartFollow(w, p)
    BY <2>1 DEF StartFollow
  <2>2. CASE StartUnfollow(w, p)
    BY <2>2 DEF StartUnfollow
  <2>3. CASE StartDropFollower(w, p)
    BY <2>3 DEF StartDropFollower
  <2>4. CASE StartInFollow(w, p) \/ StartInBlock(w, p)
    BY <2>4 DEF StartInFollow, StartInBlock
  <2>5. CASE StartAnswer(w, p)
    BY <2>5 DEF StartAnswer
  <2>6. CASE StartInUndo(w, p)
    BY <2>6 DEF StartInUndo
  <2> QED
    BY <2>1, <2>2, <2>3, <2>4, <2>5, <2>6 DEF Begin
<1>2. phase \notin Debts
  BY <1>1 DEF Debts
<1> QED
  BY <1>1, <1>2, StartEven

\* The counter changes by what becomes of the row of pair y; no other row of the
\* account appears or disappears.
Turns(f, a, y) ==
  /\ \A z \in Pairs : z # y /\ z[Side(f)] = a => (follow[z] # None <=> follow'[z] # None)
  /\ Count(f)'[a] + Bit(y[Side(f)] = a /\ follow[y] # None)
       = Count(f)[a] + Bit(y[Side(f)] = a /\ follow'[y] # None)

\* What is to show of a batch, which leaves the tasks alone.
LEMMA BatchEven ==
  ASSUME Inv, EvenSteps, UNCHANGED task, drifted => drifted',
         followers' \in [Accounts -> Nat], following' \in [Accounts -> Nat],
         ~drifted' => \A f \in Fields, a \in Accounts : \E y \in Pairs : Turns(f, a, y)
  PROVE  EvenSteps'
<1>1. SeenInv'
  BY DEF EvenSteps, SeenInv
<1>2. ASSUME ~drifted', NEW f \in Fields, NEW a \in Accounts
      PROVE  Even(f, a)'
  <2>1. Even(f, a)
    BY <1>2 DEF EvenSteps, EvenInv
  <2>2. PICK y \in Pairs : Turns(f, a, y)
    BY <1>2
  <2> DEFINE U == Ups(f, a)
             D == Downs(f, a)
             F == Follows(f, a)
  <2>3. PICK F1 : F1 = {q \in Pairs : q[Side(f)] = a /\ follow'[q] # None}
    OBVIOUS
  <2>4. Follows(f, a)' = F1 /\ Ups(f, a)' = U /\ Downs(f, a)' = D
    BY <2>3 DEF Follows, Ups, Downs, Up, Down
  <2>5. /\ \A z : z # y => (z \in F <=> z \in F1)
        /\ y \in F <=> y[Side(f)] = a /\ follow[y] # None
        /\ y \in F1 <=> y[Side(f)] = a /\ follow'[y] # None
    BY <2>2, <2>3 DEF Follows, Turns
  <2>6. IsFiniteSet(U) /\ IsFiniteSet(D) /\ IsFiniteSet(F)
    BY FinitePairs
  <2>7. Count(f)[a] + Cardinality(U) = Cardinality(F) + Cardinality(D)
    BY <2>1 DEF Even
  <2>8. Count(f)[a] \in Nat /\ Count(f)'[a] \in Nat
    BY CountNat DEF Inv, TypeOK, Count
  <2> HIDE DEF U, D, F
  <2>9. /\ Cardinality(F) \in Nat /\ Cardinality(F1) \in Nat
        /\ Cardinality(F1) + Bit(y \in F) = Cardinality(F) + Bit(y \in F1)
    <3>1. \A z : z # y => (z \in F <=> z \in F1)
      BY <2>5
    <3> QED
      BY <2>6, <3>1, CardStep
  <2>10. Cardinality(U) \in Nat /\ Cardinality(D) \in Nat
    BY <2>6, FS_CardinalityType
  <2>11. Count(f)'[a] + Bit(y \in F) = Count(f)[a] + Bit(y \in F1)
    BY <2>2, <2>5 DEF Turns, Bit
  <2>12. Count(f)'[a] + Cardinality(U) = Cardinality(F1) + Cardinality(D)
    <3>1. PICK b, b1 \in Nat : b = Bit(y \in F) /\ b1 = Bit(y \in F1)
      BY BitNat
    <3>2. PICK c, c1 \in Nat : c = Count(f)[a] /\ c1 = Count(f)'[a]
      BY <2>8
    <3>3. /\ Cardinality(F1) + b = Cardinality(F) + b1
          /\ c1 + b = c + b1 /\ c + Cardinality(U) = Cardinality(F) + Cardinality(D)
      BY <2>7, <2>9, <2>11, <3>1, <3>2
    <3>4. c1 + Cardinality(U) = Cardinality(F1) + Cardinality(D)
      BY <2>9, <2>10, <3>3
    <3> QED
      BY <3>2, <3>4
  <2> QED
    BY <2>4, <2>12 DEF Even
<1> QED
  BY <1>1, <1>2 DEF EvenSteps, EvenInv
LEMMA AuthorizeEven ==
  ASSUME Inv, EvenSteps, NEW p \in Pairs, Authorize(p)
  PROVE  EvenSteps'
<1>1. /\ follow[p] = None /\ CountUp({p}) /\ UNCHANGED <<task, drifted>>
  BY DEF Authorize, history
<1>2. PICK id \in Ids : follow' = [follow EXCEPT ![p] = id]
  BY DEF Authorize, Fresh
<1>3. /\ follow'[p] # None
      /\ \A q \in Pairs : q # p => follow'[q] = follow[q]
  BY <1>2, RelationshipsAssumption DEF Inv, TypeOK
<1>4. followers' \in [Accounts -> Nat] /\ following' \in [Accounts -> Nat]
  BY <1>1, Counting DEF Inv
<1>5. ASSUME NEW f \in Fields, NEW a \in Accounts
      PROVE  Turns(f, a, p)
  <2>1. Count(f)'[a] = Count(f)[a] + Bit(p[Side(f)] = a)
    BY <1>1, RaiseEffect DEF Inv
  <2>2. Count(f)[a] \in Nat
    BY CountNat DEF Inv, TypeOK
  <2> QED
    BY <1>1, <1>3, <2>1, <2>2 DEF Turns, Bit
<1> QED
  BY <1>1, <1>4, <1>5, BatchEven

LEMMA QuietBatchEven ==
  ASSUME Inv, EvenSteps, NEW p \in Pairs, RejectRequest(p) \/ RemoveBlock(p)
  PROVE  EvenSteps'
<1>1. UNCHANGED <<follow, counts, task, drifted>>
  BY DEF RejectRequest, RemoveBlock, history
<1>2. /\ followers' \in [Accounts -> Nat] /\ following' \in [Accounts -> Nat]
      /\ followers' = followers /\ following' = following /\ follow' = follow
  BY <1>1 DEF counts, Inv, TypeOK
<1>3. ASSUME NEW f \in Fields, NEW a \in Accounts
      PROVE  Turns(f, a, p)
  <2>1. Count(f)' = Count(f)
    BY <1>2 DEF Count
  <2> QED
    BY <1>2, <2>1 DEF Turns
<1> QED
  BY <1>1, <1>2, <1>3, BatchEven

\* createBlock counts the rows that are there, of either direction; an account is on
\* one side of one of them.
LEMMA CreateBlockEven ==
  ASSUME Inv, EvenSteps, NEW p \in Pairs, CreateBlock(p)
  PROVE  EvenSteps'
<1> DEFINE both == {p, Reverse(p)}
           ended == {q \in both : follow[q] # None}
<1>1. /\ follow' = [q \in Pairs |-> IF q \in both THEN None ELSE follow[q]]
      /\ CountDown(ended) /\ drifted' = (drifted \/ Floored(ended)) /\ UNCHANGED task
  BY DEF CreateBlock
<1>2. /\ p \in Pairs /\ Reverse(p) \in Pairs /\ p[1] # p[2]
      /\ Reverse(p)[1] = p[2] /\ Reverse(p)[2] = p[1]
  BY DEF Pairs, Reverse
<1>3. \A q : q \in ended <=> q \in {p, Reverse(p)} /\ follow[q] # None
  OBVIOUS
<1>4. \A q \in Pairs : /\ q \in {p, Reverse(p)} => follow'[q] = None
                       /\ q \notin {p, Reverse(p)} => follow'[q] = follow[q]
  BY <1>1
<1> HIDE DEF both, ended
<1>5. followers' \in [Accounts -> Nat] /\ following' \in [Accounts -> Nat]
  BY <1>1, Counting DEF Inv
<1>6. ASSUME ~drifted', NEW f \in Fields, NEW a \in Accounts
      PROVE  \E y \in Pairs : Turns(f, a, y)
  <2>1. ~Floored(ended)
    BY <1>1, <1>6
  <2>2. /\ Count(f)'[a] = IF \E q \in ended : q[Side(f)] = a THEN Less(Count(f)[a]) ELSE Count(f)[a]
        /\ (\E q \in ended : q[Side(f)] = a) => Count(f)[a] # 0
    <3>1. CASE f = "followers"
      BY <1>1, <2>1, <3>1 DEF CountDown, Floored, Count, Side
    <3>2. CASE f = "following"
      BY <1>1, <2>1, <3>2 DEF CountDown, Floored, Count, Side
    <3> QED
      BY <3>1, <3>2 DEF Fields
  <2>3. PICK y \in {p, Reverse(p)} : \A z \in {p, Reverse(p)} : z # y => z[Side(f)] # a
    <3>1. p[Side(f)] # Reverse(p)[Side(f)]
      BY <1>2 DEF Side
    <3> HIDE DEF Reverse
    <3>2. CASE p[Side(f)] = a
      BY <3>1, <3>2
    <3>3. CASE p[Side(f)] # a
      BY <3>1, <3>3
    <3> QED
      BY <3>2, <3>3
  <2>4. y \in Pairs /\ follow'[y] = None
    BY <1>2, <1>4, <2>3
  <2>5. (\E q \in ended : q[Side(f)] = a) <=> y[Side(f)] = a /\ follow[y] # None
    BY <1>3, <2>3
  <2>6. \A z \in Pairs : z # y /\ z[Side(f)] = a => (follow[z] # None <=> follow'[z] # None)
    BY <1>4, <2>3
  <2>7. Count(f)[a] \in Nat
    BY CountNat DEF Inv, TypeOK
  <2>8. Count(f)'[a] + Bit(y[Side(f)] = a /\ follow[y] # None)
          = Count(f)[a] + Bit(y[Side(f)] = a /\ follow'[y] # None)
    BY <2>2, <2>4, <2>5, <2>7 DEF Bit, Less
  <2> QED
    BY <2>4, <2>6, <2>8 DEF Turns
<1> QED
  BY <1>1, <1>5, <1>6, BatchEven

LEMMA StutterEven ==
  ASSUME Inv, EvenSteps, UNCHANGED vars
  PROVE  EvenSteps'
<1>1. /\ follow' = follow /\ followers' = followers /\ following' = following
      /\ task' = task /\ drifted' = drifted
  BY DEF vars, rows, counts, history
<1>2. \A f, a : /\ Ups(f, a)' = Ups(f, a) /\ Downs(f, a)' = Downs(f, a)
                /\ Follows(f, a)' = Follows(f, a) /\ Count(f)' = Count(f)
  BY <1>1 DEF Ups, Downs, Follows, Count, Up, Down
<1>3. \A f \in Fields, a \in Accounts : Even(f, a)' <=> Even(f, a)
  BY <1>2 DEF Even
<1> QED
  BY <1>1, <1>3 DEF EvenSteps, EvenInv, SeenInv

LEMMA InitEven == Init => EvenSteps
<1> SUFFICES ASSUME Init
             PROVE  EvenSteps
  OBVIOUS
<1>1. /\ follow = [p \in Pairs |-> None] /\ task = [w \in Workers |-> Idle]
      /\ followers = [a \in Accounts |-> 0] /\ following = [a \in Accounts |-> 0]
  BY DEF Init
<1>2. ASSUME NEW f \in Fields, NEW a \in Accounts
      PROVE  Even(f, a)
  <2>1. Ups(f, a) = {} /\ Downs(f, a) = {}
    BY <1>1, NoDebt DEF Ups, Downs
  <2>2. Follows(f, a) = {}
    BY <1>1 DEF Follows
  <2>3. Count(f)[a] = 0
    BY <1>1 DEF Count
  <2> QED
    BY <2>1, <2>2, <2>3, FS_EmptySet DEF Even
<1>3. SeenInv
  BY <1>1 DEF SeenInv
<1> QED
  BY <1>2, <1>3 DEF EvenSteps, EvenInv

LEMMA NextEven == Inv /\ EvenSteps /\ [Next]_vars => EvenSteps'
<1> SUFFICES ASSUME Inv, EvenSteps, [Next]_vars
             PROVE  EvenSteps'
  OBVIOUS
<1>1. ASSUME NEW w \in Workers, Step(w)
      PROVE  EvenSteps'
  <2>1. CASE \/ FindFollow(w) \/ FindRequest(w) \/ InsertRefused(w) \/ InsertRequest(w)
             \/ SeekRequest(w) \/ DropSeenRequest(w) \/ InFollowDuplicate(w)
             \/ InFollowRequest(w) \/ Tell(w) \/ InBlockInsert(w) \/ InBlockRequests(w)
    BY <2>1, QuietStepEven
  <2>2. CASE InsertFollow(w) \/ InFollowInsert(w) \/ AcceptMove(w)
    BY <2>2, InsertFollowEven, InFollowInsertEven, AcceptMoveEven
  <2>3. CASE CountImport(w) \/ CountFollower(w) \/ CountFollowing(w)
    BY <2>3, CountImportEven, CountFollowerEven, CountFollowingEven
  <2>4. CASE RemoveSeenFollow(w) \/ UndoSeenFollow(w) \/ InBlockDelete(w)
    BY <2>4, RemoveSeenFollowEven, UndoSeenFollowEven, InBlockDeleteEven
  <2>5. CASE UndoCount(w) \/ InBlockUncountFollowing(w) \/ InBlockUncountFollower(w)
    BY <2>5, UndoCountEven, InBlockUncountFollowingEven, InBlockUncountFollowerEven
  <2>6. CASE Crash(w) \/ Redeliver(w)
    BY <2>6, CrashEven, RedeliverEven
  <2> QED
    BY <1>1, <2>1, <2>2, <2>3, <2>4, <2>5, <2>6 DEF Step
<1>2. ASSUME NEW p \in Pairs, Batch(p)
      PROVE  EvenSteps'
  <2>1. CASE Authorize(p)
    BY <2>1, AuthorizeEven
  <2>2. CASE CreateBlock(p)
    BY <2>2, CreateBlockEven
  <2>3. CASE RejectRequest(p) \/ RemoveBlock(p)
    BY <2>3, QuietBatchEven
  <2> QED
    BY <1>2, <2>1, <2>2, <2>3 DEF Batch
<1>3. ASSUME NEW w \in Workers, NEW p \in Pairs, Begin(w, p)
      PROVE  EvenSteps'
  BY <1>3, BeginEven
<1>4. CASE UNCHANGED vars
  BY <1>4, StutterEven
<1> QED
  BY <1>1, <1>2, <1>3, <1>4 DEF Next

\* followers_count and following_count are the numbers of rows, less what tasks in
\* flight still have to count, unless a removal found its row gone, a counter was
\* held at zero or a task was interrupted while it owed a count: however follow,
\* unfollow, import, authorize, block, and the seven activities interleave.
THEOREM CountersAreTrue == Spec => []CountersMatchRows
<1>1. EvenSteps => CountersMatchRows
  <2> SUFFICES ASSUME EvenSteps, ~drifted, NEW a \in Accounts
               PROVE  \A f \in Fields :
                        Count(f)[a] + Cardinality({w \in Workers : OwesUp(w, f, a)})
                        = Cardinality({p \in Pairs : p[Side(f)] = a /\ follow[p] # None})
                          + Cardinality({w \in Workers : OwesDown(w, f, a)})
    BY DEF CountersMatchRows, Fields, Count, Side
  <2> TAKE f \in Fields
  <2>1. Even(f, a)
    BY DEF EvenSteps, EvenInv
  <2>2. /\ {w \in Workers : OwesUp(w, f, a)} = Ups(f, a)
        /\ {w \in Workers : OwesDown(w, f, a)} = Downs(f, a)
    BY OwingTasks DEF Ups, Downs
  <2> QED
    BY <2>1, <2>2 DEF Even, Follows
<1> QED
  BY <1>1, SpecInv, InitEven, NextEven, PTL DEF Spec

================================================================================
