---------------------------- MODULE TokensProofs ----------------------------
(***************************************************************************)
(* Proofs about Tokens, for any tokens, workers and roles: the types, that *)
(* a suspension stops requests, that the cache forgets what a revocation   *)
(* or a change of role has made untrue, and that codes are used once.      *)
(***************************************************************************)
EXTENDS Tokens, FiniteSetTheorems, TLAPS

\* A request works on a row of its kind, and a token in a request was issued.
Aimed ==
  \A w \in Workers :
    /\ task[w].kind \in {"resolve", "revoke", "endSession"} =>
         task[w].on \in Tokens /\ token[task[w].on] # "free"
    /\ task[w].kind = "exchange" => task[w].on \in Codes
    /\ task[w].kind = "setRole" => task[w].on \in Roles

\* What SuspensionStopsRequests rests on: the account could be used when the
\* query or the recheck let the request pass, and a request knows of it.
Passed ==
  \A w \in Workers : task[w] # Idle =>
    /\ usable => task[w].wasUsable
    /\ task[w].kind = "resolve" /\ task[w].phase \in {"put", "admitted"} => task[w].wasUsable

Remembered(t) == cache[t] # None /\ t \notin outdated

\* A request has yet to drop the entry of t.
Listed(t) ==
  \E w \in Workers : task[w] # Idle /\ task[w].phase = "drop" /\ t \in task[w].todo

\* A request has changed the role and has yet to list the tokens.
Listing ==
  \E w \in Workers : task[w] # Idle /\ task[w].kind = "setRole" /\ task[w].phase = "list"

\* What CacheIsCurrent rests on.  A request that lists the tokens for a new role
\* sees the active ones only, so an entry of a token that is not active has to
\* be on a list already, unless it is a revoked one without a hash.
Current ==
  \A t \in Tokens : Remembered(t) =>
    \/ token[t] = "revoked" /\ t \in Legacy
    \/ /\ token[t] = "active" \/ Listed(t)
       /\ cache[t] = role \/ Listed(t) \/ Listing

Inv == TypeOK /\ Aimed /\ Passed /\ Current

LEMMA InitInv == Init => Inv
<1> SUFFICES ASSUME Init
             PROVE  Inv
  OBVIOUS
<1>1. TypeOK
  <2>1. /\ scene \in Scenes /\ usable \in BOOLEAN /\ role \in Roles
        /\ restored \in BOOLEAN
    BY TokensAssumption DEF Init
  <2>5. decisions \in 0 .. MaxDecisions
    BY TokensAssumption DEF Init
  <2>2. /\ token \in [Tokens -> {"free", "active", "revoked"}]
        /\ from \in [Tokens -> Codes \cup {None}]
        /\ code \in [Codes -> {"free", "issued", "expired", "deleted"}]
        /\ cache \in [Tokens -> Roles \cup {None}]
        /\ task \in [Workers -> Tasks \cup {Idle}]
        /\ spentCodes \in [Backups -> Nat]
    BY DEF Init
  <2>3. \A t \in Tokens : token[t] = "free" => cache[t] = None /\ from[t] = None
    BY DEF Init
  <2>4. backup \subseteq Backups /\ outdated \subseteq Tokens /\ twice \subseteq Codes
    BY DEF Init
  <2> QED
    BY <2>1, <2>2, <2>3, <2>4, <2>5 DEF TypeOK
<1>2. Aimed /\ Passed
  BY DEF Init, Aimed, Passed, Idle
<1>3. Current
  BY DEF Init, Current, Remembered
<1> QED
  BY <1>1, <1>2, <1>3 DEF Inv

-----------------------------------------------------------------------------
(* What the operators on a task do. *)

\* A busy worker has a task of the right type.
LEMMA BusyTask ==
  ASSUME TypeOK, NEW w \in Workers, task[w] # Idle
  PROVE  task[w] \in Tasks
BY DEF TypeOK

\* One worker's task changes, the others keep theirs.
LEMMA OneTask ==
  ASSUME TypeOK, NEW w \in Workers, NEW x \in Tasks \cup {Idle},
         task' = [task EXCEPT ![w] = x]
  PROVE  /\ task' \in [Workers -> Tasks \cup {Idle}]
         /\ task'[w] = x
         /\ \A v \in Workers : v # w => task'[v] = task[v]
BY DEF TypeOK

LEMMA GotoTask ==
  ASSUME TypeOK, NEW w \in Workers, task[w] # Idle, NEW phase \in Phases, Goto(w, phase)
  PROVE  /\ task' \in [Workers -> Tasks \cup {Idle}]
         /\ \A v \in Workers : v # w => task'[v] = task[v]
         /\ task'[w] \in Tasks
         /\ task'[w].phase = phase
         /\ task'[w].kind = task[w].kind /\ task'[w].on = task[w].on
         /\ task'[w].wasUsable = task[w].wasUsable
         /\ task'[w].todo = task[w].todo
<1> DEFINE x == [task[w] EXCEPT !.phase = phase]
<1>1. task[w] \in Tasks
  BY BusyTask
<1>2. /\ x \in Tasks /\ x.phase = phase /\ x.kind = task[w].kind /\ x.on = task[w].on
      /\ x.wasUsable = task[w].wasUsable /\ x.todo = task[w].todo
  BY <1>1 DEF Tasks
<1>3. task' = [task EXCEPT ![w] = x]
  BY DEF Goto
<1>4. /\ task' \in [Workers -> Tasks \cup {Idle}] /\ task'[w] = x
      /\ \A v \in Workers : v # w => task'[v] = task[v]
  BY <1>2, <1>3, OneTask
<1> QED
  BY <1>2, <1>4

LEMMA EndTask ==
  ASSUME TypeOK, NEW w \in Workers, End(w)
  PROVE  /\ task' \in [Workers -> Tasks \cup {Idle}]
         /\ task'[w] = Idle
         /\ \A v \in Workers : v # w => task'[v] = task[v]
BY DEF TypeOK, End

\* A task is not Idle, and Idle is none of the kinds.
LEMMA KindOfTask ==
  /\ \A x \in Tasks : x # Idle /\ x.kind \in Kinds
  /\ Idle.kind = "idle"
<1>1. \A x \in Tasks : x.kind \in Kinds
  BY DEF Tasks
<1>2. Idle.kind = "idle" /\ "idle" \notin Kinds
  BY DEF Idle, Kinds
<1> QED
  BY <1>1, <1>2

-----------------------------------------------------------------------------
(* Requests begin. *)

LEMMA StartKeeps ==
  ASSUME Inv, NEW w \in Workers, NEW kind \in Kinds, NEW phase \in Phases,
         NEW x \in Tokens \cup Codes \cup Backups \cup Roles \cup {None},
         kind \in {"resolve", "revoke", "endSession"} => x \in Tokens /\ token[x] # "free",
         kind = "exchange" => x \in Codes,
         kind = "setRole" => x \in Roles,
         phase # "drop",
         kind = "resolve" => phase \notin {"put", "admitted"},
         task[w] = Idle, task' = [task EXCEPT ![w] = New(kind, phase, x)],
         UNCHANGED <<scene, usable, role, rows, second, cached, twice>>,
         decisions' \in 0 .. MaxDecisions
  PROVE  Inv'
<1> DEFINE n == New(kind, phase, x)
<1>1. /\ n \in Tasks /\ n.kind = kind /\ n.phase = phase /\ n.on = x
      /\ n.wasUsable = usable /\ n.todo = {}
  BY DEF New, Tasks, Inv, TypeOK
<1>2. /\ task' \in [Workers -> Tasks \cup {Idle}] /\ task'[w] = n
      /\ \A v \in Workers : v # w => task'[v] = task[v]
  BY <1>1, OneTask DEF Inv
<1>3. TypeOK'
  BY <1>2 DEF Inv, TypeOK, rows, second, cached
<1>4. Aimed'
  BY <1>1, <1>2 DEF Inv, Aimed, rows
<1>5. Passed'
  BY <1>1, <1>2 DEF Inv, Passed
<1>6. \A t \in Tokens : Listed(t) => Listed(t)'
  BY <1>2 DEF Listed
<1>7. Listing => Listing'
  BY <1>2 DEF Listing
<1>8. Current'
  BY <1>6, <1>7 DEF Inv, Current, Remembered, rows, cached
<1> QED
  BY <1>3, <1>4, <1>5, <1>8 DEF Inv

-----------------------------------------------------------------------------
(* Requests go on. *)

\* A step of w keeps what the request works on and knows, and no issued token
\* becomes free: what it does to the tasks, whatever it does to the rows.
LEMMA StepOfTask ==
  ASSUME Inv, NEW w \in Workers, task[w] # Idle,
         NEW x \in Tasks \cup {Idle}, task' = [task EXCEPT ![w] = x],
         x # Idle => /\ x.kind = task[w].kind /\ x.on = task[w].on
                     /\ x.wasUsable = task[w].wasUsable
                     /\ x.kind = "resolve" /\ x.phase \in {"put", "admitted"} => x.wasUsable,
         \A t \in Tokens : token[t] # "free" => token'[t] # "free",
         usable' = usable
  PROVE  /\ task' \in [Workers -> Tasks \cup {Idle}]
         /\ task'[w] = x
         /\ Aimed' /\ Passed'
         /\ \A t \in Tokens : Listed(t) =>
              Listed(t)' \/ (task[w].phase = "drop" /\ t \in task[w].todo)
         /\ Listing => Listing' \/ (task[w].kind = "setRole" /\ task[w].phase = "list")
<1>1. /\ task' \in [Workers -> Tasks \cup {Idle}] /\ task'[w] = x
      /\ \A v \in Workers : v # w => task'[v] = task[v]
  BY OneTask DEF Inv
<1>2. Aimed'
  BY <1>1, KindOfTask DEF Inv, Aimed
<1>3. Passed'
  BY <1>1 DEF Inv, Passed
<1>4. \A t \in Tokens : Listed(t) =>
         Listed(t)' \/ (task[w].phase = "drop" /\ t \in task[w].todo)
  BY <1>1 DEF Listed
<1>5. Listing => Listing' \/ (task[w].kind = "setRole" /\ task[w].phase = "list")
  BY <1>1 DEF Listing
<1> QED
  BY <1>1, <1>2, <1>3, <1>4, <1>5

\* A step that changes no rows and leaves neither a list to drop nor one to make.
LEMMA ReadKeeps ==
  ASSUME Inv, NEW w \in Workers, task[w] # Idle,
         NEW x \in Tasks \cup {Idle}, task' = [task EXCEPT ![w] = x],
         x # Idle => /\ x.kind = task[w].kind /\ x.on = task[w].on
                     /\ x.wasUsable = task[w].wasUsable
                     /\ x.kind = "resolve" /\ x.phase \in {"put", "admitted"} => x.wasUsable,
         task[w].phase # "drop",
         ~(task[w].kind = "setRole" /\ task[w].phase = "list"),
         UNCHANGED <<scene, usable, role, decisions, token, cache, outdated>>,
         code' \in [Codes -> {"free", "issued", "expired", "deleted"}],
         from' \in [Tokens -> Codes \cup {None}],
         \A t \in Tokens : token[t] = "free" => from'[t] = None,
         twice' \subseteq Codes, backup' \subseteq Backups,
         spentCodes' \in [Backups -> Nat], restored' \in BOOLEAN
  PROVE  Inv'
<1>1. /\ task' \in [Workers -> Tasks \cup {Idle}] /\ Aimed' /\ Passed'
      /\ \A t \in Tokens : Listed(t) => Listed(t)'
      /\ Listing => Listing'
  BY StepOfTask
<1>2. TypeOK'
  BY <1>1 DEF Inv, TypeOK
<1>3. Current'
  BY <1>1 DEF Inv, Current, Remembered
<1> QED
  BY <1>1, <1>2, <1>3 DEF Inv

\* The same for a step that only goes to another phase, or ends.
LEMMA PhaseKeeps ==
  ASSUME Inv, NEW w \in Workers, task[w] # Idle,
         NEW phase \in Phases, Goto(w, phase) \/ End(w),
         Goto(w, phase) =>
           (task[w].kind = "resolve" /\ phase \in {"put", "admitted"} => task[w].wasUsable),
         task[w].phase # "drop",
         ~(task[w].kind = "setRole" /\ task[w].phase = "list"),
         UNCHANGED <<account, token, cached>>,
         code' \in [Codes -> {"free", "issued", "expired", "deleted"}],
         from' \in [Tokens -> Codes \cup {None}],
         \A t \in Tokens : token[t] = "free" => from'[t] = None,
         twice' \subseteq Codes, backup' \subseteq Backups,
         spentCodes' \in [Backups -> Nat], restored' \in BOOLEAN
  PROVE  Inv'
<1>1. TypeOK /\ task[w] \in Tasks
  BY BusyTask DEF Inv
<1>2. UNCHANGED <<scene, usable, role, decisions, token, cache, outdated>>
  BY DEF account, cached
<1>3. CASE Goto(w, phase)
  <2> DEFINE x == [task[w] EXCEPT !.phase = phase]
  <2>1. /\ x \in Tasks /\ x.phase = phase /\ x.kind = task[w].kind /\ x.on = task[w].on
        /\ x.wasUsable = task[w].wasUsable
    BY <1>1 DEF Tasks
  <2>2. task' = [task EXCEPT ![w] = x]
    BY <1>3 DEF Goto
  <2> HIDE DEF x
  <2> QED
    BY <1>2, <1>3, <2>1, <2>2, ReadKeeps
<1>4. CASE End(w)
  <2>1. task' = [task EXCEPT ![w] = Idle]
    BY <1>4 DEF End
  <2> QED
    BY <1>2, <2>1, ReadKeeps
<1> QED
  BY <1>3, <1>4

-----------------------------------------------------------------------------
(* resolveToken. *)

LEMMA GetKeeps ==
  ASSUME Inv, NEW w \in Workers, Get(w)
  PROVE  Inv'
<1>1. task[w] # Idle /\ task[w].kind = "resolve" /\ task[w].phase = "get"
  BY DEF Get, At, Busy
<1>2. task[w] \in Tasks /\ cache \in [Tokens -> Roles \cup {None}] /\ On(w) \in Tokens
  BY <1>1, BusyTask DEF Inv, TypeOK, Aimed, On
<1>3. CASE cache[On(w)] # None
  <2> DEFINE x == [task[w] EXCEPT !.phase = "recheck", !.seen = cache[On(w)]]
  <2>1. /\ x \in Tasks /\ x.kind = task[w].kind /\ x.on = task[w].on /\ x.phase = "recheck"
        /\ x.wasUsable = task[w].wasUsable
    BY <1>2 DEF Tasks, Phases
  <2>2. task' = [task EXCEPT ![w] = x]
    BY <1>3 DEF Get
  <2>3. UNCHANGED <<account, rows, second, cached, twice>>
    BY DEF Get
  <2> HIDE DEF x
  <2> QED
    BY <1>1, <2>1, <2>2, <2>3, ReadKeeps
       DEF Inv, TypeOK, account, rows, second, cached
<1>4. CASE cache[On(w)] = None
  BY <1>1, <1>4, PhaseKeeps DEF Get, Phases, Inv, TypeOK, account, rows, second, cached
<1> QED
  BY <1>3, <1>4

LEMMA RecheckKeeps ==
  ASSUME Inv, NEW w \in Workers, Recheck(w)
  PROVE  Inv'
<1>1. task[w] # Idle /\ task[w].kind = "resolve" /\ task[w].phase = "recheck"
  BY DEF Recheck, At, Busy
<1>2. CASE usable
  <2>1. task[w].wasUsable
    BY <1>1, <1>2 DEF Inv, Passed
  <2> QED
    BY <1>1, <1>2, <2>1, PhaseKeeps
       DEF Recheck, Phases, Inv, TypeOK, account, rows, second, cached
<1>3. CASE ~usable
  <2>1. task' = [task EXCEPT ![w] = Idle] /\ UNCHANGED <<account, rows, second, twice>>
        /\ cache' = [cache EXCEPT ![On(w)] = None] /\ outdated' = outdated \ {On(w)}
    BY <1>3 DEF Recheck, End, DropEntry
  <2>2. /\ task' \in [Workers -> Tasks \cup {Idle}] /\ Aimed' /\ Passed'
        /\ \A t \in Tokens : Listed(t) => Listed(t)'
        /\ Listing => Listing'
    BY <1>1, <2>1, StepOfTask DEF account, rows
  <2>3. TypeOK'
    BY <2>1, <2>2 DEF Inv, TypeOK, account, rows, second
  <2>4. Current'
    BY <2>1, <2>2 DEF Inv, TypeOK, Current, Remembered, account, rows
  <2> QED
    BY <2>2, <2>3, <2>4 DEF Inv
<1> QED
  BY <1>2, <1>3

LEMMA QueryKeeps ==
  ASSUME Inv, NEW w \in Workers, Query(w)
  PROVE  Inv'
<1>1. task[w] # Idle /\ task[w].kind = "resolve" /\ task[w].phase = "query"
  BY DEF Query, At, Busy
<1>2. task[w] \in Tasks /\ role \in Roles
  BY <1>1, BusyTask DEF Inv, TypeOK
<1>3. CASE token[On(w)] = "active" /\ usable
  <2> DEFINE x == [task[w] EXCEPT !.phase = "put", !.seen = role]
  <2>1. task[w].wasUsable
    BY <1>1, <1>3 DEF Inv, Passed
  <2>2. /\ x \in Tasks /\ x.kind = task[w].kind /\ x.on = task[w].on
        /\ x.wasUsable = task[w].wasUsable
    BY <1>2 DEF Tasks, Phases
  <2>3. task' = [task EXCEPT ![w] = x] /\ UNCHANGED <<account, rows, second, cached, twice>>
    BY <1>3 DEF Query
  <2> HIDE DEF x
  <2> QED
    BY <1>1, <2>1, <2>2, <2>3, ReadKeeps
       DEF Inv, TypeOK, account, rows, second, cached
<1>4. CASE ~(token[On(w)] = "active" /\ usable)
  BY <1>1, <1>4, PhaseKeeps DEF Query, Phases, Inv, TypeOK, account, rows, second, cached
<1> QED
  BY <1>3, <1>4

\* The entry counts as written before the decision unless it is what the rows say.
LEMMA PutKeeps ==
  ASSUME Inv, NEW w \in Workers, Put(w)
  PROVE  Inv'
<1> DEFINE t == On(w)
<1>1. task[w] # Idle /\ task[w].kind = "resolve" /\ task[w].phase = "put"
  BY DEF Put, At, Busy
<1>2. t \in Tokens /\ token[t] # "free" /\ task[w].seen \in Roles \cup {None}
  BY <1>1, BusyTask DEF Inv, Aimed, On, Tasks
<1>3. /\ cache' = [cache EXCEPT ![t] = task[w].seen] /\ Goto(w, "admitted")
      /\ outdated' = IF token[t] = "active" /\ task[w].seen = role
                       THEN outdated \ {t} ELSE outdated \cup {t}
      /\ UNCHANGED <<account, rows, second, twice>>
  BY DEF Put
<1>4. task[w].wasUsable
  BY <1>1 DEF Inv, Passed
<1>5. /\ task' \in [Workers -> Tasks \cup {Idle}]
      /\ Aimed' /\ Passed'
      /\ \A u \in Tokens : Listed(u) => Listed(u)'
      /\ Listing => Listing'
  <2> DEFINE x == [task[w] EXCEPT !.phase = "admitted"]
  <2>1. /\ x \in Tasks /\ x.kind = task[w].kind /\ x.on = task[w].on
        /\ x.wasUsable = task[w].wasUsable
    BY <1>1, BusyTask DEF Tasks, Phases, Inv
  <2>2. task' = [task EXCEPT ![w] = x]
    BY <1>3 DEF Goto
  <2> HIDE DEF x
  <2> QED
    BY <1>1, <1>3, <1>4, <2>1, <2>2, StepOfTask DEF account, rows
<1>6. TypeOK'
  BY <1>2, <1>3, <1>5 DEF Inv, TypeOK, account, rows, second
<1>7. Current'
  BY <1>2, <1>3, <1>5 DEF Inv, TypeOK, Current, Remembered, account, rows
<1> QED
  BY <1>5, <1>6, <1>7 DEF Inv

LEMMA ServeKeeps ==
  ASSUME Inv, NEW w \in Workers, Serve(w)
  PROVE  Inv'
<1>1. task[w] # Idle /\ task[w].kind = "resolve" /\ task[w].phase = "admitted"
  BY DEF Serve, At, Busy
<1> QED
  BY <1>1, PhaseKeeps DEF Serve, Goto, Phases, Inv, Passed, TypeOK, account, rows, second, cached

LEMMA ExpireKeeps ==
  ASSUME Inv, NEW t \in Tokens, Expire(t)
  PROVE  Inv'
<1>1. TypeOK'
  BY DEF Expire, DropEntry, Inv, TypeOK, account, rows, second
<1>2. Aimed' /\ Passed'
  BY DEF Expire, Inv, Aimed, Passed, account, rows
<1>3. Current'
  BY DEF Expire, DropEntry, Inv, TypeOK, Current, Remembered, Listed, Listing, account, rows
<1> QED
  BY <1>1, <1>2, <1>3 DEF Inv

-----------------------------------------------------------------------------
(* Revocation and roles. *)

LEMMA RevokeKeeps ==
  ASSUME Inv, NEW w \in Workers, Revoke(w)
  PROVE  Inv'
<1> PICK t : t = task[w].on
  OBVIOUS
<1> DEFINE x == [task[w] EXCEPT !.phase = "drop", !.todo = {t}]
<1>1. task[w] # Idle /\ task[w].kind = "revoke" /\ task[w].phase = "update"
  BY DEF Revoke, At, Busy
<1>2. t \in Tokens /\ task[w] \in Tasks
  BY <1>1, BusyTask DEF Inv, Aimed
<1>3. /\ token' = IF t \in Legacy THEN token ELSE [token EXCEPT ![t] = "revoked"]
      /\ task' = [task EXCEPT ![w] = x]
      /\ UNCHANGED <<account, from, code, second, cached, twice>>
  BY DEF Revoke, On
<1>4. /\ x \in Tasks /\ x.kind = task[w].kind /\ x.on = task[w].on
      /\ x.wasUsable = task[w].wasUsable /\ x.phase = "drop" /\ x.todo = {t} /\ x # Idle
  <2>1. /\ x \in Tasks /\ x.kind = task[w].kind /\ x.on = task[w].on
        /\ x.wasUsable = task[w].wasUsable /\ x.phase = "drop" /\ x.todo = {t}
    BY <1>2 DEF Tasks, Phases
  <2> HIDE DEF x
  <2> QED
    BY <2>1, KindOfTask
<1>5. \A u \in Tokens : token'[u] = IF u = t /\ t \notin Legacy THEN "revoked" ELSE token[u]
  BY <1>3 DEF Inv, TypeOK
<1> HIDE DEF x
<1>6. /\ task' \in [Workers -> Tasks \cup {Idle}] /\ task'[w] = x
      /\ Aimed' /\ Passed'
      /\ \A u \in Tokens : Listed(u) => Listed(u)'
      /\ Listing => Listing'
  <2>1. /\ \A u \in Tokens : token[u] # "free" => token'[u] # "free"
        /\ usable' = usable /\ task' = [task EXCEPT ![w] = x]
    BY <1>3, <1>5 DEF account
  <2> QED
    BY <1>1, <1>4, <2>1, StepOfTask
<1>7. Listed(t)'
  BY <1>4, <1>6 DEF Listed
<1>8. TypeOK'
  BY <1>3, <1>5, <1>6 DEF Inv, TypeOK, account, second, cached
<1>9. Current'
  BY <1>3, <1>5, <1>6, <1>7 DEF Inv, Current, Remembered, account, cached
<1> QED
  BY <1>6, <1>8, <1>9 DEF Inv

LEMMA FindSessionKeeps ==
  ASSUME Inv, NEW w \in Workers, FindSession(w)
  PROVE  Inv'
<1>1. task[w] # Idle /\ task[w].kind = "endSession" /\ task[w].phase = "read"
  BY DEF FindSession, At, Busy
<1>2. Goto(w, "update") \/ End(w)
  BY DEF FindSession
<1> QED
  BY <1>1, <1>2, PhaseKeeps DEF FindSession, Phases, Inv, TypeOK, account, rows, second, cached

\* A row without a hash is revoked, and its entry is the exception.
LEMMA EndSessionKeeps ==
  ASSUME Inv, NEW w \in Workers, EndSession(w)
  PROVE  Inv'
<1> PICK t : t = task[w].on
  OBVIOUS
<1> DEFINE x == [task[w] EXCEPT !.phase = "drop", !.todo = {t} \ Legacy]
<1>1. task[w] # Idle /\ task[w].kind = "endSession" /\ task[w].phase = "update"
  BY DEF EndSession, At, Busy
<1>2. t \in Tokens /\ task[w] \in Tasks
  BY <1>1, BusyTask DEF Inv, Aimed
<1>3. /\ token' = [token EXCEPT ![t] = "revoked"]
      /\ task' = [task EXCEPT ![w] = x]
      /\ UNCHANGED <<account, from, code, second, cached, twice>>
  BY DEF EndSession, On
<1>4. /\ x \in Tasks /\ x.kind = task[w].kind /\ x.on = task[w].on
      /\ x.wasUsable = task[w].wasUsable /\ x.phase = "drop" /\ x.todo = {t} \ Legacy /\ x # Idle
  <2>1. /\ x \in Tasks /\ x.kind = task[w].kind /\ x.on = task[w].on
        /\ x.wasUsable = task[w].wasUsable /\ x.phase = "drop" /\ x.todo = {t} \ Legacy
    BY <1>2 DEF Tasks, Phases
  <2> HIDE DEF x
  <2> QED
    BY <2>1, KindOfTask
<1>5. \A u \in Tokens : token'[u] = IF u = t THEN "revoked" ELSE token[u]
  BY <1>3 DEF Inv, TypeOK
<1> HIDE DEF x
<1>6. /\ task' \in [Workers -> Tasks \cup {Idle}] /\ task'[w] = x
      /\ Aimed' /\ Passed'
      /\ \A u \in Tokens : Listed(u) => Listed(u)'
      /\ Listing => Listing'
  <2>1. /\ \A u \in Tokens : token[u] # "free" => token'[u] # "free"
        /\ usable' = usable /\ task' = [task EXCEPT ![w] = x]
    BY <1>3, <1>5 DEF account
  <2> QED
    BY <1>1, <1>4, <2>1, StepOfTask
<1>7. t \in Legacy \/ Listed(t)'
  BY <1>4, <1>6 DEF Listed
<1>8. TypeOK'
  BY <1>3, <1>5, <1>6 DEF Inv, TypeOK, account, second, cached
<1>9. Current'
  BY <1>3, <1>5, <1>6, <1>7 DEF Inv, Current, Remembered, account, cached
<1> QED
  BY <1>6, <1>8, <1>9 DEF Inv

LEMMA ListOthersKeeps ==
  ASSUME Inv, NEW w \in Workers, ListOthers(w)
  PROVE  Inv'
<1> DEFINE others == Active \ {On(w)}
<1>1. task[w] # Idle /\ task[w].kind = "revokeOthers" /\ task[w].phase = "list"
  BY DEF ListOthers, At, Busy
<1>2. task[w] \in Tasks /\ others \subseteq Tokens
  BY <1>1, BusyTask DEF Inv, Active
<1>3. CASE others = {}
  BY <1>1, <1>3, PhaseKeeps DEF ListOthers, Goto, Phases, Inv, TypeOK, account, rows, second, cached
<1>4. CASE others # {}
  <2> DEFINE x == [task[w] EXCEPT !.phase = "update", !.todo = others]
  <2>1. /\ x \in Tasks /\ x.kind = task[w].kind /\ x.on = task[w].on
        /\ x.wasUsable = task[w].wasUsable
    BY <1>2 DEF Tasks, Phases
  <2>2. task' = [task EXCEPT ![w] = x] /\ UNCHANGED <<account, rows, second, cached, twice>>
    BY <1>4 DEF ListOthers
  <2> HIDE DEF x
  <2> QED
    BY <1>1, <2>1, <2>2, ReadKeeps DEF Inv, TypeOK, account, rows, second, cached
<1> QED
  BY <1>3, <1>4

\* The active tokens are on the list or, issued since, count as outdated.
LEMMA RevokeOthersKeeps ==
  ASSUME Inv, NEW w \in Workers, RevokeOthers(w)
  PROVE  Inv'
<1> DEFINE hit == Active \ {On(w)}
           x == [task[w] EXCEPT !.phase = "drop", !.todo = @ \ Legacy]
<1>1. task[w] # Idle /\ task[w].kind = "revokeOthers" /\ task[w].phase = "update"
  BY DEF RevokeOthers, At, Busy
<1>2. task[w] \in Tasks /\ hit \subseteq Tokens
  BY <1>1, BusyTask DEF Inv, Active
<1>3. /\ token' = [t \in Tokens |-> IF t \in hit THEN "revoked" ELSE token[t]]
      /\ outdated' = outdated \cup {t \in hit \ task[w].todo : cache[t] # None}
      /\ task' = [task EXCEPT ![w] = x]
      /\ UNCHANGED <<account, from, code, second, cache, twice>>
  BY DEF RevokeOthers
<1>4. /\ x \in Tasks /\ x.kind = task[w].kind /\ x.on = task[w].on /\ x # Idle
      /\ x.wasUsable = task[w].wasUsable /\ x.phase = "drop" /\ x.todo = task[w].todo \ Legacy
  <2>1. /\ x \in Tasks /\ x.kind = task[w].kind /\ x.on = task[w].on
        /\ x.wasUsable = task[w].wasUsable /\ x.phase = "drop" /\ x.todo = task[w].todo \ Legacy
    BY <1>2 DEF Tasks, Phases
  <2> HIDE DEF x
  <2> QED
    BY <2>1, KindOfTask
<1>5. \A t \in Tokens : token'[t] = IF t \in hit THEN "revoked" ELSE token[t]
  BY <1>3
<1> HIDE DEF x
<1>6. /\ task' \in [Workers -> Tasks \cup {Idle}] /\ task'[w] = x
      /\ Aimed' /\ Passed'
      /\ \A t \in Tokens : Listed(t) => Listed(t)'
      /\ Listing => Listing'
  BY <1>1, <1>3, <1>4, <1>5, StepOfTask DEF account
<1>7. \A t \in task[w].todo : t \in Legacy \/ Listed(t)'
  BY <1>4, <1>6 DEF Listed
<1>8. TypeOK'
  <2>1. token' \in [Tokens -> {"free", "active", "revoked"}]
    BY <1>3 DEF Inv, TypeOK
  <2>2. outdated' \subseteq Tokens
    BY <1>2, <1>3 DEF Inv, TypeOK
  <2>3. \A t \in Tokens : token'[t] = "free" => token[t] = "free"
    BY <1>5
  <2> HIDE DEF hit
  <2> QED
    BY <1>3, <1>6, <2>1, <2>2, <2>3 DEF Inv, TypeOK, account, second
<1>9. Current'
  <2> SUFFICES ASSUME NEW t \in Tokens, Remembered(t)'
               PROVE  \/ token'[t] = "revoked" /\ t \in Legacy
                      \/ /\ token'[t] = "active" \/ Listed(t)'
                         /\ cache'[t] = role' \/ Listed(t)' \/ Listing'
    BY DEF Current
  <2>1. Remembered(t) /\ (t \in hit => t \in task[w].todo)
    BY <1>3 DEF Remembered
  <2> HIDE DEF hit
  <2> QED
    BY <1>3, <1>5, <1>6, <1>7, <2>1 DEF Inv, Current, account
<1> QED
  BY <1>6, <1>8, <1>9 DEF Inv

LEMMA SetRoleKeeps ==
  ASSUME Inv, NEW w \in Workers, SetRole(w)
  PROVE  Inv'
<1> DEFINE x == [task[w] EXCEPT !.phase = "list"]
<1>1. task[w] # Idle /\ task[w].kind = "setRole" /\ task[w].phase = "update"
  BY DEF SetRole, At, Busy
<1>2. task[w] \in Tasks /\ task[w].on \in Roles
  BY <1>1, BusyTask DEF Inv, Aimed
<1>3. /\ role' = task[w].on /\ task' = [task EXCEPT ![w] = x]
      /\ UNCHANGED <<scene, usable, decisions, rows, second, cached, twice>>
  BY DEF SetRole, Goto, On
<1>4. /\ x \in Tasks /\ x.kind = "setRole" /\ x.on = task[w].on /\ x # Idle
      /\ x.wasUsable = task[w].wasUsable /\ x.phase = "list"
  BY <1>1, <1>2, KindOfTask DEF Tasks, Phases
<1> HIDE DEF x
<1>5. /\ task' \in [Workers -> Tasks \cup {Idle}] /\ task'[w] = x
      /\ Aimed' /\ Passed'
      /\ \A t \in Tokens : Listed(t) => Listed(t)'
  BY <1>1, <1>3, <1>4, StepOfTask DEF rows
<1>6. Listing'
  BY <1>4, <1>5 DEF Listing
<1>7. TypeOK'
  BY <1>2, <1>3, <1>5 DEF Inv, TypeOK, rows, second, cached
<1>8. Current'
  BY <1>3, <1>5, <1>6 DEF Inv, Current, Remembered, rows, cached
<1> QED
  BY <1>5, <1>7, <1>8 DEF Inv

\* An entry that no list has yet is of an active token: it is on the new list.
LEMMA ListTokensKeeps ==
  ASSUME Inv, NEW w \in Workers, ListTokens(w)
  PROVE  Inv'
<1> DEFINE x == [task[w] EXCEPT !.phase = "drop", !.todo = Active]
<1>1. task[w] # Idle /\ task[w].kind = "setRole" /\ task[w].phase = "list"
  BY DEF ListTokens, At, Busy
<1>2. task[w] \in Tasks /\ Active \subseteq Tokens
  BY <1>1, BusyTask DEF Inv, Active
<1>3. task' = [task EXCEPT ![w] = x] /\ UNCHANGED <<account, rows, second, cached, twice>>
  BY DEF ListTokens
<1>4. /\ x \in Tasks /\ x.kind = task[w].kind /\ x.on = task[w].on /\ x # Idle
      /\ x.wasUsable = task[w].wasUsable /\ x.phase = "drop" /\ x.todo = Active
  <2>1. /\ x \in Tasks /\ x.kind = task[w].kind /\ x.on = task[w].on
        /\ x.wasUsable = task[w].wasUsable /\ x.phase = "drop" /\ x.todo = Active
    BY <1>2 DEF Tasks, Phases
  <2> HIDE DEF x
  <2> QED
    BY <2>1, KindOfTask
<1> HIDE DEF x
<1>5. /\ task' \in [Workers -> Tasks \cup {Idle}] /\ task'[w] = x
      /\ Aimed' /\ Passed'
      /\ \A t \in Tokens : Listed(t) => Listed(t)'
  BY <1>1, <1>3, <1>4, StepOfTask DEF account, rows
<1>6. \A t \in Tokens : token[t] = "active" => Listed(t)'
  BY <1>4, <1>5 DEF Listed, Active
<1>7. TypeOK'
  BY <1>3, <1>5 DEF Inv, TypeOK, account, rows, second, cached
<1>8. Current'
  BY <1>3, <1>5, <1>6 DEF Inv, Current, Remembered, account, rows, cached
<1> QED
  BY <1>5, <1>7, <1>8 DEF Inv

LEMMA DropKeeps ==
  ASSUME Inv, NEW w \in Workers, Drop(w)
  PROVE  Inv'
<1>1. task[w] # Idle /\ task[w].phase = "drop" /\ UNCHANGED <<account, rows, second, twice>>
  BY DEF Drop, Busy
<1>2. task[w] \in Tasks
  BY <1>1, BusyTask DEF Inv
<1>3. CASE task[w].todo = {}
  <2>1. task' = [task EXCEPT ![w] = Idle] /\ UNCHANGED cached
    BY <1>3 DEF Drop, End
  <2>2. /\ task' \in [Workers -> Tasks \cup {Idle}] /\ Aimed' /\ Passed'
        /\ \A t \in Tokens : Listed(t) => Listed(t)'
        /\ Listing => Listing'
    BY <1>1, <1>3, <2>1, StepOfTask DEF account, rows
  <2>3. TypeOK'
    BY <1>1, <2>1, <2>2 DEF Inv, TypeOK, account, rows, second, cached
  <2>4. Current'
    BY <1>1, <2>1, <2>2 DEF Inv, Current, Remembered, account, rows, cached
  <2> QED
    BY <2>2, <2>3, <2>4 DEF Inv
<1>4. CASE task[w].todo # {}
  <2>1. PICK t \in task[w].todo : /\ DropEntry(t)
                                  /\ task' = [task EXCEPT ![w].todo = @ \ {t}]
    BY <1>4 DEF Drop
  <2> DEFINE x == [task[w] EXCEPT !.todo = @ \ {t}]
  <2>2. t \in Tokens
    BY <1>2 DEF Tasks
  <2>3. /\ cache' = [cache EXCEPT ![t] = None] /\ outdated' = outdated \ {t}
        /\ task' = [task EXCEPT ![w] = x]
    BY <2>1 DEF DropEntry
  <2>4. /\ x \in Tasks /\ x.kind = task[w].kind /\ x.on = task[w].on /\ x # Idle
        /\ x.wasUsable = task[w].wasUsable /\ x.phase = "drop" /\ x.todo = task[w].todo \ {t}
    BY <1>1, <1>2, KindOfTask DEF Tasks
  <2> HIDE DEF x
  <2>5. /\ task' \in [Workers -> Tasks \cup {Idle}] /\ task'[w] = x
        /\ Aimed' /\ Passed'
        /\ \A u \in Tokens : Listed(u) => Listed(u)' \/ u \in task[w].todo
        /\ Listing => Listing'
    BY <1>1, <2>3, <2>4, StepOfTask DEF account, rows
  <2>6. \A u \in Tokens \ {t} : Listed(u) => Listed(u)'
    BY <1>1, <2>4, <2>5 DEF Listed
  <2>7. TypeOK'
    BY <1>1, <2>3, <2>5 DEF Inv, TypeOK, account, rows, second
  <2>8. Current'
    BY <1>1, <2>2, <2>3, <2>5, <2>6 DEF Inv, TypeOK, Current, Remembered, account, rows
  <2> QED
    BY <2>5, <2>7, <2>8 DEF Inv
<1> QED
  BY <1>3, <1>4

\* A decision to let the account be used again reaches every request.
LEMMA DecideKeeps ==
  ASSUME Inv, Decide
  PROVE  Inv'
<1>1. /\ usable' = ~usable /\ decisions < MaxDecisions /\ decisions' = decisions + 1
      /\ task' = [w \in Workers |->
                    IF task[w] # Idle /\ ~usable
                      THEN [task[w] EXCEPT !.wasUsable = TRUE] ELSE task[w]]
      /\ UNCHANGED <<scene, role, rows, second, cached, twice>>
  BY DEF Decide, Busy
<1>2. \A w \in Workers : task[w] # Idle =>
         /\ task'[w] \in Tasks /\ task'[w] # Idle
         /\ task'[w].kind = task[w].kind /\ task'[w].phase = task[w].phase
         /\ task'[w].on = task[w].on /\ task'[w].todo = task[w].todo
         /\ task[w].wasUsable => task'[w].wasUsable
         /\ ~usable => task'[w].wasUsable
  <2> SUFFICES ASSUME NEW w \in Workers, task[w] # Idle
               PROVE  /\ task'[w] \in Tasks /\ task'[w] # Idle
                      /\ task'[w].kind = task[w].kind /\ task'[w].phase = task[w].phase
                      /\ task'[w].on = task[w].on /\ task'[w].todo = task[w].todo
                      /\ task[w].wasUsable => task'[w].wasUsable
                      /\ ~usable => task'[w].wasUsable
    OBVIOUS
  <2> DEFINE x == [task[w] EXCEPT !.wasUsable = TRUE]
  <2>1. task[w] \in Tasks
    BY BusyTask DEF Inv
  <2>2. /\ x \in Tasks /\ x.kind = task[w].kind /\ x.phase = task[w].phase
        /\ x.on = task[w].on /\ x.todo = task[w].todo /\ x.wasUsable
    BY <2>1 DEF Tasks
  <2>3. task'[w] = IF ~usable THEN x ELSE task[w]
    BY <1>1
  <2> HIDE DEF x
  <2> QED
    BY <2>1, <2>2, <2>3, KindOfTask
<1>3. \A w \in Workers : task[w] = Idle => task'[w] = Idle
  BY <1>1
<1>4. TypeOK'
  <2>1. task' \in [Workers -> Tasks \cup {Idle}]
    BY <1>1, <1>2, <1>3
  <2>2. decisions' \in 0 .. MaxDecisions
    BY <1>1, TokensAssumption DEF Inv, TypeOK
  <2>3. usable' \in BOOLEAN
    BY <1>1
  <2> QED
    BY <1>1, <2>1, <2>2, <2>3 DEF Inv, TypeOK, rows, second, cached
<1>5. Aimed'
  BY <1>1, <1>2, <1>3, KindOfTask DEF Inv, Aimed, rows
<1>6. Passed'
  BY <1>1, <1>2, <1>3 DEF Inv, Passed
<1>7. \A t \in Tokens : Listed(t) => Listed(t)'
  BY <1>2 DEF Listed
<1>8. Listing => Listing'
  BY <1>2 DEF Listing
<1>9. Current'
  BY <1>1, <1>7, <1>8 DEF Inv, Current, Remembered, rows, cached
<1> QED
  BY <1>4, <1>5, <1>6, <1>9 DEF Inv

-----------------------------------------------------------------------------
(* Codes and second factor. *)

LEMMA AuthorizeKeeps ==
  ASSUME Inv, NEW w \in Workers, Identify(w) \/ CheckAccess(w) \/ IssueCode(w)
  PROVE  Inv'
<1>1. task[w] # Idle /\ task[w].kind = "authorize" /\ task[w].phase \in {"get", "check", "insert"}
  BY DEF Identify, CheckAccess, IssueCode, At, Busy
<1>2. /\ UNCHANGED <<account, token, from, second, cached, twice>>
      /\ Goto(w, "check") \/ Goto(w, "insert") \/ End(w)
  BY DEF Identify, CheckAccess, IssueCode, rows
<1>3. code' \in [Codes -> {"free", "issued", "expired", "deleted"}]
  BY DEF Identify, CheckAccess, IssueCode, rows, Inv, TypeOK
<1>4. "check" \in Phases /\ "insert" \in Phases
  BY DEF Phases
<1> QED
  BY <1>1, <1>2, <1>3, <1>4, PhaseKeeps DEF Inv, TypeOK, second

LEMMA ExchangeKeeps ==
  ASSUME Inv, NEW w \in Workers, ReadCode(w) \/ SpendCode(w)
  PROVE  Inv'
<1>1. /\ task[w] # Idle /\ task[w].kind = "exchange" /\ task[w].phase \in {"read", "delete"}
      /\ On(w) \in Codes
  BY DEF ReadCode, SpendCode, At, Busy, On, Inv, Aimed
<1>2. /\ UNCHANGED <<account, token, from, second, cached>>
      /\ Goto(w, "delete") \/ Goto(w, "create") \/ End(w)
  BY DEF ReadCode, SpendCode
<1>3. code' \in [Codes -> {"free", "issued", "expired", "deleted"}] /\ twice' \subseteq Codes
  BY <1>1 DEF ReadCode, SpendCode, Inv, TypeOK
<1>4. "delete" \in Phases /\ "create" \in Phases
  BY DEF Phases
<1> QED
  BY <1>1, <1>2, <1>3, <1>4, PhaseKeeps DEF Inv, TypeOK, second

LEMMA ChallengeKeeps ==
  ASSUME Inv, NEW w \in Workers, ReadBackup(w) \/ WriteBackup(w)
  PROVE  Inv'
<1>1. /\ task[w] # Idle /\ task[w].kind = "challenge" /\ task[w].phase \in {"read", "write"}
      /\ UNCHANGED <<account, rows, cached, twice>>
  BY DEF ReadBackup, WriteBackup, At, Busy
<1>2. task[w] \in Tasks
  BY <1>1, BusyTask DEF Inv
<1>3. CASE ReadBackup(w) /\ On(w) \in backup
  <2> DEFINE x == [task[w] EXCEPT !.phase = "write", !.list = backup]
  <2>1. /\ x \in Tasks /\ x.kind = task[w].kind /\ x.on = task[w].on
        /\ x.wasUsable = task[w].wasUsable
    BY <1>2 DEF Tasks, Phases, Inv, TypeOK
  <2>2. task' = [task EXCEPT ![w] = x] /\ UNCHANGED second
    BY <1>3 DEF ReadBackup
  <2> HIDE DEF x
  <2> QED
    BY <1>1, <2>1, <2>2, ReadKeeps DEF Inv, TypeOK, account, rows, second, cached
<1>4. CASE ReadBackup(w) /\ On(w) \notin backup
  BY <1>1, <1>4, PhaseKeeps DEF ReadBackup, Goto, Phases, Inv, TypeOK, account, rows, second, cached
<1>5. CASE WriteBackup(w)
  <2>1. Goto(w, "create") /\ "create" \in Phases
    BY <1>5 DEF WriteBackup, Phases
  <2>2. backup' \subseteq Backups
    BY <1>2, <1>5 DEF WriteBackup, Tasks
  <2>3. spentCodes' \in [Backups -> Nat]
    <3>1. spentCodes' = [spentCodes EXCEPT ![On(w)] = spentCodes[On(w)] + 1]
      BY <1>5 DEF WriteBackup
    <3>2. spentCodes \in [Backups -> Nat]
      BY DEF Inv, TypeOK
    <3>3. \A b \in Backups : spentCodes[b] \in Nat /\ spentCodes[b] + 1 \in Nat
      BY <3>2
    <3> QED
      BY <3>1, <3>2, <3>3
  <2>4. restored' \in BOOLEAN
    BY <1>5 DEF WriteBackup, Inv, TypeOK
  <2> QED
    BY <1>1, <2>1, <2>2, <2>3, <2>4, PhaseKeeps DEF Inv, TypeOK, account, rows, cached
<1> QED
  BY <1>3, <1>4, <1>5

\* A new token has no entry yet.
LEMMA CreateTokenKeeps ==
  ASSUME Inv, NEW w \in Workers, CreateToken(w)
  PROVE  Inv'
<1>1. task[w] # Idle /\ task[w].phase = "create"
  BY DEF CreateToken, Busy
<1>2. PICK t \in NewToken :
        /\ token' = [token EXCEPT ![t] = "active"]
        /\ from' = [from EXCEPT ![t] = IF task[w].kind = "exchange" THEN On(w) ELSE None]
  BY DEF CreateToken
<1>3. t \in Tokens /\ token[t] = "free"
  <2>1. Free # {} /\ t = CHOOSE u \in Free : TRUE
    BY DEF NewToken
  <2> QED
    BY <2>1 DEF Free
<1>4. task' = [task EXCEPT ![w] = Idle] /\ UNCHANGED <<account, code, second, cached, twice>>
  BY DEF CreateToken, End
<1>5. \A u \in Tokens : token'[u] = IF u = t THEN "active" ELSE token[u]
  BY <1>2 DEF Inv, TypeOK
<1>6. /\ task' \in [Workers -> Tasks \cup {Idle}] /\ Aimed' /\ Passed'
      /\ \A u \in Tokens : Listed(u) => Listed(u)'
      /\ Listing => Listing'
  <2>1. (\A u \in Tokens : token[u] # "free" => token'[u] # "free") /\ usable' = usable
    BY <1>4, <1>5 DEF account
  <2> QED
    BY <1>1, <1>4, <2>1, StepOfTask
<1>7. TypeOK'
  <2>1. token' \in [Tokens -> {"free", "active", "revoked"}]
    BY <1>2 DEF Inv, TypeOK
  <2>2. task[w].kind = "exchange" => On(w) \in Codes
    BY DEF Inv, Aimed, On
  <2>3. from' \in [Tokens -> Codes \cup {None}]
    BY <1>2, <2>2 DEF Inv, TypeOK
  <2>4. \A u \in Tokens : token'[u] = "free" => token[u] = "free" /\ from'[u] = from[u]
    BY <1>2, <1>5 DEF Inv, TypeOK
  <2> QED
    BY <1>4, <1>6, <2>1, <2>3, <2>4 DEF Inv, TypeOK, account, second, cached
<1>8. Current'
  <2>1. \A u \in Tokens : token[u] \in {"active", "revoked"} => token'[u] = token[u]
    BY <1>3, <1>5
  <2>2. UNCHANGED <<role, cache, outdated>>
    BY <1>4 DEF account, cached
  <2> QED
    BY <1>3, <1>5, <1>6, <2>1, <2>2 DEF Inv, Current, Remembered
<1> QED
  BY <1>6, <1>7, <1>8 DEF Inv

LEMMA ExpireCodeKeeps ==
  ASSUME Inv, NEW c \in Codes, ExpireCode(c)
  PROVE  Inv'
<1>1. TypeOK'
  BY DEF ExpireCode, Inv, TypeOK, account, second, cached
<1>2. Aimed' /\ Passed' /\ Current'
  BY DEF ExpireCode, Inv, Aimed, Passed, Current, Remembered, Listed, Listing, account, cached
<1> QED
  BY <1>1, <1>2 DEF Inv

-----------------------------------------------------------------------------
(* Every step, and the theorems. *)

LEMMA BeginKeeps ==
  ASSUME Inv, NEW w \in Workers, Begin(w)
  PROVE  Inv'
<1>1. ASSUME NEW kind \in Kinds, NEW phase \in Phases,
             NEW x \in Tokens \cup Codes \cup Backups \cup Roles \cup {None},
             kind \in {"resolve", "revoke", "endSession"} => x \in Tokens /\ token[x] # "free",
             kind = "exchange" => x \in Codes,
             kind # "setRole", phase # "drop",
             kind = "resolve" => phase \notin {"put", "admitted"},
             Start(w, kind, phase, x)
      PROVE  Inv'
  <2>1. /\ task[w] = Idle /\ task' = [task EXCEPT ![w] = New(kind, phase, x)]
        /\ UNCHANGED <<scene, usable, role, rows, second, cached, twice>>
        /\ decisions' = decisions
    BY <1>1 DEF Start, Busy, account
  <2>2. decisions' \in 0 .. MaxDecisions
    BY <2>1 DEF Inv, TypeOK
  <2> QED
    BY <1>1, <2>1, <2>2, StartKeeps
<1>2. /\ {"resolve", "revoke", "endSession", "revokeOthers", "authorize", "exchange",
          "challenge", "login"} \subseteq Kinds
      /\ {"get", "update", "list", "read", "create", "check"} \subseteq Phases
  BY DEF Kinds, Phases
<1>3. ASSUME NEW t \in Tokens, token[t] # "free",
             \/ Start(w, "resolve", "get", t) \/ Start(w, "revoke", "update", t)
             \/ Start(w, "endSession", "read", t)
             \/ Start(w, "revokeOthers", "list", t) \/ Start(w, "authorize", "get", t)
      PROVE  Inv'
  BY <1>1, <1>2, <1>3
<1>4. ASSUME NEW c \in Codes, Start(w, "exchange", "read", c)
      PROVE  Inv'
  BY <1>1, <1>2, <1>4
<1>5. ASSUME NEW b \in Backups, Start(w, "challenge", "read", b)
      PROVE  Inv'
  BY <1>1, <1>2, <1>5
<1>6. ASSUME Start(w, "login", "create", None) \/ Start(w, "authorize", "check", None)
      PROVE  Inv'
  BY <1>1, <1>2, <1>6
<1> QED
  BY <1>3, <1>4, <1>5, <1>6 DEF Begin

LEMMA BeginRoleKeeps ==
  ASSUME Inv, NEW w \in Workers, NEW r \in Roles, BeginRole(w, r)
  PROVE  Inv'
<1>1. /\ task[w] = Idle /\ task' = [task EXCEPT ![w] = New("setRole", "update", r)]
      /\ UNCHANGED <<scene, usable, role, rows, second, cached, twice>>
      /\ decisions < MaxDecisions /\ decisions' = decisions + 1
  BY DEF BeginRole, Busy
<1>2. decisions' \in 0 .. MaxDecisions
  BY <1>1, TokensAssumption DEF Inv, TypeOK
<1>3. "setRole" \in Kinds /\ "update" \in Phases
  BY DEF Kinds, Phases
<1> QED
  BY <1>1, <1>2, <1>3, StartKeeps

LEMMA NextInv == Inv /\ [Next]_vars => Inv'
<1> SUFFICES ASSUME Inv, [Next]_vars
             PROVE  Inv'
  OBVIOUS
<1>1. ASSUME NEW w \in Workers, Step(w)
      PROVE  Inv'
  BY <1>1, GetKeeps, RecheckKeeps, QueryKeeps, PutKeeps, ServeKeeps, RevokeKeeps,
     FindSessionKeeps, EndSessionKeeps, ListOthersKeeps, RevokeOthersKeeps, SetRoleKeeps, ListTokensKeeps, DropKeeps,
     AuthorizeKeeps, ExchangeKeeps, CreateTokenKeeps, ChallengeKeeps DEF Step
<1>2. ASSUME NEW w \in Workers, Begin(w) \/ \E r \in Roles : BeginRole(w, r)
      PROVE  Inv'
  BY <1>2, BeginKeeps, BeginRoleKeeps
<1>3. ASSUME NEW t \in Tokens, Expire(t)
      PROVE  Inv'
  BY <1>3, ExpireKeeps
<1>4. ASSUME NEW c \in Codes, ExpireCode(c)
      PROVE  Inv'
  BY <1>4, ExpireCodeKeeps
<1>5. CASE Decide
  BY <1>5, DecideKeeps
<1>6. CASE UNCHANGED vars
  <2>1. TypeOK'
    BY <1>6 DEF Inv, TypeOK, vars, account, rows, second, cached
  <2>2. Aimed' /\ Passed' /\ Current'
    BY <1>6 DEF Inv, Aimed, Passed, Current, Remembered, Listed, Listing,
                vars, account, rows, second, cached
  <2> QED
    BY <2>1, <2>2 DEF Inv
<1> QED
  BY <1>1, <1>2, <1>3, <1>4, <1>5, <1>6 DEF Next

LEMMA SpecInv == Spec => []Inv
<1>1. Init => Inv
  BY InitInv
<1>2. Inv /\ [Next]_vars => Inv'
  BY NextInv
<1> QED
  BY <1>1, <1>2, PTL DEF Spec

\* Tokens, entries, requests and their lists are always of their types; a token
\* row that does not exist has no entry and no code.
THEOREM TokensTyped == Spec => []TypeOK
<1>1. Inv => TypeOK
  BY DEF Inv
<1> QED
  BY <1>1, SpecInv, PTL

\* resolveToken never serves a request of an account that could not be used at
\* any moment of the request, whatever the cache says.
THEOREM SuspensionHolds == Spec => []SuspensionStopsRequests
<1>1. Inv => SuspensionStopsRequests
  BY DEF Inv, Passed, SuspensionStopsRequests, At, Busy
<1> QED
  BY <1>1, SpecInv, PTL

\* After a revocation or a role change, the cache holds no entry it made untrue
\* but those a resolver wrote late, those revokeAllOtherSessions did not list, and
\* those of revoked tokens without a hash, which no session request drops.
THEOREM CacheFollowsRows == Spec => []CacheIsCurrent
<1>1. Inv => CacheIsCurrent
  <2> SUFFICES ASSUME Inv, NEW t \in Tokens, Remembered(t), ~Dropping(t)
               PROVE  \/ token[t] = "active" /\ cache[t] = role
                      \/ token[t] = "revoked" /\ t \in Legacy
    BY DEF CacheIsCurrent, Remembered
  <2>1. ~Listed(t) /\ ~Listing
    BY DEF Dropping, Listed, Listing, At, Busy
  <2> QED
    BY <2>1 DEF Inv, Current
<1> QED
  BY <1>1, SpecInv, PTL

-----------------------------------------------------------------------------
(* Codes and backup codes are used once. *)

\* A request has deleted code c and has yet to insert its token.
Redeeming(w, c) ==
  task[w].kind = "exchange" /\ task[w].phase = "create" /\ task[w].on = c

\* What the first half of OneTimeCredentials rests on: a code that was not
\* deleted twice has one redeemer, a token or a request that is about to
\* insert it, and the redeemer found the row and deleted it.
OneRedeemer ==
  \A c \in Codes \ twice :
    /\ \A t \in Tokens : from[t] = c => code[c] = "deleted"
    /\ \A w \in Workers : Redeeming(w, c) => code[c] = "deleted"
    /\ \A t, u \in Tokens : from[t] = c /\ from[u] = c => t = u
    /\ \A v, w \in Workers : Redeeming(v, c) /\ Redeeming(w, c) => v = w
    /\ \A t \in Tokens, w \in Workers : ~(from[t] = c /\ Redeeming(w, c))

\* What the second half rests on: a challenge writes a list that had its code,
\* and until an older list is written a code that was accepted is not on the list.
Challenging(w) == task[w].kind = "challenge" /\ task[w].phase = "write"

OffTheList ==
  /\ \A w \in Workers :
       Challenging(w) => task[w].on \in task[w].list /\ task[w].on \in Backups
  /\ ~restored => \A b \in Backups : spentCodes[b] = 0 \/ (spentCodes[b] = 1 /\ b \notin backup)

Once == OneRedeemer /\ OffTheList

LEMMA InitOnce == Init => Once
<1> SUFFICES ASSUME Init
             PROVE  Once
  OBVIOUS
<1>1. \A w \in Workers : task[w].kind = "idle"
  BY KindOfTask DEF Init
<1>2. \A t \in Tokens : from[t] \notin Codes
  BY TokensAssumption DEF Init
<1>3. OneRedeemer
  BY <1>1, <1>2 DEF OneRedeemer, Redeeming
<1>4. OffTheList
  BY <1>1 DEF Init, OffTheList, Challenging
<1> QED
  BY <1>3, <1>4 DEF Once

\* A step that leaves w neither inserting the token of a code nor writing the
\* list, and no deleted code comes back.
LEMMA OthersKeepOnce ==
  ASSUME Inv, Once, NEW w \in Workers, NEW x \in Tasks \cup {Idle},
         task' = [task EXCEPT ![w] = x],
         x.kind = "exchange" => x.phase # "create",
         x.kind = "challenge" => x.phase # "write",
         \A c \in Codes : code[c] = "deleted" => code'[c] = "deleted",
         UNCHANGED <<from, twice, second>>
  PROVE  Once'
<1>1. /\ task'[w] = x
      /\ \A v \in Workers : v # w => task'[v] = task[v]
  BY OneTask DEF Inv
<1>2. /\ \A v \in Workers, c \in Codes : Redeeming(v, c)' => Redeeming(v, c)
      /\ \A v \in Workers : Challenging(v)' => Challenging(v) /\ task'[v] = task[v]
  BY <1>1 DEF Redeeming, Challenging
<1>3. OneRedeemer'
  BY <1>2 DEF Once, OneRedeemer
<1>4. OffTheList'
  BY <1>2 DEF Once, OffTheList, second
<1> QED
  BY <1>3, <1>4 DEF Once

\* The same for a step that only goes to another phase, or ends.
LEMMA PhaseKeepsOnce ==
  ASSUME Inv, Once, NEW w \in Workers, task[w] # Idle,
         NEW phase \in Phases, Goto(w, phase) \/ End(w),
         Goto(w, phase) => phase \notin {"create", "write"},
         \A c \in Codes : code[c] = "deleted" => code'[c] = "deleted",
         UNCHANGED <<from, twice, second>>
  PROVE  Once'
<1>1. task[w] \in Tasks
  BY BusyTask DEF Inv
<1>2. CASE Goto(w, phase)
  <2> DEFINE x == [task[w] EXCEPT !.phase = phase]
  <2>1. x \in Tasks /\ x.phase = phase
    BY <1>1 DEF Tasks
  <2>2. task' = [task EXCEPT ![w] = x]
    BY <1>2 DEF Goto
  <2> HIDE DEF x
  <2> QED
    BY <1>2, <2>1, <2>2, OthersKeepOnce
<1>3. CASE End(w)
  <2>1. task' = [task EXCEPT ![w] = Idle] /\ Idle.kind = "idle"
    BY <1>3, KindOfTask DEF End
  <2> QED
    BY <2>1, OthersKeepOnce
<1> QED
  BY <1>2, <1>3

\* The requests of resolveToken.
LEMMA ResolveKeepsOnce ==
  ASSUME Inv, Once, NEW w \in Workers,
         Get(w) \/ Recheck(w) \/ Query(w) \/ Put(w) \/ Serve(w)
  PROVE  Once'
<1>1. task[w] # Idle /\ task[w].kind = "resolve"
  BY DEF Get, Recheck, Query, Put, Serve, At, Busy
<1>2. task[w] \in Tasks /\ On(w) \in Tokens
  BY <1>1, BusyTask DEF Inv, Aimed, On
<1>3. UNCHANGED <<code, from, twice, second>>
  BY DEF Get, Recheck, Query, Put, Serve, rows
<1>4. {"recheck", "query", "put", "admitted"} \subseteq Phases
  BY DEF Phases
<1>5. CASE Goto(w, "query") \/ Goto(w, "admitted") \/ End(w)
  BY <1>1, <1>3, <1>4, <1>5, PhaseKeepsOnce
<1>6. ASSUME NEW phase \in {"recheck", "put"}, NEW seen \in Roles,
             task' = [task EXCEPT ![w].phase = phase, ![w].seen = seen]
      PROVE  Once'
  <2> DEFINE x == [task[w] EXCEPT !.phase = phase, !.seen = seen]
  <2>1. x \in Tasks /\ x.kind = "resolve"
    BY <1>1, <1>2, <1>4 DEF Tasks
  <2>2. task' = [task EXCEPT ![w] = x]
    BY <1>6
  <2> HIDE DEF x
  <2> QED
    BY <1>3, <2>1, <2>2, OthersKeepOnce
<1>7. CASE Get(w)
  BY <1>2, <1>5, <1>6, <1>7 DEF Get, Inv, TypeOK
<1>8. CASE Query(w)
  BY <1>5, <1>6, <1>8 DEF Query, Inv, TypeOK
<1> QED
  BY <1>5, <1>7, <1>8 DEF Recheck, Put, Serve

\* The requests that revoke tokens or change the role.
LEMMA RevocationKeepsOnce ==
  ASSUME Inv, Once, NEW w \in Workers,
         \/ Revoke(w) \/ FindSession(w) \/ EndSession(w) \/ ListOthers(w) \/ RevokeOthers(w)
         \/ SetRole(w) \/ ListTokens(w) \/ Drop(w)
  PROVE  Once'
<1>1. task[w] # Idle
  BY DEF Revoke, FindSession, EndSession, ListOthers, RevokeOthers, SetRole, ListTokens, Drop, At, Busy
<1>2. task[w] \in Tasks
  BY <1>1, BusyTask DEF Inv
<1>3. UNCHANGED <<code, from, twice, second>>
  BY DEF Revoke, FindSession, EndSession, ListOthers, RevokeOthers, SetRole, ListTokens, Drop, rows
<1>4. {"update", "drop", "list"} \subseteq Phases
  BY DEF Phases
<1>5. CASE Goto(w, "update") \/ Goto(w, "list") \/ End(w)
  BY <1>1, <1>3, <1>4, <1>5, PhaseKeepsOnce
<1>6. ASSUME NEW phase \in {"update", "drop"}, NEW todo \in SUBSET Tokens,
             task' = [task EXCEPT ![w].phase = phase, ![w].todo = todo]
      PROVE  Once'
  <2> DEFINE x == [task[w] EXCEPT !.phase = phase, !.todo = todo]
  <2>1. x \in Tasks /\ x.phase = phase
    BY <1>2, <1>4 DEF Tasks
  <2>2. task' = [task EXCEPT ![w] = x]
    BY <1>6
  <2> HIDE DEF x
  <2> QED
    BY <1>3, <2>1, <2>2, OthersKeepOnce
<1>7. CASE Revoke(w) \/ EndSession(w)
  <2>1. On(w) \in Tokens
    BY <1>7 DEF Revoke, EndSession, At, Inv, Aimed, On
  <2> QED
    BY <1>6, <1>7, <2>1 DEF Revoke, EndSession
<1>8. CASE ListOthers(w)
  BY <1>5, <1>6, <1>8 DEF ListOthers, Active
<1>9. CASE ListTokens(w)
  BY <1>6, <1>9 DEF ListTokens, Active
<1>10. CASE Drop(w)
  <2>1. CASE task[w].todo = {}
    BY <1>5, <1>10, <2>1 DEF Drop
  <2>2. ASSUME NEW t \in task[w].todo, task' = [task EXCEPT ![w].todo = @ \ {t}]
        PROVE  Once'
    <3> DEFINE x == [task[w] EXCEPT !.todo = @ \ {t}]
    <3>1. x \in Tasks /\ x.phase = "drop"
      BY <1>2, <1>10 DEF Tasks, Drop
    <3>2. task' = [task EXCEPT ![w] = x]
      BY <2>2
    <3> HIDE DEF x
    <3> QED
      BY <1>3, <3>1, <3>2, OthersKeepOnce
  <2> QED
    BY <1>10, <2>1, <2>2 DEF Drop
<1>11. CASE RevokeOthers(w)
  <2>1. task[w].todo \ Legacy \in SUBSET Tokens
    BY <1>2 DEF Tasks
  <2> QED
    BY <1>6, <1>11, <2>1 DEF RevokeOthers
<1> QED
  BY <1>5, <1>7, <1>8, <1>9, <1>10, <1>11 DEF FindSession, SetRole

\* The requests that issue a code, and the exchange until it deletes one.
LEMMA IssueKeepsOnce ==
  ASSUME Inv, Once, NEW w \in Workers,
         Identify(w) \/ CheckAccess(w) \/ IssueCode(w) \/ ReadCode(w)
  PROVE  Once'
<1>1. task[w] # Idle
  BY DEF Identify, CheckAccess, IssueCode, ReadCode, At, Busy
<1>2. UNCHANGED <<from, twice, second>>
  BY DEF Identify, CheckAccess, IssueCode, ReadCode, rows
<1>3. \A c \in Codes : code[c] = "deleted" => code'[c] = "deleted"
  BY DEF Identify, CheckAccess, IssueCode, ReadCode, rows, Inv, TypeOK
<1>4. /\ Goto(w, "check") \/ Goto(w, "insert") \/ Goto(w, "delete") \/ End(w)
      /\ {"check", "insert", "delete"} \subseteq Phases
  BY DEF Identify, CheckAccess, IssueCode, ReadCode, Phases
<1> QED
  BY <1>1, <1>2, <1>3, <1>4, PhaseKeepsOnce

\* The exchange deletes the code: if the row was still there, nobody has
\* redeemed the code before.
LEMMA SpendCodeKeepsOnce ==
  ASSUME Inv, Once, NEW w \in Workers, SpendCode(w)
  PROVE  Once'
<1>1. /\ task[w] # Idle /\ task[w].kind = "exchange" /\ task[w].phase = "delete"
      /\ Goto(w, "create") /\ UNCHANGED <<from, second>>
  BY DEF SpendCode, At, Busy
<1>2. "create" \in Phases
  BY DEF Phases
<1>3. /\ \A v \in Workers : v # w => task'[v] = task[v]
      /\ task'[w].kind = "exchange" /\ task'[w].phase = "create"
      /\ task'[w].on = task[w].on
  BY <1>1, <1>2, GotoTask DEF Inv
<1>4. code' = [code EXCEPT ![On(w)] = "deleted"]
      /\ twice' = IF code[On(w)] = "deleted" THEN twice \cup {On(w)} ELSE twice
  BY DEF SpendCode
<1>5. OneRedeemer'
  <2> SUFFICES ASSUME NEW c \in Codes, c \notin twice'
               PROVE  /\ \A t \in Tokens : from'[t] = c => code'[c] = "deleted"
                      /\ \A v \in Workers : Redeeming(v, c)' => code'[c] = "deleted"
                      /\ \A t, u \in Tokens : from'[t] = c /\ from'[u] = c => t = u
                      /\ \A u, v \in Workers : Redeeming(u, c)' /\ Redeeming(v, c)' => u = v
                      /\ \A t \in Tokens, v \in Workers : ~(from'[t] = c /\ Redeeming(v, c)')
    BY DEF OneRedeemer
  <2>1. c \notin twice
    BY <1>4
  <2>2. CASE c = On(w)
    <3>1. code[c] # "deleted" /\ code'[c] = "deleted"
      BY <1>4, <2>2 DEF Inv, TypeOK
    <3>2. /\ \A t \in Tokens : from[t] # c
          /\ \A v \in Workers : ~Redeeming(v, c)
      BY <2>1, <3>1 DEF Once, OneRedeemer
    <3>3. \A v \in Workers : Redeeming(v, c)' => v = w
      BY <1>3, <3>2 DEF Redeeming
    <3> QED
      BY <1>1, <3>1, <3>2, <3>3
  <2>3. CASE c # On(w)
    <3>1. code'[c] = code[c]
      BY <1>4, <2>3 DEF Inv, TypeOK
    <3>2. \A v \in Workers : Redeeming(v, c)' <=> Redeeming(v, c)
      BY <1>1, <1>3, <2>3 DEF Redeeming, On
    <3> QED
      BY <1>1, <2>1, <3>1, <3>2 DEF Once, OneRedeemer
  <2> QED
    BY <2>2, <2>3
<1>6. OffTheList'
  BY <1>1, <1>3 DEF Once, OffTheList, Challenging, second
<1> QED
  BY <1>5, <1>6 DEF Once

\* The token of a code takes over from the request that deleted the code.
LEMMA CreateTokenKeepsOnce ==
  ASSUME Inv, Once, NEW w \in Workers, CreateToken(w)
  PROVE  Once'
<1>1. PICK t \in NewToken :
        from' = [from EXCEPT ![t] = IF task[w].kind = "exchange" THEN On(w) ELSE None]
  BY DEF CreateToken
<1>2. t \in Tokens /\ token[t] = "free"
  BY <1>1 DEF NewToken, Free
<1>3. from[t] = None /\ from \in [Tokens -> Codes \cup {None}] /\ None \notin Codes
  BY <1>2, TokensAssumption DEF Inv, TypeOK
<1>4. /\ End(w) /\ UNCHANGED <<code, twice, second>>
      /\ task[w].phase = "create"
  BY DEF CreateToken
<1>5. /\ task'[w] = Idle
      /\ \A v \in Workers : v # w => task'[v] = task[v]
  BY <1>4, EndTask DEF Inv
<1>6. /\ \A v \in Workers, c \in Codes : Redeeming(v, c)' => Redeeming(v, c) /\ v # w
      /\ \A v \in Workers : Challenging(v)' => Challenging(v) /\ task'[v] = task[v]
  BY <1>5, KindOfTask DEF Redeeming, Challenging
<1>7. /\ \A u \in Tokens : u # t => from'[u] = from[u]
      /\ \A c \in Codes : from'[t] = c => Redeeming(w, c)
  BY <1>1, <1>2, <1>3, <1>4 DEF Redeeming, On
<1>8. OneRedeemer'
  BY <1>4, <1>6, <1>7 DEF Once, OneRedeemer
<1>9. OffTheList'
  BY <1>4, <1>6 DEF Once, OffTheList, second
<1> QED
  BY <1>8, <1>9 DEF Once

\* A challenge goes on with the list it read, which has its code.
LEMMA ReadBackupKeepsOnce ==
  ASSUME Inv, Once, NEW w \in Workers, ReadBackup(w)
  PROVE  Once'
<1>1. task[w] # Idle /\ task[w].kind = "challenge" /\ UNCHANGED <<rows, second, twice>>
  BY DEF ReadBackup, At, Busy
<1>2. task[w] \in Tasks /\ backup \subseteq Backups /\ {"read", "write"} \subseteq Phases
  BY <1>1, BusyTask DEF Inv, TypeOK, Phases
<1>3. CASE On(w) \in backup
  <2> DEFINE x == [task[w] EXCEPT !.phase = "write", !.list = backup]
  <2>1. /\ x \in Tasks /\ x.kind = "challenge" /\ x.on = task[w].on /\ x.list = backup
    BY <1>1, <1>2 DEF Tasks
  <2>2. task' = [task EXCEPT ![w] = x]
    BY <1>3 DEF ReadBackup
  <2> HIDE DEF x
  <2>3. /\ task'[w] = x
        /\ \A v \in Workers : v # w => task'[v] = task[v]
    BY <2>1, <2>2, OneTask DEF Inv
  <2>4. \A v \in Workers, c \in Codes : Redeeming(v, c)' => Redeeming(v, c)
    BY <2>1, <2>3 DEF Redeeming
  <2>5. OneRedeemer'
    BY <1>1, <2>4 DEF Once, OneRedeemer, rows
  <2>6. OffTheList'
    BY <1>1, <1>2, <1>3, <2>1, <2>3 DEF Once, OffTheList, Challenging, second, On
  <2> QED
    BY <2>5, <2>6 DEF Once
<1>4. CASE End(w)
  <2>1. "read" \in Phases /\ "read" \notin {"create", "write"}
    BY <1>2
  <2> QED
    BY <1>1, <1>4, <2>1, PhaseKeepsOnce DEF rows
<1> QED
  BY <1>3, <1>4 DEF ReadBackup

\* The list is written without the code; if it is the list that was read, the
\* code was on it until now and had not been accepted.
LEMMA WriteBackupKeepsOnce ==
  ASSUME Inv, Once, NEW w \in Workers, WriteBackup(w)
  PROVE  Once'
<1>1. /\ task[w] # Idle /\ task[w].kind = "challenge" /\ task[w].phase = "write"
      /\ Goto(w, "create") /\ UNCHANGED <<rows, twice>>
      /\ backup' = task[w].list \ {On(w)}
      /\ spentCodes' = [spentCodes EXCEPT ![On(w)] = @ + 1]
      /\ restored' = (restored \/ backup # task[w].list)
  BY DEF WriteBackup, At, Busy
<1>2. "create" \in Phases
  BY DEF Phases
<1>3. /\ \A v \in Workers : v # w => task'[v] = task[v]
      /\ task'[w].kind = "challenge" /\ task'[w].phase = "create"
  BY <1>1, <1>2, GotoTask DEF Inv
<1>4. OneRedeemer'
  <2>1. \A v \in Workers, c \in Codes : Redeeming(v, c)' => Redeeming(v, c)
    BY <1>3 DEF Redeeming
  <2> QED
    BY <1>1, <2>1 DEF Once, OneRedeemer, rows
<1>5. \A v \in Workers :
        Challenging(v)' => task'[v].on \in task'[v].list /\ task'[v].on \in Backups
  BY <1>3 DEF Once, OffTheList, Challenging
<1>6. ASSUME ~restored', NEW b \in Backups
      PROVE  spentCodes'[b] = 0 \/ (spentCodes'[b] = 1 /\ b \notin backup')
  <2>1. ~restored /\ backup = task[w].list
    BY <1>1, <1>6 DEF Inv, TypeOK
  <2>2. On(w) \in backup /\ On(w) \in Backups /\ spentCodes \in [Backups -> Nat]
    BY <1>1, <2>1 DEF Once, OffTheList, Challenging, On, Inv, TypeOK
  <2>3. spentCodes[On(w)] = 0
    BY <2>1, <2>2 DEF Once, OffTheList
  <2>4. CASE b = On(w)
    BY <1>1, <2>2, <2>3, <2>4
  <2>5. CASE b # On(w)
    BY <1>1, <2>1, <2>2, <2>5 DEF Once, OffTheList
  <2> QED
    BY <2>4, <2>5
<1>7. OffTheList'
  BY <1>5, <1>6 DEF OffTheList
<1> QED
  BY <1>4, <1>7 DEF Once

\* Requests begin in a phase of their own.
LEMMA BeginKeepsOnce ==
  ASSUME Inv, Once, NEW w \in Workers,
         Begin(w) \/ \E r \in Roles : BeginRole(w, r)
  PROVE  Once'
<1>1. ASSUME NEW kind \in Kinds, NEW phase \in Phases,
             NEW x \in Tokens \cup Codes \cup Backups \cup Roles \cup {None},
             kind = "exchange" => phase # "create",
             kind = "challenge" => phase # "write",
             task' = [task EXCEPT ![w] = New(kind, phase, x)],
             UNCHANGED <<rows, second, twice>>
      PROVE  Once'
  <2> DEFINE n == New(kind, phase, x)
  <2>1. n \in Tasks /\ n.kind = kind /\ n.phase = phase
    BY <1>1 DEF New, Tasks, Inv, TypeOK
  <2>2. task' = [task EXCEPT ![w] = n]
    BY <1>1
  <2> HIDE DEF n
  <2> QED
    BY <1>1, <2>1, <2>2, OthersKeepOnce DEF rows
<1>2. ASSUME NEW kind \in Kinds, NEW phase \in Phases,
             NEW x \in Tokens \cup Codes \cup Backups \cup Roles \cup {None},
             kind = "exchange" => phase # "create",
             kind = "challenge" => phase # "write",
             Start(w, kind, phase, x)
      PROVE  Once'
  BY <1>1, <1>2 DEF Start
<1>3. /\ {"resolve", "revoke", "endSession", "revokeOthers", "setRole", "authorize",
          "exchange", "challenge", "login"} \subseteq Kinds
      /\ {"get", "update", "list", "read", "create", "check"} \subseteq Phases
  BY DEF Kinds, Phases
<1>4. ASSUME NEW r \in Roles, BeginRole(w, r)
      PROVE  Once'
  BY <1>1, <1>3, <1>4 DEF BeginRole
<1>5. ASSUME NEW t \in Tokens,
             \/ Start(w, "resolve", "get", t) \/ Start(w, "revoke", "update", t)
             \/ Start(w, "endSession", "read", t)
             \/ Start(w, "revokeOthers", "list", t) \/ Start(w, "authorize", "get", t)
      PROVE  Once'
  BY <1>2, <1>3, <1>5
<1>6. ASSUME NEW c \in Codes, Start(w, "exchange", "read", c)
      PROVE  Once'
  BY <1>2, <1>3, <1>6
<1>7. ASSUME NEW b \in Backups, Start(w, "challenge", "read", b)
      PROVE  Once'
  BY <1>2, <1>3, <1>7
<1>8. ASSUME Start(w, "login", "create", None) \/ Start(w, "authorize", "check", None)
      PROVE  Once'
  BY <1>2, <1>3, <1>8
<1> QED
  BY <1>4, <1>5, <1>6, <1>7, <1>8 DEF Begin

LEMMA NextOnce == Inv /\ Once /\ [Next]_vars => Once'
<1> SUFFICES ASSUME Inv, Once, [Next]_vars
             PROVE  Once'
  OBVIOUS
<1>1. ASSUME NEW w \in Workers, Step(w)
      PROVE  Once'
  BY <1>1, ResolveKeepsOnce, RevocationKeepsOnce, IssueKeepsOnce, SpendCodeKeepsOnce,
     CreateTokenKeepsOnce, ReadBackupKeepsOnce, WriteBackupKeepsOnce DEF Step
<1>2. ASSUME NEW w \in Workers, Begin(w) \/ \E r \in Roles : BeginRole(w, r)
      PROVE  Once'
  BY <1>2, BeginKeepsOnce
<1>3. ASSUME UNCHANGED <<from, twice, second>>,
             \A w \in Workers : /\ task'[w].kind = task[w].kind
                               /\ task'[w].phase = task[w].phase
                               /\ task'[w].on = task[w].on
                               /\ task'[w].list = task[w].list,
             \A c \in Codes : code[c] = "deleted" => code'[c] = "deleted"
      PROVE  Once'
  <2>1. OneRedeemer'
    BY <1>3 DEF Once, OneRedeemer, Redeeming
  <2>2. OffTheList'
    BY <1>3 DEF Once, OffTheList, Challenging, second
  <2> QED
    BY <2>1, <2>2 DEF Once
<1>4. ASSUME NEW t \in Tokens, Expire(t)
      PROVE  Once'
  BY <1>3, <1>4 DEF Expire, rows
<1>5. ASSUME NEW c \in Codes, ExpireCode(c)
      PROVE  Once'
  BY <1>3, <1>5 DEF ExpireCode, Inv, TypeOK
<1>6. CASE Decide
  <2>1. UNCHANGED <<rows, second, twice>>
        /\ task' = [w \in Workers |->
              IF Busy(w) /\ ~usable THEN [task[w] EXCEPT !.wasUsable = TRUE] ELSE task[w]]
    BY <1>6 DEF Decide
  <2>2. ASSUME NEW w \in Workers
        PROVE  /\ task'[w].kind = task[w].kind /\ task'[w].phase = task[w].phase
               /\ task'[w].on = task[w].on /\ task'[w].list = task[w].list
    <3>1. CASE task[w] = Idle
      BY <2>1, <3>1 DEF Busy
    <3>2. CASE task[w] # Idle
      <4>1. task[w] \in Tasks
        BY <3>2, BusyTask DEF Inv
      <4> QED
        BY <2>1, <4>1 DEF Tasks
    <3> QED
      BY <3>1, <3>2
  <2> QED
    BY <1>3, <2>1, <2>2 DEF rows
<1>7. CASE UNCHANGED vars
  BY <1>3, <1>7 DEF vars, rows
<1> QED
  BY <1>1, <1>2, <1>4, <1>5, <1>6, <1>7 DEF Next

\* exchangeCode gives one token for a code, and the second factor one sign-in for
\* a backup code, unless two requests had both read before either wrote.
THEOREM CredentialsAreOneTime == Spec => []OneTimeCredentials
<1>1. Init => Once
  BY InitOnce
<1>2. Inv /\ Once /\ [Next]_vars => Once'
  BY NextOnce
<1>3. Inv /\ Once => OneTimeCredentials
  <2> SUFFICES ASSUME Inv, Once
               PROVE  OneTimeCredentials
    OBVIOUS
  <2>1. ASSUME NEW c \in Codes \ twice
        PROVE  Cardinality({t \in Tokens : from[t] = c}) <= 1
    <3>1. \A t, u \in Tokens : from[t] = c /\ from[u] = c => t = u
      BY <2>1 DEF Once, OneRedeemer
    <3>2. CASE {t \in Tokens : from[t] = c} = {}
      BY <3>2, FS_EmptySet
    <3>3. ASSUME NEW t \in Tokens, from[t] = c
          PROVE  Cardinality({u \in Tokens : from[u] = c}) <= 1
      <4>1. {u \in Tokens : from[u] = c} = {t}
        BY <3>1, <3>3
      <4> QED
        BY <4>1, FS_Singleton
    <3> QED
      BY <3>2, <3>3
  <2>2. ASSUME ~restored, NEW b \in Backups
        PROVE  spentCodes[b] <= 1
    BY <2>2 DEF Once, OffTheList
  <2> QED
    BY <2>1, <2>2 DEF OneTimeCredentials
<1> QED
  BY <1>1, <1>2, <1>3, SpecInv, PTL DEF Spec
=============================================================================
