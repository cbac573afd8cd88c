------------------------------- MODULE Tokens -------------------------------
(***************************************************************************)
(* The access tokens of one account and the cache in front of them:        *)
(* services/auth.ts (resolveToken), oauth.ts (codes, revocation),          *)
(* session.ts, the role change of an administrator, and backup codes of    *)
(* the second factor.                                                      *)
(*                                                                         *)
(* The rows are in D1, the cache is the KV namespace CACHE.  Every call to *)
(* either is one action; a request keeps what it has read in its task.     *)
(* KV is taken to answer with the last value written.                      *)
(***************************************************************************)
EXTENDS Naturals, FiniteSets

CONSTANTS
    Tokens,       \* oauth_access_tokens rows
    Legacy,       \* rows older than migration 0022: active, with no token_hash
    Codes,        \* oauth_authorization_codes rows
    Backups,      \* backup codes of the second factor
    Roles,        \* values of users.role
    None,
    Scenes,       \* sets of kinds of requests, and "decide": what a behaviour has
    Workers,      \* requests that run at the same time
    MaxDecisions  \* how often an administrator changes the role or the account

ASSUME TokensAssumption ==
    /\ None \notin Tokens \cup Codes \cup Roles /\ Legacy \subseteq Tokens
    /\ "user" \in Roles /\ MaxDecisions \in Nat

VARIABLES
    scene,      \* the kinds of requests that run
    usable,     \* canUseAccount: approved, not disabled, suspended or memorial
    role,       \* users.role
    token,      \* a token row: "free", "active" or "revoked"
    from,       \* the code a token was issued for
    code,       \* a code row: "free", "issued", "expired" or "deleted"
    backup,     \* users.otp_backup_codes
    cache,      \* CACHE `token:...`: the role in the entry, or None
    task,       \* what each worker is doing
    decisions,  \* decisions of administrators so far
    outdated,   \* history: tokens whose entry was read before a decision
    twice,      \* history: codes deleted by an exchange that found them gone
    spentCodes, \* history: how often a backup code was accepted
    restored    \* history: backup codes were written over a newer list

account  == <<scene, usable, role, decisions>>
rows     == <<token, from, code>>
second   == <<backup, spentCodes, restored>>
cached   == <<cache, outdated>>
vars     == <<account, rows, second, cached, task, twice>>

Active == {t \in Tokens : token[t] = "active"}
Free   == {t \in Tokens : token[t] = "free"}
\* The row the next token gets: the free ones are interchangeable.
NewToken == IF Free = {} THEN {} ELSE {CHOOSE t \in Free : TRUE}

Kinds  == {"resolve", "revoke", "endSession", "revokeOthers", "setRole", "exchange", "authorize",
           "challenge", "login"}
Phases == {"get", "recheck", "query", "put", "admitted", "update", "list", "drop",
           "read", "delete", "create", "check", "insert", "write"}
Idle == [kind |-> "idle"]
Tasks == [kind : Kinds, phase : Phases, on : Tokens \cup Codes \cup Backups \cup Roles \cup {None},
          seen : Roles \cup {None}, todo : SUBSET Tokens, list : SUBSET Backups,
          wasUsable : BOOLEAN]

TypeOK ==
    /\ scene \in Scenes
    /\ usable \in BOOLEAN /\ role \in Roles
    /\ token \in [Tokens -> {"free", "active", "revoked"}]
    /\ from \in [Tokens -> Codes \cup {None}]
    /\ code \in [Codes -> {"free", "issued", "expired", "deleted"}]
    /\ backup \subseteq Backups
    /\ cache \in [Tokens -> Roles \cup {None}]
    /\ \A t \in Tokens : token[t] = "free" => cache[t] = None /\ from[t] = None
    /\ task \in [Workers -> Tasks \cup {Idle}]
    /\ decisions \in 0 .. MaxDecisions
    /\ outdated \subseteq Tokens /\ twice \subseteq Codes
    /\ spentCodes \in [Backups -> Nat]
    /\ restored \in BOOLEAN

Init ==
    /\ scene \in Scenes
    /\ usable = TRUE /\ role = "user"
    /\ token = [t \in Tokens |-> IF t \in Legacy THEN "active" ELSE "free"]
    /\ from = [t \in Tokens |-> None]
    /\ code = [c \in Codes |-> "free"]
    /\ backup = Backups
    /\ cache = [t \in Tokens |-> None]
    /\ task = [w \in Workers |-> Idle]
    /\ decisions = 0
    /\ outdated = {} /\ twice = {}
    /\ spentCodes = [b \in Backups |-> 0]
    /\ restored = FALSE

-----------------------------------------------------------------------------
Busy(w) == task[w] # Idle
At(w, kind, phase) == Busy(w) /\ task[w].kind = kind /\ task[w].phase = phase
On(w) == task[w].on

New(kind, phase, x) ==
    [kind |-> kind, phase |-> phase, on |-> x, seen |-> None, todo |-> {}, list |-> {},
     wasUsable |-> usable]

Start(w, kind, phase, x) ==
    /\ ~Busy(w) /\ kind \in scene
    /\ task' = [task EXCEPT ![w] = New(kind, phase, x)]
    /\ UNCHANGED <<account, rows, second, cached, twice>>

Goto(w, phase) == task' = [task EXCEPT ![w].phase = phase]
End(w) == task' = [task EXCEPT ![w] = Idle]

DropEntry(t) ==
    /\ cache' = [cache EXCEPT ![t] = None]
    /\ outdated' = outdated \ {t}

-----------------------------------------------------------------------------
(* resolveToken. *)

\* The KV lookup.  A token that nobody was given is not presented.
Get(w) ==
    /\ At(w, "resolve", "get")
    /\ IF cache[On(w)] # None
         THEN task' = [task EXCEPT ![w].phase = "recheck", ![w].seen = cache[On(w)]]
         ELSE Goto(w, "query")
    /\ UNCHANGED <<account, rows, second, cached, twice>>

RecheckRenewing(w) ==   \* a mistake: a hit is written again, with a new lifetime
    /\ At(w, "resolve", "recheck")
    /\ Goto(w, "admitted")
    /\ cache' = [cache EXCEPT ![On(w)] = task[w].seen]
    /\ UNCHANGED <<account, rows, second, outdated, twice>>

RecheckNothing(w) ==   \* a mistake: a hit is believed
    /\ At(w, "resolve", "recheck")
    /\ Goto(w, "admitted")
    /\ UNCHANGED <<account, rows, second, cached, twice>>

\* A hit is admitted only if the account may be used now; otherwise the entry
\* is deleted.  The token row is not looked at.
Recheck(w) ==
    /\ At(w, "resolve", "recheck")
    /\ IF usable
         THEN Goto(w, "admitted") /\ UNCHANGED cached
         ELSE End(w) /\ DropEntry(On(w))
    /\ UNCHANGED <<account, rows, second, twice>>

\* One query reads the token that is not revoked, its account and its role.
Query(w) ==
    /\ At(w, "resolve", "query")
    /\ IF token[On(w)] = "active" /\ usable
         THEN task' = [task EXCEPT ![w].phase = "put", ![w].seen = role]
         ELSE End(w)
    /\ UNCHANGED <<account, rows, second, cached, twice>>

\* The entry is written with what the query saw, whatever happened since.
Put(w) ==
    LET t == On(w) IN
    /\ At(w, "resolve", "put")
    /\ cache' = [cache EXCEPT ![t] = task[w].seen]
    /\ outdated' = IF token[t] = "active" /\ task[w].seen = role
                     THEN outdated \ {t} ELSE outdated \cup {t}
    /\ Goto(w, "admitted")
    /\ UNCHANGED <<account, rows, second, twice>>

\* The request goes on as the account, and ends.
Serve(w) ==
    /\ At(w, "resolve", "admitted")
    /\ End(w)
    /\ UNCHANGED <<account, rows, second, cached, twice>>

\* expirationTtl: an entry lives five minutes and is not renewed.
Expire(t) ==
    /\ cache[t] # None
    /\ DropEntry(t)
    /\ UNCHANGED <<account, rows, second, task, twice>>

-----------------------------------------------------------------------------
(* Revocation and roles. *)

RevokeOnly(w) ==   \* a mistake: the entry stays in the cache
    /\ At(w, "revoke", "update")
    /\ token' = IF On(w) \in Legacy THEN token ELSE [token EXCEPT ![On(w)] = "revoked"]
    /\ End(w)
    /\ UNCHANGED <<account, from, code, second, cached, twice>>

\* POST /oauth/revoke updates the row with this hash, and there is none for a
\* legacy token; the entry is dropped all the same.
Revoke(w) ==
    /\ At(w, "revoke", "update")
    /\ token' = IF On(w) \in Legacy THEN token ELSE [token EXCEPT ![On(w)] = "revoked"]
    /\ task' = [task EXCEPT ![w].phase = "drop", ![w].todo = {On(w)}]
    /\ UNCHANGED <<account, from, code, second, cached, twice>>

\* revokeSession looks the row up, ...
FindSession(w) ==
    /\ At(w, "endSession", "read")
    /\ IF token[On(w)] = "active" THEN Goto(w, "update") ELSE End(w)
    /\ UNCHANGED <<account, rows, second, cached, twice>>

\* ... revokes it by its id, and drops the entry if the row has a hash.
EndSession(w) ==
    /\ At(w, "endSession", "update")
    /\ token' = [token EXCEPT ![On(w)] = "revoked"]
    /\ task' = [task EXCEPT ![w].phase = "drop", ![w].todo = {On(w)} \ Legacy]
    /\ UNCHANGED <<account, from, code, second, cached, twice>>

\* revokeAllOtherSessions lists the tokens but the current one, ...
ListOthers(w) ==
    /\ At(w, "revokeOthers", "list")
    /\ IF Active \ {On(w)} = {} THEN End(w)
       ELSE task' = [task EXCEPT ![w].phase = "update", ![w].todo = Active \ {On(w)}]
    /\ UNCHANGED <<account, rows, second, cached, twice>>

\* ... revokes those that are active by then, and drops the entries of those in
\* the list that have a hash: the entry of a token issued in between is forgotten.
RevokeOthers(w) ==
    LET hit == Active \ {On(w)} IN
    /\ At(w, "revokeOthers", "update")
    /\ token' = [t \in Tokens |-> IF t \in hit THEN "revoked" ELSE token[t]]
    /\ outdated' = outdated \cup {t \in hit \ task[w].todo : cache[t] # None}
    /\ task' = [task EXCEPT ![w].phase = "drop", ![w].todo = @ \ Legacy]
    /\ UNCHANGED <<account, from, code, second, cache, twice>>

\* POST /admin/accounts/:id/role: the role, then the list of active tokens, ...
SetRole(w) ==
    /\ At(w, "setRole", "update")
    /\ role' = On(w)
    /\ Goto(w, "list")
    /\ UNCHANGED <<scene, usable, decisions, rows, second, cached, twice>>

ListTokens(w) ==
    /\ At(w, "setRole", "list")
    /\ task' = [task EXCEPT ![w].phase = "drop", ![w].todo = Active]
    /\ UNCHANGED <<account, rows, second, cached, twice>>

\* ... and their entries one after the other, legacy tokens included, whose key
\* is computed from the token.
Drop(w) ==
    /\ Busy(w) /\ task[w].phase = "drop"
    /\ IF task[w].todo = {} THEN End(w) /\ UNCHANGED cached
       ELSE \E t \in task[w].todo :
              /\ DropEntry(t)
              /\ task' = [task EXCEPT ![w].todo = @ \ {t}]
    /\ UNCHANGED <<account, rows, second, twice>>

\* disableAccount, suspendAccount, enableAccount, unsuspendAccount.
Decide ==
    /\ "decide" \in scene /\ decisions < MaxDecisions
    /\ decisions' = decisions + 1
    /\ usable' = ~usable
    /\ task' = [w \in Workers |->
                  IF Busy(w) /\ ~usable THEN [task[w] EXCEPT !.wasUsable = TRUE] ELSE task[w]]
    /\ UNCHANGED <<scene, role, rows, second, cached, twice>>

-----------------------------------------------------------------------------
(* Codes and second factor. *)

\* The passkey flow of /oauth/authorize takes the account from the cache, or
\* from the row that has this hash and is not revoked.
Identify(w) ==
    /\ At(w, "authorize", "get")
    /\ IF cache[On(w)] # None \/ On(w) \in Active \ Legacy THEN Goto(w, "check") ELSE End(w)
    /\ UNCHANGED <<account, rows, second, cached, twice>>

\* canUserAccessAccount, before a code is inserted.
CheckAccess(w) ==
    /\ At(w, "authorize", "check")
    /\ IF usable THEN Goto(w, "insert") ELSE End(w)
    /\ UNCHANGED <<account, rows, second, cached, twice>>

IssueCode(w) ==
    /\ At(w, "authorize", "insert")
    /\ \E c \in Codes : code[c] = "free" /\ code' = [code EXCEPT ![c] = "issued"]
    /\ End(w)
    /\ UNCHANGED <<account, token, from, second, cached, twice>>

ExpireCode(c) ==
    /\ code[c] = "issued"
    /\ code' = [code EXCEPT ![c] = "expired"]
    /\ UNCHANGED <<account, token, from, second, cached, task, twice>>

\* exchangeCode reads the code; an expired one is deleted, a wrong verifier or
\* redirect leaves it.
ReadCode(w) ==
    LET c == On(w) IN
    /\ At(w, "exchange", "read")
    /\ \/ code[c] = "issued" /\ Goto(w, "delete") /\ UNCHANGED code
       \/ code[c] = "expired" /\ End(w) /\ code' = [code EXCEPT ![c] = "deleted"]
       \/ End(w) /\ UNCHANGED code
    /\ UNCHANGED <<account, token, from, second, cached, twice>>

SpendCodeUndeleted(w) ==   \* a mistake: used_at is set, which nobody reads
    /\ At(w, "exchange", "delete")
    /\ Goto(w, "create")
    /\ UNCHANGED <<account, rows, second, cached, twice>>

\* The DELETE is not asked whether it found the code.
SpendCode(w) ==
    LET c == On(w) IN
    /\ At(w, "exchange", "delete")
    /\ code' = [code EXCEPT ![c] = "deleted"]
    /\ twice' = IF code[c] = "deleted" THEN twice \cup {c} ELSE twice
    /\ Goto(w, "create")
    /\ UNCHANGED <<account, token, from, second, cached>>

\* createAccessToken, for a code, a login or after the second factor.
CreateToken(w) ==
    /\ Busy(w) /\ task[w].phase = "create"
    /\ \E t \in NewToken :
         /\ token' = [token EXCEPT ![t] = "active"]
         /\ from' = [from EXCEPT ![t] = IF task[w].kind = "exchange" THEN On(w) ELSE None]
    /\ End(w)
    /\ UNCHANGED <<account, code, second, cached, twice>>

\* The challenge reads the backup codes of the user; one of them may match.
ReadBackup(w) ==
    /\ At(w, "challenge", "read")
    /\ IF On(w) \in backup
         THEN task' = [task EXCEPT ![w].phase = "write", ![w].list = backup]
         ELSE End(w)
    /\ UNCHANGED <<account, rows, second, cached, twice>>

\* It writes the list it read without that code, over whatever is there now.
WriteBackup(w) ==
    /\ At(w, "challenge", "write")
    /\ backup' = task[w].list \ {On(w)}
    /\ spentCodes' = [spentCodes EXCEPT ![On(w)] = @ + 1]
    /\ restored' = (restored \/ backup # task[w].list)
    /\ Goto(w, "create")
    /\ UNCHANGED <<account, rows, cached, twice>>

-----------------------------------------------------------------------------
Begin(w) ==
    \/ \E t \in Tokens : /\ token[t] # "free"
                         /\ \/ Start(w, "resolve", "get", t)
                            \/ Start(w, "revoke", "update", t)
                            \/ Start(w, "endSession", "read", t)
                            \/ Start(w, "revokeOthers", "list", t)
                            \/ Start(w, "authorize", "get", t)
    \/ \E c \in Codes : code[c] # "free" /\ Start(w, "exchange", "read", c)
    \/ \E b \in Backups : Start(w, "challenge", "read", b)
    \/ Start(w, "login", "create", None)      \* password and account are checked
    \/ Start(w, "authorize", "check", None)   \* with password, or approved by a session

\* The administrator's request, counted with the decisions.
BeginRole(w, r) ==
    /\ ~Busy(w) /\ "setRole" \in scene /\ decisions < MaxDecisions /\ r # role
    /\ task' = [task EXCEPT ![w] = New("setRole", "update", r)]
    /\ decisions' = decisions + 1
    /\ UNCHANGED <<scene, usable, role, rows, second, cached, twice>>

Step(w) ==
    \/ Get(w) \/ Recheck(w) \/ Query(w) \/ Put(w) \/ Serve(w)
    \/ Revoke(w) \/ FindSession(w) \/ EndSession(w) \/ ListOthers(w) \/ RevokeOthers(w)
    \/ SetRole(w) \/ ListTokens(w) \/ Drop(w)
    \/ Identify(w) \/ CheckAccess(w) \/ IssueCode(w)
    \/ ReadCode(w) \/ SpendCode(w) \/ CreateToken(w)
    \/ ReadBackup(w) \/ WriteBackup(w)

Next ==
    \/ \E w \in Workers : Begin(w) \/ Step(w) \/ \E r \in Roles : BeginRole(w, r)
    \/ \E t \in Tokens : Expire(t)
    \/ \E c \in Codes : ExpireCode(c)
    \/ Decide

Spec == Init /\ [][Next]_vars

\* The runtime runs a request to its end; KV deletes an entry when its time has
\* passed.
FairSpec ==
    /\ Spec
    /\ \A w \in Workers : WF_vars(Step(w))
    /\ \A t \in Tokens : WF_vars(Expire(t))

-----------------------------------------------------------------------------
(* Properties. *)

\* Decisions whose requests still have to drop the entry of t.
Dropping(t) ==
    \E w \in Workers :
        \/ Busy(w) /\ task[w].phase = "drop" /\ t \in task[w].todo
        \/ At(w, "setRole", "list")

\* Once the request that revokes a token or changes the role is over, the cache
\* does not remember the token or the old role.  There are three exceptions: the
\* entry was written by a resolver that had read before the decision, the token
\* was issued while revokeAllOtherSessions was between its list and its update
\* (both in outdated), or it has no hash: then the row is revoked and its entry
\* goes on being found until it expires.
CacheIsCurrent ==
    \A t \in Tokens :
        cache[t] # None /\ t \notin outdated /\ ~Dropping(t)
          => \/ token[t] = "active" /\ cache[t] = role
             \/ token[t] = "revoked" /\ t \in Legacy

\* A request is served only if its account could be used at some moment since
\* it began, also when its token was found in the cache ("prevents stale-cache
\* abuse"): suspending an account stops its sessions at once.
SuspensionStopsRequests ==
    \A w \in Workers : At(w, "resolve", "admitted") => task[w].wasUsable

\* A code gives one token and a backup code one sign-in, unless two exchanges
\* had both read the code, or two challenges had both read the list, before
\* either wrote.
OneTimeCredentials ==
    /\ \A c \in Codes \ twice : Cardinality({t \in Tokens : from[t] = c}) <= 1
    /\ ~restored => \A b \in Backups : spentCodes[b] <= 1

\* Whatever raced the revocation, a revoked token is in the end out of the cache
\* for good: entries are not renewed, and a query does not find the row.  (A token
\* without a hash is revoked by its owner's list of sessions, not by POST
\* /oauth/revoke.)
RevocationSettles ==
    \A t \in Tokens : <>[](token[t] = "revoked" => cache[t] = None)
=============================================================================
