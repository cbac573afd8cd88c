-------------------------- MODULE InvitationLedger --------------------------
(***************************************************************************)
(* The invitation-credit ledger of the API worker:                         *)
(* services/invitationCredits.ts (links, uses, claims, administrator       *)
(* operations) and services/contribution.ts (score and tier awards).       *)
(*                                                                         *)
(* Every env.DB.batch([...]) is one D1 transaction and is one action here. *)
(* A handler that reads first and writes in a later batch keeps what it    *)
(* read in task[w], so that other requests may run in between: the five    *)
(* attempts of applyContributionDelta and the claim list of                *)
(* restoreExpiredInvitationClaims are modelled step by step.               *)
(*                                                                         *)
(* The credit counter of a link is read through its units: unit <<i, n>>   *)
(* is the n-th use still held by link i.  SUM(remaining_uses) over the     *)
(* unrevoked links of an account is then the number of its units.          *)
(***************************************************************************)
EXTENDS Integers, FiniteSets

CONSTANTS
  Accounts,         \* local accounts; the rows of account_invitation_balances
  Admins,           \* accounts whose role has roles:manage
  Links,            \* identities of registration_invites rows
  Claims,           \* identities of invitation_use_claims rows
  Workers,          \* requests that run at the same time
  NoAccount, NoLink,
  SettingsChoices,  \* the settings records an administrator may store
  UseChoices,       \* numbers of uses a link is asked for
  CreditChoices,    \* amounts of the administrator's set / add / distribute
  DeltaChoices,     \* score deltas of contribution events and adjustments
  ScoreBound,       \* Number.MAX_SAFE_INTEGER
  MaxLinksPerDay, MaxUsesPerDay, \* the two daily limits
  MaxAttempts       \* MAX_UPDATE_ATTEMPTS

ASSUME IdentityAssumption ==
  /\ IsFiniteSet(Links) /\ IsFiniteSet(Claims)
  /\ Admins \subseteq Accounts
  /\ NoAccount \notin Accounts /\ NoLink \notin Links

ASSUME BoundAssumption ==
  /\ ScoreBound \in Nat
  /\ MaxLinksPerDay \in Nat \ {0} /\ MaxUsesPerDay \in Nat \ {0}
  /\ MaxAttempts \in Nat \ {0}

\* PATCH /api/v1/admin/settings refuses anything else.
ASSUME ChoiceAssumption ==
  /\ SettingsChoices \subseteq [cap : Nat, threshold : Nat \ {0},
                                contribution : BOOLEAN, issuance : BOOLEAN]
  /\ UseChoices \subseteq Nat \ {0}
  /\ CreditChoices \subseteq Int
  /\ DeltaChoices \subseteq Int \ {0}

VARIABLES
  settings,         \* the four invite_* settings that the ledger reads
  available, score, awardLevel,            \* the balance row of an account
  owner, issued, remaining, unused, revoked, linkExpired,   \* a link row
  stage, claimLink, claimExpired,          \* a claim row and what became of it
  issuedLinks, consumedUses,               \* counters of the daily windows
  creditAudit,      \* sum of credit_delta of the account's audit rows
  scoreAudit,       \* sum of contribution_delta of the account's audit rows
  awardAudit,       \* sum of credit_delta of its contribution.tier_awarded rows
  task              \* what the request running in a worker remembers

settingVars == <<settings>>
scoreVars   == <<score, awardLevel, scoreAudit, awardAudit>>
creditVars  == <<available, creditAudit>>
issueVars   == <<owner, issued, unused, revoked>>
linkVars    == <<issueVars, remaining>>
claimVars   == <<stage, claimLink>>
limitVars   == <<issuedLinks, consumedUses>>
clockVars   == <<linkExpired, claimExpired>>
ledgerVars  == <<settingVars, scoreVars, creditVars, linkVars, claimVars,
                 limitVars, clockVars>>
vars        == <<ledgerVars, task>>

-----------------------------------------------------------------------------
(* What an account owns *)

UnitsOfLink(i) == {i} \X (1 .. remaining[i])

ActiveLinks(a) == {i \in Links : owner[i] = a /\ ~revoked[i]}

\* activeReservedCreditsSql
Reserved(a) == Cardinality(UNION {UnitsOfLink(i) : i \in ActiveLinks(a)})

Outstanding == {c \in Claims : stage[c] \in {"unassigned", "assigned"}}

\* pendingRefundCreditsSql
PendingRefund(a) == Cardinality({c \in Outstanding : owner[claimLink[c]] = a})

Obligations(a) == Reserved(a) + PendingRefund(a)

Owned(a) == available[a] + Obligations(a)

AtLeastZero(n) == IF n < 0 THEN 0 ELSE n
Smaller(m, n) == IF m < n THEN m ELSE n

\* Credits that a score still earns under s, at most the room below the cap.
AwardAllTiers(s, owned, sc, level) ==   \* a mistake: paid tiers are paid again
  IF s.contribution
  THEN Smaller(AtLeastZero(sc) \div s.threshold, AtLeastZero(s.cap - owned))
  ELSE 0

AwardFor(s, owned, sc, level) ==
  IF s.contribution
  THEN Smaller(AtLeastZero((AtLeastZero(sc) \div s.threshold) - level),
               AtLeastZero(s.cap - owned))
  ELSE 0

-----------------------------------------------------------------------------
(* What a request remembers *)

Balance == [available : Nat, score : Int, level : Nat]
Unread  == [available |-> 0, score |-> 0, level |-> 0]

TaskRecords ==
  [phase : {"idle", "sweep", "read", "commit"}, account : Accounts \cup {NoAccount},
   delta : Int, attempt : Nat, seen : Balance,
   todo : SUBSET Claims, link : Links \cup {NoLink}]

Tasks == {t \in TaskRecords : t.phase \in {"read", "commit"} => t.account \in Accounts}

Idle == [phase |-> "idle", account |-> NoAccount, delta |-> 0, attempt |-> 0,
         seen |-> Unread, todo |-> {}, link |-> NoLink]

Contribution(a, d) == [Idle EXCEPT !.phase = "read", !.account = a, !.delta = d]
Sweep(due, i)      == [Idle EXCEPT !.phase = "sweep", !.todo = due, !.link = i]

Init ==
  /\ settings \in SettingsChoices
  /\ available = [a \in Accounts |-> 0]
  /\ score = [a \in Accounts |-> 0]
  /\ awardLevel = [a \in Accounts |-> 0]
  /\ owner = [i \in Links |-> NoAccount]
  /\ issued = [i \in Links |-> 0]
  /\ remaining = [i \in Links |-> 0]
  /\ unused = [i \in Links |-> 0]
  /\ revoked = [i \in Links |-> FALSE]
  /\ linkExpired = [i \in Links |-> FALSE]
  /\ stage = [c \in Claims |-> "none"]
  /\ claimLink = [c \in Claims |-> NoLink]
  /\ claimExpired = [c \in Claims |-> FALSE]
  /\ issuedLinks = [a \in Accounts |-> 0]
  /\ consumedUses = [a \in Accounts |-> 0]
  /\ creditAudit = [a \in Accounts |-> 0]
  /\ scoreAudit = [a \in Accounts |-> 0]
  /\ awardAudit = [a \in Accounts |-> 0]
  /\ task = [w \in Workers |-> Idle]

-----------------------------------------------------------------------------
(* Time passes *)

ExpireLink(i) ==
  /\ owner[i] # NoAccount /\ ~linkExpired[i]
  /\ linkExpired' = [linkExpired EXCEPT ![i] = TRUE]
  /\ UNCHANGED <<settingVars, scoreVars, creditVars, linkVars, claimVars,
                 limitVars, claimExpired, task>>

\* expires_at of a claim passes: thirty minutes after the use was taken, or
\* thirty days after the claim was assigned.
ExpireClaim(c) ==
  /\ c \in Outstanding /\ ~claimExpired[c]
  /\ claimExpired' = [claimExpired EXCEPT ![c] = TRUE]
  /\ UNCHANGED <<settingVars, scoreVars, creditVars, linkVars, claimVars,
                 limitVars, linkExpired, task>>

-----------------------------------------------------------------------------
(* Links *)

\* newDay: the window of the account's counter started 24 hours ago.  The
\* request goes on with reconcileContributionAwards.
CreateLink(w, i, a, uses, newDay) ==
  /\ task[w] = Idle /\ owner[i] = NoAccount
  /\ settings.issuance \/ a \in Admins
  /\ available[a] >= uses
  /\ Owned(a) <= settings.cap
  /\ newDay \/ issuedLinks[a] < MaxLinksPerDay
  /\ owner' = [owner EXCEPT ![i] = a]
  /\ issued' = [issued EXCEPT ![i] = uses]
  /\ remaining' = [remaining EXCEPT ![i] = uses]
  /\ available' = [available EXCEPT ![a] = @ - uses]
  /\ creditAudit' = [creditAudit EXCEPT ![a] = @ - uses]
  /\ issuedLinks' = [issuedLinks EXCEPT ![a] = IF newDay THEN 1 ELSE @ + 1]
  /\ task' = [task EXCEPT ![w] = Contribution(a, 0)]
  /\ UNCHANGED <<settingVars, scoreVars, unused, revoked, claimVars,
                 consumedUses, clockVars>>

RevokeLink(i) ==
  /\ owner[i] # NoAccount /\ ~revoked[i]
  /\ unused' = [unused EXCEPT ![i] = remaining[i]]
  /\ remaining' = [remaining EXCEPT ![i] = 0]
  /\ revoked' = [revoked EXCEPT ![i] = TRUE]
  /\ available' = [available EXCEPT ![owner[i]] = @ + remaining[i]]
  /\ creditAudit' = [creditAudit EXCEPT ![owner[i]] = @ + remaining[i]]
  /\ UNCHANGED <<settingVars, scoreVars, owner, issued, claimVars, limitVars,
                 clockVars, task>>

-----------------------------------------------------------------------------
(* Uses and claims *)

\* invitationRestoreStatements: one batch that gives the use of claim c back to
\* its link, or to the balance of the inviter once the link is revoked, and
\* deletes the claim if it did either.
RestoreToLinkKeepingClaim(c) ==   \* a mistake: the claim is not deleted
  LET i == claimLink[c] IN
  /\ ~revoked[i] /\ remaining[i] < issued[i]
  /\ remaining' = [remaining EXCEPT ![i] = @ + 1]
  /\ UNCHANGED <<creditVars, stage>>

RestoreToLink(c) ==
  LET i == claimLink[c] IN
  /\ ~revoked[i] /\ remaining[i] < issued[i]
  /\ remaining' = [remaining EXCEPT ![i] = @ + 1]
  /\ stage' = [stage EXCEPT ![c] = "restored"]
  /\ UNCHANGED creditVars

RefundToBalance(c) ==
  LET i == claimLink[c] IN
  /\ revoked[i]
  /\ available' = [available EXCEPT ![owner[i]] = @ + 1]
  /\ creditAudit' = [creditAudit EXCEPT ![owner[i]] = @ + 1]
  /\ stage' = [stage EXCEPT ![c] = "refunded"]
  /\ UNCHANGED remaining

RestoreUse(c) == RestoreToLink(c) \/ RefundToBalance(c)

RestoreRest == UNCHANGED <<settingVars, scoreVars, issueVars, claimLink,
                           limitVars, clockVars>>

\* The batch changes nothing when the claim is no longer unassigned, or when
\* the link already has all its uses.
RestorableOnceSpent(c) ==   \* a mistake: the use is spent and comes back
  /\ stage[c] \in {"unassigned", "completed"}
  /\ revoked[claimLink[c]] \/ remaining[claimLink[c]] < issued[claimLink[c]]

Restorable(c) ==
  /\ stage[c] = "unassigned"
  /\ revoked[claimLink[c]] \/ remaining[claimLink[c]] < issued[claimLink[c]]

DueClaims == {c \in Claims : stage[c] = "unassigned" /\ claimExpired[c]}

\* restoreExpiredInvitationClaims reads the due claims; i is the link of a
\* consumeInvitationUse that goes on afterwards, NoLink for a bare clean-up.
StartSweep(w, i) ==
  /\ task[w] = Idle
  /\ i \in Links => owner[i] # NoAccount
  /\ task' = [task EXCEPT ![w] = Sweep(DueClaims, i)]
  /\ UNCHANGED ledgerVars

SweepClaim(w, c) ==
  /\ task[w].phase = "sweep" /\ c \in task[w].todo
  /\ task' = [task EXCEPT ![w].todo = @ \ {c}]
  /\ \/ Restorable(c) /\ RestoreUse(c) /\ RestoreRest
     \/ ~Restorable(c) /\ UNCHANGED ledgerVars

Usable(i) == remaining[i] > 0 /\ ~revoked[i] /\ ~linkExpired[i]

\* The batch of consumeInvitationUse: daily limit, decrement, claim.
ConsumeUse(w, c, newDay) ==
  LET i == task[w].link
      a == owner[i]
  IN /\ task[w].phase = "sweep" /\ task[w].todo = {} /\ i # NoLink
     /\ Usable(i)
     /\ newDay \/ consumedUses[a] < MaxUsesPerDay
     /\ stage[c] = "none"
     /\ remaining' = [remaining EXCEPT ![i] = @ - 1]
     /\ stage' = [stage EXCEPT ![c] = "unassigned"]
     /\ claimLink' = [claimLink EXCEPT ![c] = i]
     /\ consumedUses' = [consumedUses EXCEPT ![a] = IF newDay THEN 1 ELSE @ + 1]
     /\ task' = [task EXCEPT ![w] = Idle]
     /\ UNCHANGED <<settingVars, scoreVars, creditVars, issueVars, issuedLinks,
                    clockVars>>

\* The clean-up is done, or the use is refused.  (Bound: or no claim identity
\* is left to model the use.)
FinishSweep(w) ==
  LET i == task[w].link IN
  /\ task[w].phase = "sweep" /\ task[w].todo = {}
  /\ \/ i = NoLink
     \/ i # NoLink /\ (~Usable(i) \/ consumedUses[owner[i]] >= MaxUsesPerDay)
     \/ \A c \in Claims : stage[c] # "none"
  /\ task' = [task EXCEPT ![w] = Idle]
  /\ UNCHANGED ledgerVars

\* restoreUnassignedInvitationUse, when the sign-up failed before it had the
\* claim assigned.
RollbackClaim(c) ==
  /\ Restorable(c) /\ RestoreUse(c) /\ RestoreRest
  /\ UNCHANGED task

\* initializeRegistration ties an unexpired claim to the new user.
AssignClaim(c) ==
  /\ stage[c] = "unassigned" /\ ~claimExpired[c]
  /\ stage' = [stage EXCEPT ![c] = "assigned"]
  /\ UNCHANGED <<settingVars, scoreVars, creditVars, linkVars, claimLink,
                 limitVars, clockVars, task>>

\* activateRegistration spends the use for good.  The request goes on with
\* reconcileContributionAwards for the inviter.
CompleteClaim(w, c) ==
  /\ task[w] = Idle /\ stage[c] = "assigned"
  /\ stage' = [stage EXCEPT ![c] = "completed"]
  /\ task' = [task EXCEPT ![w] = Contribution(owner[claimLink[c]], 0)]
  /\ UNCHANGED <<settingVars, scoreVars, creditVars, linkVars, claimLink,
                 limitVars, clockVars>>

\* The invited registration is cancelled, rejected or has expired.
CancelClaim(c) ==
  /\ stage[c] = "assigned" /\ RestoreUse(c) /\ RestoreRest
  /\ UNCHANGED task

-----------------------------------------------------------------------------
(* The administrator *)

SetCredits(a, n) ==
  /\ n >= 0
  /\ n <= available[a] \/ n + Obligations(a) <= settings.cap
  /\ available' = [available EXCEPT ![a] = n]
  /\ creditAudit' = [creditAudit EXCEPT ![a] = @ + (n - available[a])]
  /\ UNCHANGED <<settingVars, scoreVars, linkVars, claimVars, limitVars,
                 clockVars, task>>

AddCredits(a, n) ==
  /\ n # 0 /\ available[a] + n >= 0
  /\ n < 0 \/ Owned(a) + n <= settings.cap
  /\ available' = [available EXCEPT ![a] = @ + n]
  /\ creditAudit' = [creditAudit EXCEPT ![a] = @ + n]
  /\ UNCHANGED <<settingVars, scoreVars, linkVars, claimVars, limitVars,
                 clockVars, task>>

\* What distributeInvitationCredits gives one of the chosen accounts.
UncappedShare(a, n) == IF Owned(a) < settings.cap THEN n ELSE 0   \* a mistake

Share(a, n) ==
  IF Owned(a) < settings.cap THEN Smaller(n, AtLeastZero(settings.cap - Owned(a))) ELSE 0

DistributeCredits(A, n) ==
  /\ n > 0
  /\ available' = [a \in Accounts |->
                     available[a] + (IF a \in A THEN Share(a, n) ELSE 0)]
  /\ creditAudit' = [a \in Accounts |->
                     creditAudit[a] + (IF a \in A THEN Share(a, n) ELSE 0)]
  /\ UNCHANGED <<settingVars, scoreVars, linkVars, claimVars, limitVars,
                 clockVars, task>>

\* The audit rows are written before the balances are cleared.  Claims stay:
\* they are refunded to the balance if the sign-up does not complete.
ResetCredits(A) ==
  LET hit(i) == owner[i] \in A /\ ~revoked[i] IN
  /\ creditAudit' = [a \in Accounts |->
                       creditAudit[a] - (IF a \in A THEN available[a] ELSE 0)]
  /\ unused' = [i \in Links |-> IF hit(i) THEN remaining[i] ELSE unused[i]]
  /\ remaining' = [i \in Links |-> IF hit(i) THEN 0 ELSE remaining[i]]
  /\ revoked' = [i \in Links |-> hit(i) \/ revoked[i]]
  /\ available' = [a \in Accounts |-> IF a \in A THEN 0 ELSE available[a]]
  /\ UNCHANGED <<settingVars, scoreVars, owner, issued, claimVars, limitVars,
                 clockVars, task>>

\* availableCapacitySql under the new settings, applied when the request names
\* the cap, changed or not.
Clamped(a, s, namesCap) ==
  IF namesCap THEN Smaller(available[a], AtLeastZero(s.cap - Obligations(a)))
  ELSE available[a]

\* reconciliationTriggers: old settings against new.
Reconciles(s) ==
  \/ s.contribution /\ ~settings.contribution
  \/ s.threshold < settings.threshold
  \/ s.cap > settings.cap

SettingsGrant(a, s, namesCap) ==
  IF Reconciles(s)
  THEN AwardFor(s, Clamped(a, s, namesCap) + Obligations(a), score[a], awardLevel[a])
  ELSE 0

UpdateSettings(s, namesCap) ==
  /\ s.cap # settings.cap => namesCap
  /\ settings' = s
  /\ available' = [a \in Accounts |->
                     Clamped(a, s, namesCap) + SettingsGrant(a, s, namesCap)]
  /\ awardLevel' = [a \in Accounts |-> awardLevel[a] + SettingsGrant(a, s, namesCap)]
  /\ creditAudit' = [a \in Accounts |->
                       creditAudit[a] + (Clamped(a, s, namesCap) - available[a])
                                      + SettingsGrant(a, s, namesCap)]
  /\ awardAudit' = [a \in Accounts |-> awardAudit[a] + SettingsGrant(a, s, namesCap)]
  /\ UNCHANGED <<score, scoreAudit, linkVars, claimVars, limitVars, clockVars, task>>

-----------------------------------------------------------------------------
(* Contributions *)

\* recordContributionEvent read the settings and the points of the event.
StartEvent(w, a, d) ==
  /\ task[w] = Idle /\ settings.contribution
  /\ task' = [task EXCEPT ![w] = Contribution(a, d)]
  /\ UNCHANGED ledgerVars

\* adjustContributionScore by an administrator looks at no setting.
StartAdjustment(w, a, d) ==
  /\ task[w] = Idle
  /\ task' = [task EXCEPT ![w] = Contribution(a, d)]
  /\ UNCHANGED ledgerVars

\* A score outside the safe integers throws.
ReadBalance(w) ==
  LET a == task[w].account IN
  /\ task[w].phase = "read"
  /\ task' = [task EXCEPT ![w] =
       IF score[a] + task[w].delta \in -ScoreBound .. ScoreBound
       THEN [@ EXCEPT !.phase = "commit",
                      !.seen = [available |-> available[a], score |-> score[a],
                                level |-> awardLevel[a]]]
       ELSE Idle]
  /\ UNCHANGED ledgerVars

SeenCreditsAreCurrent(w) ==   \* a mistake: the score is not compared
  task[w].seen.available = available[task[w].account]

SeenIsCurrent(w) ==
  LET a == task[w].account IN
  task[w].seen = [available |-> available[a], score |-> score[a],
                  level |-> awardLevel[a]]

\* The guarded UPDATE hits: the award is computed on the live settings, links
\* and claims, the new score on what was read.
CommitContribution(w) ==
  LET a     == task[w].account
      next  == task[w].seen.score + task[w].delta
      award == AwardFor(settings, Owned(a), next, awardLevel[a])
  IN /\ task[w].phase = "commit" /\ SeenIsCurrent(w)
     /\ available' = [available EXCEPT ![a] = @ + award]
     /\ score' = [score EXCEPT ![a] = next]
     /\ awardLevel' = [awardLevel EXCEPT ![a] = @ + award]
     /\ scoreAudit' = [scoreAudit EXCEPT ![a] = @ + task[w].delta]
     /\ creditAudit' = [creditAudit EXCEPT ![a] = @ + award]
     /\ awardAudit' = [awardAudit EXCEPT ![a] = @ + award]
     /\ task' = [task EXCEPT ![w] = Idle]
     /\ UNCHANGED <<settingVars, linkVars, claimVars, limitVars, clockVars>>

RetryUncounted(t) == [t EXCEPT !.phase = "read", !.seen = Unread]   \* a mistake

Retry(t) == [t EXCEPT !.phase = "read", !.attempt = @ + 1, !.seen = Unread]

\* The guarded UPDATE misses: read again, or throw after the last attempt.
MissContribution(w) ==
  /\ task[w].phase = "commit" /\ ~SeenIsCurrent(w)
  /\ task' = [task EXCEPT ![w] =
       IF @.attempt + 1 < MaxAttempts
       THEN Retry(@)
       ELSE Idle]
  /\ UNCHANGED ledgerVars

-----------------------------------------------------------------------------
(* The specification *)

LinkStep ==
  \/ \E w \in Workers, i \in Links, a \in Accounts, n \in UseChoices, d \in BOOLEAN :
        CreateLink(w, i, a, n, d)
  \/ \E i \in Links : RevokeLink(i) \/ ExpireLink(i)

SweepStep(w) ==
  \/ \E c \in Claims, d \in BOOLEAN : ConsumeUse(w, c, d)
  \/ \E c \in Claims : SweepClaim(w, c)
  \/ FinishSweep(w)

ClaimStep ==
  \/ \E c \in Claims : ExpireClaim(c) \/ RollbackClaim(c) \/ AssignClaim(c) \/ CancelClaim(c)
  \/ \E w \in Workers, c \in Claims : CompleteClaim(w, c)

AdminStep ==
  \/ \E a \in Accounts, n \in CreditChoices : SetCredits(a, n) \/ AddCredits(a, n)
  \/ \E A \in SUBSET Accounts \ {{}} :
        ResetCredits(A) \/ \E n \in CreditChoices : DistributeCredits(A, n)
  \/ \E s \in SettingsChoices, namesCap \in BOOLEAN : UpdateSettings(s, namesCap)

StartStep ==
  \/ \E w \in Workers, i \in Links \cup {NoLink} : StartSweep(w, i)
  \/ \E w \in Workers, a \in Accounts, d \in DeltaChoices :
        StartEvent(w, a, d) \/ StartAdjustment(w, a, d)

ContributionStep(w) == ReadBalance(w) \/ CommitContribution(w) \/ MissContribution(w)

WorkerStep(w) == SweepStep(w) \/ ContributionStep(w)

Next == LinkStep \/ ClaimStep \/ AdminStep \/ StartStep \/ \E w \in Workers : WorkerStep(w)

Spec == Init /\ [][Next]_vars

\* A request that was started is run to its end by the runtime.  Nothing makes
\* anyone send a request, so the other actions get no fairness.
FairSpec == Spec /\ \A w \in Workers : WF_vars(WorkerStep(w))

-----------------------------------------------------------------------------
(* Properties *)

\* Every variable has its type; in particular no balance and no link counter is
\* ever negative (the CHECK clauses of migration 0040) and no daily counter
\* passes its limit.
TypeOK ==
  /\ settings \in SettingsChoices
  /\ available \in [Accounts -> Nat]
  /\ score \in [Accounts -> Int]
  /\ awardLevel \in [Accounts -> Nat]
  /\ owner \in [Links -> Accounts \cup {NoAccount}]
  /\ issued \in [Links -> Nat]
  /\ remaining \in [Links -> Nat]
  /\ unused \in [Links -> Nat]
  /\ revoked \in [Links -> BOOLEAN]
  /\ linkExpired \in [Links -> BOOLEAN]
  /\ stage \in [Claims -> {"none", "unassigned", "assigned", "completed",
                           "restored", "refunded"}]
  /\ claimLink \in [Claims -> Links \cup {NoLink}]
  /\ claimExpired \in [Claims -> BOOLEAN]
  /\ issuedLinks \in [Accounts -> 0 .. MaxLinksPerDay]
  /\ consumedUses \in [Accounts -> 0 .. MaxUsesPerDay]
  /\ creditAudit \in [Accounts -> Int]
  /\ scoreAudit \in [Accounts -> Int]
  /\ awardAudit \in [Accounts -> Int]
  /\ task \in [Workers -> Tasks]

\* The audit log explains the books: its credit rows add up to the balance, its
\* contribution rows to the score (so no concurrent event is lost or applied
\* twice) and its tier rows to the award level.
AuditReconciles ==
  \A a \in Accounts : /\ creditAudit[a] = available[a]
                      /\ scoreAudit[a] = score[a]
                      /\ awardAudit[a] = awardLevel[a]

\* Claims on link i whose use did not come back to the link.
AwayFrom(i) == {c \in Claims : /\ claimLink[c] = i
                               /\ stage[c] \in {"unassigned", "assigned",
                                                "completed", "refunded"}}

\* Every use a link was issued with is in exactly one place: still on the link,
\* returned or discarded when it was revoked, or out with one claim.
UseConservation ==
  \A i \in Links : issued[i] = remaining[i] + unused[i] + Cardinality(AwayFrom(i))

\* A claim that is out can always be given back: its link is revoked or has
\* room, so the batch that restores it never finds nothing to do.
RefundNeverBlocked ==
  \A c \in Outstanding :
    LET i == claimLink[c] IN revoked[i] \/ remaining[i] < issued[i]

\* What an account owns (balance, uses on links, uses out with claims) grows
\* only up to the cap that is in force afterwards.
OwnershipGrowsOnlyUnderCap ==
  [][\A a \in Accounts : Owned(a)' > Owned(a) => Owned(a)' <= settings'.cap]_vars

\* Taking, assigning, restoring and refunding a use mints and destroys nothing;
\* completing the sign-up costs its inviter exactly the one credit.
ClaimStepsMoveOneUse ==
  [][\A c \in Claims, a \in Accounts :
       stage'[c] # stage[c] /\ owner[claimLink'[c]] = a =>
         Owned(a)' = Owned(a) - (IF stage'[c] = "completed" THEN 1 ELSE 0)]_vars

\* A tier is paid once: the level never falls, and it rises only to a level that
\* the score reaches under the threshold in force.
AwardsOnlyNewTiers ==
  [][\A a \in Accounts : awardLevel'[a] # awardLevel[a] =>
       /\ awardLevel'[a] > awardLevel[a]
       /\ awardLevel'[a] * settings'.threshold <= score'[a]]_vars

\* The bank of credits that the ledger implements: what links and claims hold
\* together is held, and a completed claim has spent its credit.
SpentBy(a) == Cardinality({c \in Claims : stage[c] = "completed" /\ owner[claimLink[c]] = a})

Bank == INSTANCE CreditBank WITH
          limit <- settings.cap,
          free  <- available,
          held  <- [a \in Accounts |-> Obligations(a)],
          spent <- [a \in Accounts |-> SpentBy(a)]

\* Whatever the requests, the sweep and the administrators do in whatever order
\* is a step of the bank: no credit is minted beyond the cap, none is lost but
\* by a reset, and each completed sign-up costs one that was out.
ImplementsBank == Bank!BankSpec

\* A request ends however much the others disturb it: the retries of
\* applyContributionDelta are bounded and a sweep works off a fixed list.
RequestsEnd == \A w \in Workers : []<>(task[w] = Idle)
=============================================================================
