-------------------------- MODULE RegistrationProofs --------------------------
(***************************************************************************)
(* Proofs about the ledger of invitations and the registrations that move  *)
(* its uses, in two parts.                                                 *)
(*                                                                         *)
(* The first is about InvitationLedger alone, for any accounts, links,     *)
(* claims, requests, settings, amounts and limits: the types, the audit    *)
(* log, that tiers are paid once, that no invitation use is ever minted or *)
(* lost, that a use that is out with a claim can always be given back,     *)
(* that what an account owns stops at the cap, and that the ledger         *)
(* implements CreditBank.                                                  *)
(*                                                                         *)
(* The second is about Registration, for any users, visitors, links and    *)
(* amounts: an invitation use follows the registration it was assigned to, *)
(* nothing that was decided late overwrites an activation, and the ledger  *)
(* sees nothing but its own steps and the one known way to lose a use.     *)
(***************************************************************************)
EXTENDS Registration, FiniteSetTheorems, FunctionTheorems, TLAPS

-----------------------------------------------------------------------------
(* Arithmetic of the ledger *)

LEMMA AwardType ==
  ASSUME NEW s \in SettingsChoices, NEW o \in Nat, NEW sc \in Int, NEW lv \in Nat
  PROVE  /\ AwardFor(s, o, sc, lv) \in Nat
         /\ AwardFor(s, o, sc, lv) > 0 => o + AwardFor(s, o, sc, lv) <= s.cap
<1>1. s.cap \in Nat /\ s.threshold \in Nat \ {0}
  BY ChoiceAssumption
<1>2. AtLeastZero(sc) \in Nat
  BY DEF AtLeastZero
<1>3. AtLeastZero(sc) \div s.threshold \in Nat
  BY <1>1, <1>2
<1>4. AtLeastZero(AtLeastZero(sc) \div s.threshold - lv) \in Nat
  BY <1>3 DEF AtLeastZero
<1>5. AtLeastZero(s.cap - o) \in Nat /\ (AtLeastZero(s.cap - o) > 0 => o + AtLeastZero(s.cap - o) = s.cap)
  BY <1>1 DEF AtLeastZero
<1> QED
  BY <1>1, <1>4, <1>5 DEF AwardFor, Smaller

LEMMA IntervalFinite ==
  ASSUME NEW n \in Int
  PROVE  IsFiniteSet(1 .. n) /\ Cardinality(1 .. n) = IF n < 1 THEN 0 ELSE n
<1>1. 1 \in Int
  OBVIOUS
<1> QED
  BY <1>1, FS_Interval

LEMMA UnitsFinite ==
  ASSUME TypeOK, NEW a
  PROVE  IsFiniteSet(UNION {UnitsOfLink(i) : i \in ActiveLinks(a)})
<1> DEFINE F == [i \in ActiveLinks(a) |-> UnitsOfLink(i)]
           T == {UnitsOfLink(i) : i \in ActiveLinks(a)}
<1>1. IsFiniteSet(ActiveLinks(a))
  BY IdentityAssumption, FS_Subset DEF ActiveLinks
<1>2. F \in Surjection(ActiveLinks(a), T)
  BY DEF Surjection
<1>3. IsFiniteSet(T)
  BY <1>1, <1>2, FS_Surjection
<1>4. ASSUME NEW i \in ActiveLinks(a) PROVE IsFiniteSet(UnitsOfLink(i))
  <2>1. remaining[i] \in Int
    BY DEF ActiveLinks, TypeOK
  <2>2. IsFiniteSet(1 .. remaining[i]) /\ IsFiniteSet({i})
    BY <2>1, IntervalFinite, FS_Singleton
  <2> QED
    BY <2>2, FS_Product DEF UnitsOfLink
<1>5. \A U \in T : IsFiniteSet(U)
  BY <1>4
<1> QED
  BY <1>3, <1>5, FS_UNION

LEMMA ObligationsType ==
  ASSUME TypeOK, NEW a \in Accounts
  PROVE  /\ Reserved(a) \in Nat /\ PendingRefund(a) \in Nat
         /\ Obligations(a) \in Nat /\ Owned(a) \in Nat
<1>1. Reserved(a) \in Nat
  BY UnitsFinite, FS_CardinalityType DEF Reserved
<1>2. PendingRefund(a) \in Nat
  BY IdentityAssumption, FS_Subset, FS_CardinalityType DEF PendingRefund, Outstanding
<1>3. available[a] \in Nat
  BY DEF TypeOK
<1> QED
  BY <1>1, <1>2, <1>3 DEF Obligations, Owned

-----------------------------------------------------------------------------
(* Type correctness *)

\* A function keeps its type when it is changed in one place, whether or not
\* that place is in its domain.
LEMMA ExceptType ==
  ASSUME NEW S, NEW T, NEW f \in [S -> T], NEW x, NEW v, x \in S => v \in T
  PROVE  [f EXCEPT ![x] = v] \in [S -> T]
OBVIOUS

LEMMA IdleType == Idle \in Tasks /\ Idle \in TaskRecords
BY DEF Idle, Tasks, TaskRecords, Unread, Balance

LEMMA ContributionType ==
  ASSUME NEW a \in Accounts, NEW d \in Int
  PROVE  Contribution(a, d) \in Tasks
<1>1. Contribution(a, d) \in TaskRecords /\ Contribution(a, d).account = a
  BY IdleType DEF Contribution, TaskRecords
<1> QED
  BY <1>1 DEF Tasks

LEMMA SweepType ==
  ASSUME NEW i \in Links \cup {NoLink}, NEW S \in SUBSET Claims
  PROVE  Sweep(S, i) \in Tasks
<1>1. Sweep(S, i) \in TaskRecords /\ Sweep(S, i).phase = "sweep"
  BY IdleType DEF Sweep, TaskRecords
<1> QED
  BY <1>1 DEF Tasks

LEMMA TaskRecordType ==
  ASSUME NEW t \in TaskRecords, NEW b \in Balance, NEW S \in SUBSET Claims
  PROVE  /\ [t EXCEPT !.todo = S] \in TaskRecords
         /\ [t EXCEPT !.phase = "commit"] \in TaskRecords
         /\ [t EXCEPT !.phase = "read"] \in TaskRecords
         /\ [t EXCEPT !.attempt = @ + 1] \in TaskRecords
         /\ [t EXCEPT !.seen = b] \in TaskRecords
<1>1. [t EXCEPT !.todo = S] \in TaskRecords
  BY DEF TaskRecords
<1>2. [t EXCEPT !.phase = "commit"] \in TaskRecords
  BY DEF TaskRecords
<1>3. [t EXCEPT !.phase = "read"] \in TaskRecords
  BY DEF TaskRecords
<1>4. [t EXCEPT !.attempt = @ + 1] \in TaskRecords
  BY DEF TaskRecords
<1>5. [t EXCEPT !.seen = b] \in TaskRecords
  BY DEF TaskRecords
<1> QED
  BY <1>1, <1>2, <1>3, <1>4, <1>5

LEMMA UnreadType == Unread \in Balance
BY DEF Unread, Balance

LEMMA TaskType ==
  ASSUME NEW t \in Tasks, NEW b \in Balance, NEW S \in SUBSET Claims
  PROVE  /\ [t EXCEPT !.todo = S] \in Tasks
         /\ t.account \in Accounts => [t EXCEPT !.phase = "commit", !.seen = b] \in Tasks
         /\ t.account \in Accounts => Retry(t) \in Tasks
<1>1. t \in TaskRecords
  BY DEF Tasks
<1>2. [t EXCEPT !.todo = S] \in Tasks
  <2>1. /\ [t EXCEPT !.todo = S] \in TaskRecords
        /\ [t EXCEPT !.todo = S].phase = t.phase /\ [t EXCEPT !.todo = S].account = t.account
    BY <1>1, TaskRecordType DEF TaskRecords
  <2> QED
    BY <2>1 DEF Tasks
<1>3. ASSUME t.account \in Accounts
      PROVE  [t EXCEPT !.phase = "commit", !.seen = b] \in Tasks
  <2> DEFINE u == [t EXCEPT !.phase = "commit"]
             v == [u EXCEPT !.seen = b]
  <2>1. u \in TaskRecords /\ u.account = t.account
    BY <1>1, TaskRecordType DEF TaskRecords
  <2>2. v \in TaskRecords /\ v.account = t.account
    <3> HIDE DEF u
    <3>1. v \in TaskRecords
      BY <2>1, TaskRecordType
    <3>2. v.account = u.account
      BY <2>1 DEF TaskRecords
    <3> QED
      BY <2>1, <3>1, <3>2
  <2> QED
    BY <1>3, <2>2 DEF Tasks
<1>4. ASSUME t.account \in Accounts
      PROVE  Retry(t) \in Tasks
  <2> DEFINE u == [t EXCEPT !.phase = "read"]
             v == [u EXCEPT !.attempt = @ + 1]
             z == [v EXCEPT !.seen = Unread]
  <2>1. u \in TaskRecords /\ u.account = t.account
    BY <1>1, TaskRecordType DEF TaskRecords
  <2>2. v \in TaskRecords /\ v.account = t.account
    <3> HIDE DEF u
    <3>1. v \in TaskRecords
      BY <2>1, TaskRecordType
    <3>2. v.account = u.account
      BY <2>1 DEF TaskRecords
    <3> QED
      BY <2>1, <3>1, <3>2
  <2>3. z \in TaskRecords /\ z.account = t.account
    <3> HIDE DEF v
    <3>1. z \in TaskRecords
      BY <2>2, TaskRecordType, UnreadType
    <3>2. z.account = v.account
      BY <2>2 DEF TaskRecords
    <3> QED
      BY <2>2, <3>1, <3>2
  <2>4. z \in Tasks
    <3> HIDE DEF z
    <3> QED BY <1>4, <2>3 DEF Tasks
  <2> QED
    BY <2>4 DEF Retry
<1> QED
  BY <1>2, <1>3, <1>4

LEMMA RestoreType ==
  ASSUME TypeOK, NEW c \in Claims, RestoreUse(c), RestoreRest,
         task' \in [Workers -> Tasks]
  PROVE  TypeOK'
<1> USE DEF settingVars, scoreVars, creditVars, issueVars, linkVars, claimVars,
            limitVars, clockVars, RestoreRest
<1>1. /\ remaining' \in [Links -> Nat]
      /\ available' \in [Accounts -> Nat] /\ creditAudit' \in [Accounts -> Int]
      /\ stage' \in [Claims -> {"none", "unassigned", "assigned", "completed",
                                "restored", "refunded"}]
  <2> DEFINE i == claimLink[c]
  <2> HIDE DEF i
  <2>1. CASE RestoreToLink(c)
    <3>1. remaining' = [remaining EXCEPT ![i] = @ + 1] /\ UNCHANGED creditVars
      BY <2>1 DEF RestoreToLink, i
    <3>2. stage' = [stage EXCEPT ![c] = "restored"]
      BY <2>1 DEF RestoreToLink
    <3>3. i \in Links => remaining[i] + 1 \in Nat
      BY DEF TypeOK
    <3>4. remaining' \in [Links -> Nat]
      BY <3>1, <3>3, ExceptType DEF TypeOK
    <3> QED
      BY <3>1, <3>2, <3>4 DEF TypeOK
  <2>2. CASE RefundToBalance(c)
    <3> DEFINE a == owner[i]
    <3> HIDE DEF a
    <3>1. /\ available' = [available EXCEPT ![a] = @ + 1]
          /\ creditAudit' = [creditAudit EXCEPT ![a] = @ + 1]
          /\ UNCHANGED remaining
      BY <2>2 DEF RefundToBalance, i, a
    <3>2. stage' = [stage EXCEPT ![c] = "refunded"]
      BY <2>2 DEF RefundToBalance
    <3>3. a \in Accounts => available[a] + 1 \in Nat /\ creditAudit[a] + 1 \in Int
      BY DEF TypeOK
    <3>4. available' \in [Accounts -> Nat]
      BY <3>1, <3>3, ExceptType DEF TypeOK
    <3>5. creditAudit' \in [Accounts -> Int]
      BY <3>1, <3>3, ExceptType DEF TypeOK
    <3> QED
      BY <3>1, <3>2, <3>4, <3>5 DEF TypeOK
  <2> QED
    BY <2>1, <2>2 DEF RestoreUse
<1> QED
  BY <1>1 DEF TypeOK

LEMMA ShareType ==
  ASSUME TypeOK, NEW a \in Accounts, NEW n \in Int, n > 0
  PROVE  /\ Share(a, n) \in Nat
         /\ Share(a, n) > 0 => Owned(a) + Share(a, n) <= settings.cap
<1>1. settings.cap \in Nat
  BY ChoiceAssumption DEF TypeOK
<1> QED
  BY <1>1, ObligationsType DEF Share, Smaller, AtLeastZero

LEMMA GrantType ==
  ASSUME TypeOK, NEW a \in Accounts, NEW s \in SettingsChoices, NEW k \in BOOLEAN
  PROVE  /\ Clamped(a, s, k) \in Nat /\ Clamped(a, s, k) <= available[a]
         /\ SettingsGrant(a, s, k) \in Nat
         /\ SettingsGrant(a, s, k) > 0 =>
              Clamped(a, s, k) + Obligations(a) + SettingsGrant(a, s, k) <= s.cap
<1>1. s.cap \in Nat /\ available[a] \in Nat /\ Obligations(a) \in Nat
  BY ChoiceAssumption, ObligationsType DEF TypeOK
<1>2. Clamped(a, s, k) \in Nat /\ Clamped(a, s, k) <= available[a]
  BY <1>1 DEF Clamped, Smaller, AtLeastZero
<1>3. score[a] \in Int /\ awardLevel[a] \in Nat
  BY DEF TypeOK
<1> QED
  BY <1>1, <1>2, <1>3, AwardType DEF SettingsGrant

LEMMA CommitType ==
  ASSUME TypeOK, NEW w \in Workers, NEW a \in Accounts, task[w].account = a
  PROVE  LET next == task[w].seen.score + task[w].delta
             award == AwardFor(settings, Owned(a), next, awardLevel[a])
         IN /\ next \in Int /\ task[w].delta \in Int
            /\ award \in Nat
            /\ award > 0 => Owned(a) + award <= settings.cap
<1>1. task[w].seen.score \in Int /\ task[w].delta \in Int
  BY DEF TypeOK, Tasks, TaskRecords, Balance
<1> QED
  BY <1>1, AwardType, ObligationsType DEF TypeOK

\* The foreign keys of migration 0040: a claim names a link, and the link of a
\* claim, or of a use about to be taken, has an inviter.
KeysResolve ==
  /\ \A c \in Claims : stage[c] # "none" =>
        claimLink[c] \in Links /\ owner[claimLink[c]] \in Accounts
  /\ \A w \in Workers : task[w].link \in Links => owner[task[w].link] \in Accounts

LEMMA TypeInit == Init => TypeOK /\ KeysResolve
<1> SUFFICES ASSUME Init PROVE TypeOK /\ KeysResolve
  OBVIOUS
<1>1. 0 \in 0 .. MaxLinksPerDay /\ 0 \in 0 .. MaxUsesPerDay
  BY BoundAssumption
<1>2. TypeOK
  BY <1>1, IdleType DEF Init, TypeOK
<1>3. KeysResolve
  BY IdentityAssumption DEF Init, KeysResolve, Idle
<1> QED
  BY <1>2, <1>3

LEMMA TypeStep == TypeOK /\ KeysResolve /\ [Next]_vars => TypeOK'
<1> SUFFICES ASSUME TypeOK, KeysResolve, [Next]_vars PROVE TypeOK'
  OBVIOUS
<1> USE DEF settingVars, scoreVars, creditVars, issueVars, linkVars, claimVars,
            limitVars, clockVars
<1>1. ASSUME NEW w \in Workers, NEW i \in Links, NEW a \in Accounts,
             NEW n \in UseChoices, NEW d \in BOOLEAN, CreateLink(w, i, a, n, d)
      PROVE  TypeOK'
  <2>1. n \in Nat /\ available[a] - n \in Nat
    BY <1>1, ChoiceAssumption DEF CreateLink, TypeOK
  <2>2. (IF d THEN 1 ELSE issuedLinks[a] + 1) \in 0 .. MaxLinksPerDay
    BY <1>1, BoundAssumption DEF CreateLink, TypeOK
  <2>3. Contribution(a, 0) \in Tasks
    BY ContributionType
  <2> QED
    BY <1>1, <2>1, <2>2, <2>3 DEF CreateLink, TypeOK
<1>2. ASSUME NEW i \in Links, RevokeLink(i) PROVE TypeOK'
  BY <1>2 DEF RevokeLink, TypeOK
<1>3. ASSUME NEW i \in Links, ExpireLink(i) PROVE TypeOK'
  BY <1>3 DEF ExpireLink, TypeOK
<1>4. ASSUME NEW c \in Claims, ExpireClaim(c) PROVE TypeOK'
  BY <1>4 DEF ExpireClaim, TypeOK
<1>5. ASSUME NEW c \in Claims, RollbackClaim(c) PROVE TypeOK'
  BY <1>5, RestoreType DEF RollbackClaim, TypeOK
<1>6. ASSUME NEW c \in Claims, AssignClaim(c) PROVE TypeOK'
  BY <1>6 DEF AssignClaim, TypeOK
<1>7. ASSUME NEW w \in Workers, NEW c \in Claims, CompleteClaim(w, c) PROVE TypeOK'
  <2>1. Contribution(owner[claimLink[c]], 0) \in Tasks
    BY <1>7, ContributionType DEF CompleteClaim, KeysResolve
  <2> QED
    BY <1>7, <2>1 DEF CompleteClaim, TypeOK
<1>8. ASSUME NEW c \in Claims, CancelClaim(c) PROVE TypeOK'
  BY <1>8, RestoreType DEF CancelClaim, TypeOK
<1>9. ASSUME NEW a \in Accounts, NEW n \in CreditChoices, SetCredits(a, n) PROVE TypeOK'
  BY <1>9, ChoiceAssumption DEF SetCredits, TypeOK
<1>10. ASSUME NEW a \in Accounts, NEW n \in CreditChoices, AddCredits(a, n) PROVE TypeOK'
  BY <1>10, ChoiceAssumption DEF AddCredits, TypeOK
<1>11. ASSUME NEW A \in SUBSET Accounts, NEW n \in CreditChoices, DistributeCredits(A, n)
       PROVE  TypeOK'
  <2>1. \A a \in Accounts : Share(a, n) \in Nat
    BY <1>11, ShareType, ChoiceAssumption DEF DistributeCredits
  <2> QED
    BY <1>11, <2>1 DEF DistributeCredits, TypeOK
<1>12. ASSUME NEW A \in SUBSET Accounts, ResetCredits(A) PROVE TypeOK'
  BY <1>12 DEF ResetCredits, TypeOK
<1>13. ASSUME NEW s \in SettingsChoices, NEW k \in BOOLEAN, UpdateSettings(s, k)
       PROVE  TypeOK'
  <2>1. \A a \in Accounts : Clamped(a, s, k) \in Nat /\ SettingsGrant(a, s, k) \in Nat
    BY GrantType
  <2> QED
    BY <1>13, <2>1 DEF UpdateSettings, TypeOK
<1>14. ASSUME NEW w \in Workers, NEW i \in Links \cup {NoLink}, StartSweep(w, i)
       PROVE  TypeOK'
  <2>1. Sweep(DueClaims, i) \in Tasks
    BY SweepType DEF DueClaims
  <2> QED
    BY <1>14, <2>1 DEF StartSweep, TypeOK, ledgerVars
<1>15. ASSUME NEW w \in Workers, NEW a \in Accounts, NEW d \in DeltaChoices,
              StartEvent(w, a, d) \/ StartAdjustment(w, a, d)
       PROVE  TypeOK'
  <2>1. Contribution(a, d) \in Tasks
    BY ContributionType, ChoiceAssumption
  <2> QED
    BY <1>15, <2>1 DEF StartEvent, StartAdjustment, TypeOK, ledgerVars
<1>16. ASSUME NEW w \in Workers, NEW c \in Claims, NEW d \in BOOLEAN, ConsumeUse(w, c, d)
       PROVE  TypeOK'
  <2> DEFINE i == task[w].link
  <2>1. i \in Links /\ task[w] \in Tasks
    BY <1>16 DEF ConsumeUse, TypeOK, Tasks, TaskRecords
  <2>2. remaining[i] - 1 \in Nat
    BY <1>16, <2>1 DEF ConsumeUse, Usable, TypeOK
  <2>3. \A a \in Accounts : a = owner[i] =>
          (IF d THEN 1 ELSE consumedUses[a] + 1) \in 0 .. MaxUsesPerDay
    BY <1>16, BoundAssumption DEF ConsumeUse, TypeOK
  <2> QED
    BY <1>16, <2>1, <2>2, <2>3, IdleType DEF ConsumeUse, TypeOK
<1>17. ASSUME NEW w \in Workers, NEW c \in Claims, SweepClaim(w, c) PROVE TypeOK'
  <2>1. task' \in [Workers -> Tasks]
    <3>1. task[w] \in Tasks /\ task[w].todo \ {c} \in SUBSET Claims
      BY DEF TypeOK, Tasks, TaskRecords
    <3>2. [task[w] EXCEPT !.todo = task[w].todo \ {c}] \in Tasks
      BY <3>1, TaskType, UnreadType
    <3> QED
      BY <1>17, <3>2 DEF SweepClaim, TypeOK
  <2>2. CASE RestoreUse(c) /\ RestoreRest
    BY <2>1, <2>2, RestoreType
  <2>3. CASE UNCHANGED ledgerVars
    BY <2>1, <2>3 DEF ledgerVars, TypeOK
  <2> QED
    BY <1>17, <2>2, <2>3 DEF SweepClaim
<1>18. ASSUME NEW w \in Workers, FinishSweep(w) PROVE TypeOK'
  BY <1>18, IdleType DEF FinishSweep, TypeOK, ledgerVars
<1>19. ASSUME NEW w \in Workers, ReadBalance(w) PROVE TypeOK'
  <2> DEFINE a == task[w].account
             b == [available |-> available[a], score |-> score[a],
                   level |-> awardLevel[a]]
  <2>1. task[w] \in Tasks /\ a \in Accounts
    BY <1>19 DEF TypeOK, Tasks, ReadBalance
  <2>2. b \in Balance
    BY <2>1 DEF TypeOK, Balance
  <2>3. [task[w] EXCEPT !.phase = "commit", !.seen = b] \in Tasks
    BY <2>1, <2>2, TaskType
  <2>4. task' \in [Workers -> Tasks]
    BY <1>19, <2>3, IdleType DEF ReadBalance, TypeOK
  <2> QED
    BY <1>19, <2>4 DEF ReadBalance, TypeOK, ledgerVars
<1>20. ASSUME NEW w \in Workers, CommitContribution(w) PROVE TypeOK'
  <2>1. task[w].account \in Accounts
    BY <1>20 DEF CommitContribution, TypeOK, Tasks
  <2> QED
    BY <1>20, <2>1, IdleType, CommitType DEF CommitContribution, TypeOK
<1>21. ASSUME NEW w \in Workers, MissContribution(w) PROVE TypeOK'
  <2>1. task[w] \in Tasks /\ task[w].account \in Accounts
    BY <1>21 DEF MissContribution, TypeOK, Tasks
  <2>2. Retry(task[w]) \in Tasks
    BY <2>1, TaskType, UnreadType
  <2> QED
    BY <1>21, <2>2, IdleType DEF MissContribution, TypeOK, ledgerVars
<1>22. CASE UNCHANGED vars
  BY <1>22 DEF vars, ledgerVars, TypeOK
<1> QED
  BY <1>1, <1>2, <1>3, <1>4, <1>5, <1>6, <1>7, <1>8, <1>9, <1>10, <1>11, <1>12, <1>13,
     <1>14, <1>15, <1>16, <1>17, <1>18, <1>19, <1>20, <1>21, <1>22
  DEF Next, LinkStep, ClaimStep, AdminStep, StartStep, WorkerStep, SweepStep,
      ContributionStep

\* A link gets its inviter once and keeps it.
LEMMA OwnerStep ==
  ASSUME TypeOK, [Next]_vars
  PROVE  \A i \in Links : owner[i] \in Accounts => owner'[i] \in Accounts
<1> USE DEF issueVars, linkVars, ledgerVars
<1>1. ASSUME UNCHANGED owner
      PROVE  \A i \in Links : owner[i] \in Accounts => owner'[i] \in Accounts
  BY <1>1
<1>2. CASE LinkStep
  <2>1. ASSUME NEW w \in Workers, NEW i \in Links, NEW a \in Accounts,
               NEW n \in UseChoices, NEW d \in BOOLEAN, CreateLink(w, i, a, n, d)
        PROVE  \A j \in Links : owner[j] \in Accounts => owner'[j] \in Accounts
    BY <2>1 DEF CreateLink, TypeOK
  <2>2. ASSUME NEW i \in Links, RevokeLink(i) \/ ExpireLink(i) PROVE UNCHANGED owner
    BY <2>2 DEF RevokeLink, ExpireLink
  <2> QED
    BY <1>1, <1>2, <2>1, <2>2 DEF LinkStep
<1>3. CASE ClaimStep
  BY <1>1, <1>3 DEF ClaimStep, ExpireClaim, RollbackClaim, AssignClaim, CancelClaim,
                    CompleteClaim, RestoreRest
<1>4. CASE AdminStep
  BY <1>1, <1>4 DEF AdminStep, SetCredits, AddCredits, ResetCredits, DistributeCredits,
                    UpdateSettings
<1>5. CASE StartStep \/ UNCHANGED vars
  BY <1>1, <1>5 DEF StartStep, StartSweep, StartEvent, StartAdjustment, vars
<1>6. ASSUME NEW w \in Workers, WorkerStep(w) PROVE UNCHANGED owner
  BY <1>6 DEF WorkerStep, SweepStep, ConsumeUse, SweepClaim, FinishSweep, RestoreRest,
              ContributionStep, ReadBalance, CommitContribution, MissContribution
<1> QED
  BY <1>1, <1>2, <1>3, <1>4, <1>5, <1>6 DEF Next

\* A claim that is not taken now keeps its link, and none comes to life.
LEMMA ClaimKept ==
  ASSUME TypeOK, [Next]_vars,
         NEW c \in Claims, ~ \E w \in Workers, d \in BOOLEAN : ConsumeUse(w, c, d)
  PROVE  /\ claimLink'[c] = claimLink[c]
         /\ stage'[c] # "none" => stage[c] # "none"
<1> DEFINE Kept == claimLink'[c] = claimLink[c] /\ (stage'[c] # "none" => stage[c] # "none")
<1> USE DEF claimVars, ledgerVars
<1>1. ASSUME UNCHANGED <<stage, claimLink>> PROVE Kept
  BY <1>1
<1>2. ASSUME NEW x \in Claims, stage[x] # "none", UNCHANGED claimLink, NEW v,
             stage' = [stage EXCEPT ![x] = v]
      PROVE  Kept
  BY <1>2 DEF TypeOK
<1>3. ASSUME NEW x \in Claims, stage[x] # "none", RestoreUse(x), RestoreRest PROVE Kept
  BY <1>2, <1>3 DEF RestoreUse, RestoreToLink, RefundToBalance, RestoreRest
<1>4. CASE LinkStep
  BY <1>1, <1>4 DEF LinkStep, CreateLink, RevokeLink, ExpireLink
<1>5. CASE ClaimStep
  <2>1. ASSUME NEW x \in Claims, ExpireClaim(x) PROVE Kept
    BY <1>1, <2>1 DEF ExpireClaim
  <2>2. ASSUME NEW x \in Claims, RollbackClaim(x) \/ CancelClaim(x) PROVE Kept
    BY <1>3, <2>2 DEF RollbackClaim, CancelClaim, Restorable
  <2>3. ASSUME NEW x \in Claims, AssignClaim(x) \/ \E w \in Workers : CompleteClaim(w, x)
        PROVE  Kept
    BY <1>2, <2>3 DEF AssignClaim, CompleteClaim
  <2> QED
    BY <1>5, <2>1, <2>2, <2>3 DEF ClaimStep
<1>6. CASE AdminStep
  BY <1>1, <1>6 DEF AdminStep, SetCredits, AddCredits, ResetCredits, DistributeCredits,
                    UpdateSettings
<1>7. CASE StartStep \/ UNCHANGED vars
  BY <1>1, <1>7 DEF StartStep, StartSweep, StartEvent, StartAdjustment, vars
<1>8. ASSUME NEW w \in Workers, WorkerStep(w) PROVE Kept
  <2>1. ASSUME NEW x \in Claims, NEW d \in BOOLEAN, ConsumeUse(w, x, d), x # c PROVE Kept
    BY <2>1 DEF ConsumeUse, TypeOK
  <2>2. ASSUME NEW x \in Claims, SweepClaim(w, x) PROVE Kept
    BY <1>1, <1>3, <2>2 DEF SweepClaim, Restorable
  <2>3. CASE FinishSweep(w) \/ ContributionStep(w)
    BY <1>1, <2>3 DEF FinishSweep, ContributionStep, ReadBalance, CommitContribution,
                      MissContribution
  <2> QED
    BY <1>8, <2>1, <2>2, <2>3 DEF WorkerStep, SweepStep
<1> QED
  BY <1>4, <1>5, <1>6, <1>7, <1>8 DEF Next

\* A request learns of a link only when it starts to take a use of it.
LEMMA TaskLinkStep ==
  ASSUME TypeOK, [Next]_vars, NEW w \in Workers
  PROVE  \/ task'[w].link = task[w].link
         \/ task'[w].link = NoLink
         \/ task'[w].link \in Links /\ owner[task'[w].link] \in Accounts
<1> DEFINE Known == \/ task'[w].link = task[w].link
                    \/ task'[w].link = NoLink
                    \/ task'[w].link \in Links /\ owner[task'[w].link] \in Accounts
<1>1. ASSUME UNCHANGED task PROVE Known
  BY <1>1
<1>2. ASSUME NEW x \in Workers, NEW v, v.link = task[x].link \/ v.link = NoLink,
             task' = [task EXCEPT ![x] = v]
      PROVE  Known
  BY <1>2 DEF TypeOK
<1>3. Idle.link = NoLink
  BY DEF Idle
<1>4. ASSUME NEW a, NEW d PROVE Contribution(a, d).link = NoLink
  BY <1>3 DEF Contribution, Idle
<1>5. CASE LinkStep
  BY <1>1, <1>2, <1>4, <1>5 DEF LinkStep, CreateLink, RevokeLink, ExpireLink
<1>6. CASE ClaimStep
  BY <1>1, <1>2, <1>4, <1>6 DEF ClaimStep, ExpireClaim, RollbackClaim, AssignClaim,
                                CancelClaim, CompleteClaim
<1>7. CASE AdminStep
  BY <1>1, <1>7 DEF AdminStep, SetCredits, AddCredits, ResetCredits, DistributeCredits,
                    UpdateSettings
<1>8. ASSUME NEW x \in Workers, NEW i \in Links \cup {NoLink}, StartSweep(x, i) PROVE Known
  <2>1. Sweep(DueClaims, i).link = i
    BY DEF Sweep, Idle
  <2>2. i \in Links => owner[i] \in Accounts
    BY <1>8 DEF StartSweep, TypeOK
  <2> QED
    BY <1>8, <2>1, <2>2 DEF StartSweep, TypeOK
<1>9. ASSUME NEW x \in Workers, NEW a \in Accounts, NEW d \in DeltaChoices,
             StartEvent(x, a, d) \/ StartAdjustment(x, a, d)
      PROVE  Known
  BY <1>2, <1>4, <1>9 DEF StartEvent, StartAdjustment
<1>10. ASSUME NEW x \in Workers, WorkerStep(x) PROVE Known
  <2>1. task[x] \in TaskRecords
    BY DEF TypeOK, Tasks
  <2>2. \A S : [task[x] EXCEPT !.todo = S].link = task[x].link
    BY <2>1 DEF TaskRecords
  <2>3. \A b : [task[x] EXCEPT !.phase = "commit", !.seen = b].link = task[x].link
    BY <2>1 DEF TaskRecords
  <2>4. Retry(task[x]).link = task[x].link
    BY <2>1 DEF TaskRecords, Retry
  <2>5. CASE \E c \in Claims, d \in BOOLEAN : ConsumeUse(x, c, d)
    BY <1>2, <1>3, <2>5 DEF ConsumeUse
  <2>6. CASE \E c \in Claims : SweepClaim(x, c)
    BY <1>2, <2>2, <2>6 DEF SweepClaim
  <2>7. CASE FinishSweep(x) \/ CommitContribution(x)
    BY <1>2, <1>3, <2>7 DEF FinishSweep, CommitContribution
  <2>8. CASE ReadBalance(x)
    BY <1>2, <1>3, <2>3, <2>8 DEF ReadBalance
  <2>9. CASE MissContribution(x)
    BY <1>2, <1>3, <2>4, <2>9 DEF MissContribution
  <2> QED
    BY <1>10, <2>5, <2>6, <2>7, <2>8, <2>9 DEF WorkerStep, SweepStep, ContributionStep
<1> QED
  BY <1>1, <1>5, <1>6, <1>7, <1>8, <1>9, <1>10 DEF Next, StartStep, vars

LEMMA KeysStep == TypeOK /\ KeysResolve /\ [Next]_vars => KeysResolve'
<1> SUFFICES ASSUME TypeOK, KeysResolve, [Next]_vars PROVE KeysResolve'
  OBVIOUS
<1>1. \A i \in Links : owner[i] \in Accounts => owner'[i] \in Accounts
  BY OwnerStep
<1>2. ASSUME NEW c \in Claims, stage'[c] # "none"
      PROVE  claimLink'[c] \in Links /\ owner'[claimLink'[c]] \in Accounts
  <2>1. CASE \E w \in Workers, d \in BOOLEAN : ConsumeUse(w, c, d)
    <3>1. PICK w \in Workers, d \in BOOLEAN : ConsumeUse(w, c, d)
      BY <2>1
    <3>2. task[w].link \in Links
      BY <3>1 DEF ConsumeUse, TypeOK, Tasks, TaskRecords
    <3>3. claimLink'[c] = task[w].link
      BY <3>1 DEF ConsumeUse, TypeOK
    <3> QED
      BY <1>1, <3>2, <3>3 DEF KeysResolve
  <2>2. CASE ~ \E w \in Workers, d \in BOOLEAN : ConsumeUse(w, c, d)
    BY <1>1, <1>2, <2>2, ClaimKept DEF KeysResolve
  <2> QED
    BY <2>1, <2>2
<1>3. ASSUME NEW w \in Workers, task'[w].link \in Links
      PROVE  owner'[task'[w].link] \in Accounts
  BY <1>1, <1>3, TaskLinkStep, IdentityAssumption DEF KeysResolve
<1> QED
  BY <1>2, <1>3 DEF KeysResolve

\* In every reachable state every row of the ledger has the type that the
\* schema of migration 0040 gives it.
THEOREM TypeCorrect == Spec => []TypeOK
<1>1. Init => TypeOK /\ KeysResolve
  BY TypeInit
<1>2. TypeOK /\ KeysResolve /\ [Next]_vars => TypeOK' /\ KeysResolve'
  BY TypeStep, KeysStep
<1> QED
  BY <1>1, <1>2, PTL DEF Spec

-----------------------------------------------------------------------------
(* The audit log adds up to the books *)

\* Most actions move balance and log by the same amount, or touch neither.
BooksMoveTogether ==
  \A a \in Accounts : /\ creditAudit'[a] - creditAudit[a] = available'[a] - available[a]
                      /\ scoreAudit'[a] - scoreAudit[a] = score'[a] - score[a]
                      /\ awardAudit'[a] - awardAudit[a] = awardLevel'[a] - awardLevel[a]

LEMMA BooksStay ==
  ASSUME TypeOK, UNCHANGED <<creditVars, scoreVars>>
  PROVE  BooksMoveTogether
BY DEF BooksMoveTogether, TypeOK, creditVars, scoreVars

LEMMA CreditsMove ==
  ASSUME TypeOK, UNCHANGED scoreVars, NEW x, NEW n \in Int,
         available' = [available EXCEPT ![x] = @ + n],
         creditAudit' = [creditAudit EXCEPT ![x] = @ + n]
  PROVE  BooksMoveTogether
<1>1. \A a \in Accounts : /\ available'[a] = available[a] + (IF a = x THEN n ELSE 0)
                          /\ creditAudit'[a] = creditAudit[a] + (IF a = x THEN n ELSE 0)
  BY DEF TypeOK
<1>2. \A a \in Accounts : available[a] \in Int /\ creditAudit[a] \in Int
  BY DEF TypeOK
<1> QED
  BY <1>1, <1>2 DEF BooksMoveTogether, TypeOK, scoreVars

LEMMA BooksStep == TypeOK /\ TypeOK' /\ AuditReconciles /\ [Next]_vars => AuditReconciles'
<1> SUFFICES ASSUME TypeOK, TypeOK', AuditReconciles, [Next]_vars PROVE AuditReconciles'
  OBVIOUS
<1>1. ASSUME BooksMoveTogether PROVE AuditReconciles'
  <2> SUFFICES ASSUME NEW a \in Accounts
               PROVE  /\ creditAudit'[a] = available'[a]
                      /\ scoreAudit'[a] = score'[a]
                      /\ awardAudit'[a] = awardLevel'[a]
    BY DEF AuditReconciles
  <2>1. /\ available[a] \in Int /\ score[a] \in Int /\ awardLevel[a] \in Int
        /\ available'[a] \in Int /\ score'[a] \in Int /\ awardLevel'[a] \in Int
        /\ creditAudit'[a] \in Int /\ scoreAudit'[a] \in Int /\ awardAudit'[a] \in Int
    BY DEF TypeOK
  <2> QED
    BY <1>1, <2>1 DEF BooksMoveTogether, AuditReconciles
<1>2. CASE LinkStep
  <2>1. ASSUME NEW w \in Workers, NEW i \in Links, NEW a \in Accounts,
               NEW n \in UseChoices, NEW d \in BOOLEAN, CreateLink(w, i, a, n, d)
        PROVE  BooksMoveTogether
    <3>1. n \in Int /\ -n \in Int
      BY ChoiceAssumption
    <3>2. /\ available' = [available EXCEPT ![a] = @ + (-n)]
          /\ creditAudit' = [creditAudit EXCEPT ![a] = @ + (-n)]
      BY <2>1, <3>1 DEF CreateLink, TypeOK
    <3> QED
      BY <2>1, <3>1, <3>2, CreditsMove DEF CreateLink
  <2>2. ASSUME NEW i \in Links, RevokeLink(i) PROVE BooksMoveTogether
    <3>1. remaining[i] \in Int
      BY DEF TypeOK
    <3> QED
      BY <2>2, <3>1, CreditsMove DEF RevokeLink
  <2>3. ASSUME NEW i \in Links, ExpireLink(i) PROVE BooksMoveTogether
    BY <2>3, BooksStay DEF ExpireLink
  <2> QED
    BY <1>1, <1>2, <2>1, <2>2, <2>3 DEF LinkStep
<1>3. ASSUME NEW c \in Claims, RestoreUse(c), RestoreRest PROVE BooksMoveTogether
  <2>1. CASE RestoreToLink(c)
    BY <1>3, <2>1, BooksStay DEF RestoreToLink, RestoreRest
  <2>2. CASE RefundToBalance(c)
    <3> DEFINE a == owner[claimLink[c]]
    <3>1. /\ available' = [available EXCEPT ![a] = @ + 1]
          /\ creditAudit' = [creditAudit EXCEPT ![a] = @ + 1]
      BY <2>2 DEF RefundToBalance
    <3>2. UNCHANGED scoreVars /\ 1 \in Int
      BY <1>3 DEF RestoreRest
    <3> HIDE DEF a
    <3> QED
      BY <3>1, <3>2, CreditsMove
  <2> QED
    BY <1>3, <2>1, <2>2 DEF RestoreUse
<1>4. CASE ClaimStep
  <2>1. ASSUME NEW c \in Claims,
               ExpireClaim(c) \/ AssignClaim(c) \/ \E w \in Workers : CompleteClaim(w, c)
        PROVE  BooksMoveTogether
    BY <2>1, BooksStay DEF ExpireClaim, AssignClaim, CompleteClaim
  <2>2. ASSUME NEW c \in Claims, RollbackClaim(c) \/ CancelClaim(c)
        PROVE  BooksMoveTogether
    BY <1>3, <2>2 DEF RollbackClaim, CancelClaim
  <2> QED
    BY <1>1, <1>4, <2>1, <2>2 DEF ClaimStep
<1>5. CASE AdminStep
  <2>1. ASSUME NEW a \in Accounts, NEW n \in CreditChoices, SetCredits(a, n)
        PROVE  BooksMoveTogether
    <3>1. n \in Int /\ available[a] \in Int /\ n - available[a] \in Int
      BY ChoiceAssumption DEF TypeOK
    <3>2. available' = [available EXCEPT ![a] = @ + (n - available[a])]
      <4>1. available[a] + (n - available[a]) = n
        BY <3>1
      <4> QED
        BY <2>1, <4>1 DEF SetCredits
    <3> QED
      BY <2>1, <3>1, <3>2, CreditsMove DEF SetCredits
  <2>2. ASSUME NEW a \in Accounts, NEW n \in CreditChoices, AddCredits(a, n)
        PROVE  BooksMoveTogether
    BY <2>2, CreditsMove, ChoiceAssumption DEF AddCredits
  <2>3. ASSUME NEW A \in SUBSET Accounts, ResetCredits(A) PROVE BooksMoveTogether
    BY <2>3 DEF ResetCredits, BooksMoveTogether, TypeOK, scoreVars
  <2>4. ASSUME NEW A \in SUBSET Accounts, NEW n \in CreditChoices, DistributeCredits(A, n)
        PROVE  BooksMoveTogether
    <3>1. \A a \in Accounts : Share(a, n) \in Nat
      BY <2>4, ShareType, ChoiceAssumption DEF DistributeCredits
    <3> QED
      BY <2>4, <3>1 DEF DistributeCredits, BooksMoveTogether, TypeOK, scoreVars
  <2>5. ASSUME NEW s \in SettingsChoices, NEW k \in BOOLEAN, UpdateSettings(s, k)
        PROVE  BooksMoveTogether
    <3>1. \A a \in Accounts : Clamped(a, s, k) \in Nat /\ SettingsGrant(a, s, k) \in Nat
      BY GrantType
    <3> QED
      BY <2>5, <3>1 DEF UpdateSettings, BooksMoveTogether, TypeOK
  <2> QED
    BY <1>1, <1>5, <2>1, <2>2, <2>3, <2>4, <2>5 DEF AdminStep
<1>6. CASE StartStep \/ UNCHANGED vars
  <2>1. UNCHANGED ledgerVars
    BY <1>6 DEF StartStep, StartSweep, StartEvent, StartAdjustment, vars
  <2> QED
    BY <1>1, <2>1, BooksStay DEF ledgerVars
<1>7. ASSUME NEW w \in Workers, SweepStep(w) PROVE AuditReconciles'
  <2>1. ASSUME NEW c \in Claims, NEW d \in BOOLEAN, ConsumeUse(w, c, d)
        PROVE  BooksMoveTogether
    BY <2>1, BooksStay DEF ConsumeUse
  <2>2. ASSUME NEW c \in Claims, SweepClaim(w, c) PROVE BooksMoveTogether
    BY <1>3, <2>2, BooksStay DEF SweepClaim, ledgerVars
  <2>3. ASSUME FinishSweep(w) PROVE BooksMoveTogether
    BY <2>3, BooksStay DEF FinishSweep, ledgerVars
  <2> QED
    BY <1>1, <1>7, <2>1, <2>2, <2>3 DEF SweepStep
<1>8. ASSUME NEW w \in Workers, ContributionStep(w) PROVE AuditReconciles'
  <2>1. CASE ReadBalance(w) \/ MissContribution(w)
    BY <1>1, <2>1, BooksStay DEF ReadBalance, MissContribution, ledgerVars
  <2>2. CASE CommitContribution(w)
    <3> DEFINE a == task[w].account
               next == task[w].seen.score + task[w].delta
               award == AwardFor(settings, Owned(a), next, awardLevel[a])
    <3>1. a \in Accounts
      BY <2>2 DEF CommitContribution, TypeOK, Tasks
    <3>2. award \in Int /\ next \in Int /\ task[w].delta \in Int
      BY <3>1, CommitType
    <3>3. task[w].seen.score = score[a]
      BY <2>2 DEF CommitContribution, SeenIsCurrent
    <3> HIDE DEF award
    <3>4. /\ available' = [available EXCEPT ![a] = @ + award]
          /\ creditAudit' = [creditAudit EXCEPT ![a] = @ + award]
          /\ awardLevel' = [awardLevel EXCEPT ![a] = @ + award]
          /\ awardAudit' = [awardAudit EXCEPT ![a] = @ + award]
          /\ score' = [score EXCEPT ![a] = score[a] + task[w].delta]
          /\ scoreAudit' = [scoreAudit EXCEPT ![a] = @ + task[w].delta]
      BY <2>2, <3>3 DEF CommitContribution, award
    <3> QED
      BY <1>1, <3>1, <3>2, <3>4 DEF BooksMoveTogether, TypeOK
  <2> QED
    BY <1>8, <2>1, <2>2 DEF ContributionStep
<1> QED
  BY <1>2, <1>4, <1>5, <1>6, <1>7, <1>8 DEF Next, WorkerStep

\* Whatever the requests do to each other, the log explains every balance,
\* score and award level: no contribution is lost or counted twice.
THEOREM BooksBalance == Spec => []AuditReconciles
<1>1. Init => AuditReconciles
  BY DEF Init, AuditReconciles
<1> QED
  BY <1>1, TypeCorrect, BooksStep, PTL DEF Spec

-----------------------------------------------------------------------------
(* Uses: minted by a link, moved by claims, never lost *)

\* What conservation rests on: only a link that was issued is ever revoked, and
\* nothing counts as unused before the link is.
UnusedOnlyWhenRevoked ==
  \A i \in Links : /\ revoked[i] => owner[i] \in Accounts
                   /\ ~revoked[i] => unused[i] = 0

UseInv == UnusedOnlyWhenRevoked /\ UseConservation

AwayStages == {"unassigned", "assigned", "completed", "refunded"}

-----------------------------------------------------------------------------
(* Claims that are out *)

LEMMA AwayFinite ==
  ASSUME NEW i
  PROVE  IsFiniteSet(AwayFrom(i)) /\ Cardinality(AwayFrom(i)) \in Nat
BY IdentityAssumption, FS_Subset, FS_CardinalityType DEF AwayFrom

LEMMA AwayStays ==
  ASSUME UNCHANGED <<stage, claimLink>>, NEW i
  PROVE  AwayFrom(i)' = AwayFrom(i)
BY DEF AwayFrom

LEMMA AwayStaysAway ==
  ASSUME TypeOK, UNCHANGED claimLink, NEW c \in Claims, stage[c] \in AwayStages,
         NEW v \in AwayStages, stage' = [stage EXCEPT ![c] = v], NEW i
  PROVE  AwayFrom(i)' = AwayFrom(i)
<1>1. \A d \in Claims : stage'[d] \in AwayStages <=> stage[d] \in AwayStages
  BY DEF TypeOK
<1> QED
  BY <1>1 DEF AwayFrom, AwayStages

LEMMA AwayReturns ==
  ASSUME TypeOK, UNCHANGED claimLink, NEW c \in Claims, stage[c] \in AwayStages,
         stage' = [stage EXCEPT ![c] = "restored"], NEW i
  PROVE  Cardinality(AwayFrom(i)') =
           Cardinality(AwayFrom(i)) - (IF claimLink[c] = i THEN 1 ELSE 0)
<1>1. AwayFrom(i)' = AwayFrom(i) \ {c}
  BY DEF AwayFrom, AwayStages, TypeOK
<1>2. c \in AwayFrom(i) <=> claimLink[c] = i
  BY DEF AwayFrom, AwayStages
<1>3. Cardinality(AwayFrom(i) \ {c}) =
        IF c \in AwayFrom(i) THEN Cardinality(AwayFrom(i)) - 1 ELSE Cardinality(AwayFrom(i))
  BY AwayFinite, FS_RemoveElement
<1>4. Cardinality(AwayFrom(i)) \in Nat
  BY AwayFinite
<1> QED
  BY <1>1, <1>2, <1>3, <1>4

LEMMA AwayTaken ==
  ASSUME TypeOK, NEW c \in Claims, stage[c] = "none", NEW j \in Links,
         stage' = [stage EXCEPT ![c] = "unassigned"],
         claimLink' = [claimLink EXCEPT ![c] = j], NEW i
  PROVE  Cardinality(AwayFrom(i)') = Cardinality(AwayFrom(i)) + (IF i = j THEN 1 ELSE 0)
<1>1. CASE i = j
  <2>1. AwayFrom(i)' = AwayFrom(i) \cup {c}
    BY <1>1 DEF AwayFrom, TypeOK
  <2>2. c \notin AwayFrom(i)
    BY DEF AwayFrom
  <2> QED
    BY <1>1, <2>1, <2>2, AwayFinite, FS_AddElement
<1>2. CASE i # j
  <2>1. AwayFrom(i)' = AwayFrom(i)
    BY <1>2 DEF AwayFrom, TypeOK
  <2> QED
    BY <1>2, <2>1, AwayFinite
<1> QED
  BY <1>1, <1>2

-----------------------------------------------------------------------------
(* The steps *)

\* Most steps touch neither the uses of a link nor the claims on it.
LEMMA UsesStay ==
  ASSUME TypeOK, UseInv, UNCHANGED <<linkVars, stage, claimLink>>
  PROVE  UseInv'
BY AwayStays DEF UseInv, UnusedOnlyWhenRevoked, UseConservation, linkVars, issueVars

LEMMA UsesRestored ==
  ASSUME TypeOK, UseInv, NEW c \in Claims, stage[c] \in {"unassigned", "assigned"},
         claimLink[c] \in Links, RestoreUse(c), RestoreRest
  PROVE  UseInv'
<1> DEFINE i == claimLink[c]
<1> USE DEF RestoreRest, issueVars
<1>1. stage[c] \in AwayStages
  BY DEF AwayStages
<1>2. CASE RestoreToLink(c)
  <2>1. \A j \in Links : Cardinality(AwayFrom(j)') =
                           Cardinality(AwayFrom(j)) - (IF i = j THEN 1 ELSE 0)
    BY <1>1, <1>2, AwayReturns DEF RestoreToLink
  <2>2. \A j \in Links : remaining'[j] = remaining[j] + (IF i = j THEN 1 ELSE 0)
    BY <1>2 DEF RestoreToLink, TypeOK
  <2>3. \A j \in Links : /\ remaining[j] \in Nat /\ unused[j] \in Nat
                         /\ Cardinality(AwayFrom(j)) \in Nat
    BY AwayFinite DEF TypeOK
  <2>4. UseConservation'
    BY <2>1, <2>2, <2>3 DEF UseInv, UseConservation
  <2> QED
    BY <2>4 DEF UseInv, UnusedOnlyWhenRevoked
<1>3. CASE RefundToBalance(c)
  <2>1. \A j \in Links : AwayFrom(j)' = AwayFrom(j)
    BY <1>1, <1>3, AwayStaysAway DEF RefundToBalance, AwayStages
  <2> QED
    BY <1>3, <2>1 DEF RefundToBalance, UseInv, UnusedOnlyWhenRevoked, UseConservation
<1> QED
  BY <1>2, <1>3 DEF RestoreUse

LEMMA UsesIssued ==
  ASSUME TypeOK, KeysResolve, UseInv, NEW w \in Workers, NEW i \in Links,
         NEW a \in Accounts, NEW n \in UseChoices, NEW d \in BOOLEAN,
         CreateLink(w, i, a, n, d)
  PROVE  UseInv'
<1>1. n \in Nat /\ NoAccount \notin Accounts
  BY ChoiceAssumption, IdentityAssumption
<1>2. /\ owner' = [owner EXCEPT ![i] = a] /\ issued' = [issued EXCEPT ![i] = n]
      /\ remaining' = [remaining EXCEPT ![i] = n]
      /\ UNCHANGED <<unused, revoked, stage, claimLink>> /\ owner[i] = NoAccount
  BY DEF CreateLink, claimVars
<1>3. AwayFrom(i) = {}
  BY <1>1, <1>2 DEF AwayFrom, KeysResolve
<1>4. unused[i] = 0
  BY <1>1, <1>2 DEF UseInv, UnusedOnlyWhenRevoked
<1>5. \A j : AwayFrom(j)' = AwayFrom(j)
  BY <1>2, AwayStays
<1>6. UseConservation'
  <2> SUFFICES ASSUME NEW j \in Links
               PROVE  issued'[j] = remaining'[j] + unused'[j] + Cardinality(AwayFrom(j)')
    BY DEF UseConservation
  <2>1. CASE j = i
    <3>1. Cardinality(AwayFrom(j)') = 0
      BY <1>3, <1>5, <2>1, FS_EmptySet
    <3>2. issued'[j] = n /\ remaining'[j] = n /\ unused'[j] = 0
      BY <1>2, <1>4, <2>1 DEF TypeOK
    <3> QED
      BY <1>1, <3>1, <3>2
  <2>2. CASE j # i
    BY <1>2, <1>5, <2>2 DEF UseInv, UseConservation, TypeOK
  <2> QED
    BY <2>1, <2>2
<1>7. UnusedOnlyWhenRevoked'
  BY <1>2 DEF UseInv, UnusedOnlyWhenRevoked, TypeOK
<1> QED
  BY <1>6, <1>7 DEF UseInv

\* Revoking some live links moves what they hold to "unused".
LEMMA UsesRevoked ==
  ASSUME TypeOK, UseInv, UNCHANGED <<owner, issued, stage, claimLink>>,
         NEW L \in SUBSET Links, \A i \in L : owner[i] \in Accounts /\ ~revoked[i],
         \A i \in Links : /\ unused'[i] = IF i \in L THEN remaining[i] ELSE unused[i]
                          /\ remaining'[i] = IF i \in L THEN 0 ELSE remaining[i]
                          /\ revoked'[i] = (i \in L \/ revoked[i])
  PROVE  UseInv'
<1>1. \A i : AwayFrom(i)' = AwayFrom(i)
  BY AwayStays
<1>2. \A i \in Links : /\ remaining[i] \in Nat /\ unused[i] \in Nat
                       /\ Cardinality(AwayFrom(i)) \in Nat
  BY AwayFinite DEF TypeOK
<1>3. \A i \in L : unused[i] = 0
  BY DEF UseInv, UnusedOnlyWhenRevoked
<1>4. UseConservation'
  BY <1>1, <1>2, <1>3 DEF UseInv, UseConservation
<1>5. UnusedOnlyWhenRevoked'
  BY DEF UseInv, UnusedOnlyWhenRevoked
<1> QED
  BY <1>4, <1>5 DEF UseInv

LEMMA UsesConsumed ==
  ASSUME TypeOK, UseInv, NEW w \in Workers, NEW c \in Claims, NEW d \in BOOLEAN,
         ConsumeUse(w, c, d)
  PROVE  UseInv'
<1> DEFINE i == task[w].link
<1>1. i \in Links
  BY DEF ConsumeUse, TypeOK, Tasks, TaskRecords
<1>2. /\ remaining' = [remaining EXCEPT ![i] = @ - 1]
      /\ stage' = [stage EXCEPT ![c] = "unassigned"]
      /\ claimLink' = [claimLink EXCEPT ![c] = i]
      /\ stage[c] = "none" /\ UNCHANGED issueVars
  BY DEF ConsumeUse
<1> HIDE DEF i
<1>3. \A j \in Links : Cardinality(AwayFrom(j)') =
                         Cardinality(AwayFrom(j)) + (IF j = i THEN 1 ELSE 0)
  BY <1>1, <1>2, AwayTaken
<1>4. \A j \in Links : remaining'[j] = remaining[j] - (IF j = i THEN 1 ELSE 0)
  BY <1>1, <1>2 DEF TypeOK
<1>5. \A j \in Links : /\ remaining[j] \in Nat /\ unused[j] \in Nat
                       /\ Cardinality(AwayFrom(j)) \in Nat
  BY AwayFinite DEF TypeOK
<1>6. UseConservation'
  BY <1>2, <1>3, <1>4, <1>5 DEF UseInv, UseConservation, issueVars
<1> QED
  BY <1>2, <1>6 DEF UseInv, UnusedOnlyWhenRevoked, issueVars

LEMMA UsesStep == TypeOK /\ KeysResolve /\ UseInv /\ [Next]_vars => UseInv'
<1> SUFFICES ASSUME TypeOK, KeysResolve, UseInv, [Next]_vars PROVE UseInv'
  OBVIOUS
<1> USE DEF claimVars, ledgerVars
<1>1. CASE LinkStep
  <2>1. ASSUME NEW w \in Workers, NEW i \in Links, NEW a \in Accounts, NEW n \in UseChoices,
               NEW d \in BOOLEAN, CreateLink(w, i, a, n, d)
        PROVE  UseInv'
    BY <2>1, UsesIssued
  <2>2. ASSUME NEW i \in Links, RevokeLink(i) PROVE UseInv'
    <3>1. owner[i] \in Accounts
      BY <2>2 DEF RevokeLink, TypeOK
    <3>2. \A j \in Links : /\ unused'[j] = IF j \in {i} THEN remaining[j] ELSE unused[j]
                           /\ remaining'[j] = IF j \in {i} THEN 0 ELSE remaining[j]
                           /\ revoked'[j] = (j \in {i} \/ revoked[j])
      BY <2>2 DEF RevokeLink, TypeOK
    <3> QED
      <4>1. UNCHANGED <<owner, issued, stage, claimLink>>
        BY <2>2 DEF RevokeLink
      <4>2. {i} \in SUBSET Links /\ \A j \in {i} : owner[j] \in Accounts /\ ~revoked[j]
        BY <2>2, <3>1 DEF RevokeLink
      <4> QED
        BY <3>2, <4>1, <4>2, UsesRevoked
  <2>3. ASSUME NEW i \in Links, ExpireLink(i) PROVE UseInv'
    BY <2>3, UsesStay DEF ExpireLink
  <2> QED
    BY <1>1, <2>1, <2>2, <2>3 DEF LinkStep
<1>2. CASE ClaimStep
  <2>1. ASSUME NEW c \in Claims, ExpireClaim(c) PROVE UseInv'
    BY <2>1, UsesStay DEF ExpireClaim
  <2>2. ASSUME NEW c \in Claims, RollbackClaim(c) \/ CancelClaim(c) PROVE UseInv'
    BY <2>2, UsesRestored DEF RollbackClaim, CancelClaim, Restorable, KeysResolve
  <2>3. ASSUME NEW c \in Claims, AssignClaim(c) \/ \E w \in Workers : CompleteClaim(w, c)
        PROVE  UseInv'
    <3>1. /\ stage[c] \in AwayStages /\ UNCHANGED <<linkVars, claimLink>>
          /\ \E v \in AwayStages : stage' = [stage EXCEPT ![c] = v]
      BY <2>3 DEF AssignClaim, CompleteClaim, AwayStages
    <3>2. \A i : AwayFrom(i)' = AwayFrom(i)
      BY <3>1, AwayStaysAway
    <3> QED
      BY <3>1, <3>2 DEF UseInv, UnusedOnlyWhenRevoked, UseConservation, linkVars, issueVars
  <2> QED
    BY <1>2, <2>1, <2>2, <2>3 DEF ClaimStep
<1>3. CASE AdminStep
  <2>1. ASSUME NEW A \in SUBSET Accounts, ResetCredits(A) PROVE UseInv'
    <3> DEFINE L == {i \in Links : owner[i] \in A /\ ~revoked[i]}
    <3>1. \A i \in L : owner[i] \in Accounts /\ ~revoked[i]
      OBVIOUS
    <3>2. \A i \in Links : /\ unused'[i] = IF i \in L THEN remaining[i] ELSE unused[i]
                           /\ remaining'[i] = IF i \in L THEN 0 ELSE remaining[i]
                           /\ revoked'[i] = (i \in L \/ revoked[i])
      BY <2>1 DEF ResetCredits
    <3>3. UNCHANGED <<owner, issued, stage, claimLink>>
      BY <2>1 DEF ResetCredits
    <3> HIDE DEF L
    <3>4. L \in SUBSET Links
      BY DEF L
    <3> QED
      BY <3>1, <3>2, <3>3, <3>4, UsesRevoked
  <2> QED
    BY <1>3, <2>1, UsesStay DEF AdminStep, SetCredits, AddCredits, DistributeCredits,
                                UpdateSettings
<1>4. CASE StartStep \/ UNCHANGED vars
  BY <1>4, UsesStay DEF StartStep, StartSweep, StartEvent, StartAdjustment, vars
<1>5. ASSUME NEW w \in Workers, WorkerStep(w) PROVE UseInv'
  <2>1. ASSUME NEW c \in Claims, NEW d \in BOOLEAN, ConsumeUse(w, c, d) PROVE UseInv'
    BY <2>1, UsesConsumed
  <2>2. ASSUME NEW c \in Claims, SweepClaim(w, c) PROVE UseInv'
    BY <2>2, UsesStay, UsesRestored DEF SweepClaim, Restorable, KeysResolve
  <2>3. CASE FinishSweep(w) \/ ContributionStep(w)
    BY <2>3, UsesStay DEF FinishSweep, ContributionStep, ReadBalance, CommitContribution,
                          MissContribution
  <2> QED
    BY <1>5, <2>1, <2>2, <2>3 DEF WorkerStep, SweepStep
<1> QED
  BY <1>1, <1>2, <1>3, <1>4, <1>5 DEF Next

LEMMA UsesInit == Init => UseInv
<1> SUFFICES ASSUME Init PROVE UseInv
  OBVIOUS
<1>1. \A i : AwayFrom(i) = {}
  BY DEF Init, AwayFrom
<1>2. UseConservation
  <2>1. \A i \in Links : /\ issued[i] = 0 /\ remaining[i] = 0 /\ unused[i] = 0
                         /\ Cardinality(AwayFrom(i)) = 0
    BY <1>1, FS_EmptySet DEF Init
  <2> QED
    BY <2>1 DEF UseConservation
<1> QED
  BY <1>2 DEF Init, UseInv, UnusedOnlyWhenRevoked

-----------------------------------------------------------------------------
(* The theorems *)

\* Issuing, taking, restoring, refunding, spending, revoking and resetting, in
\* any interleaving of requests, never mint an invitation use and never lose one.
THEOREM UsesConserved == Spec => []UseConservation
<1>1. Init => TypeOK /\ KeysResolve /\ UseInv
  BY TypeInit, UsesInit
<1>2. TypeOK /\ KeysResolve /\ UseInv /\ [Next]_vars => (TypeOK /\ KeysResolve /\ UseInv)'
  BY TypeStep, KeysStep, UsesStep
<1>3. UseInv => UseConservation
  BY DEF UseInv
<1> QED
  BY <1>1, <1>2, <1>3, PTL DEF Spec

LEMMA OutstandingHasRoom ==
  TypeOK /\ KeysResolve /\ UseInv => RefundNeverBlocked
<1> SUFFICES ASSUME TypeOK, KeysResolve, UseInv, NEW c \in Outstanding,
                    ~revoked[claimLink[c]]
             PROVE  remaining[claimLink[c]] < issued[claimLink[c]]
  BY DEF RefundNeverBlocked
<1> DEFINE i == claimLink[c]
<1>1. i \in Links /\ c \in AwayFrom(i)
  BY DEF Outstanding, KeysResolve, AwayFrom
<1> HIDE DEF i
<1>2. Cardinality(AwayFrom(i)) \in Nat /\ Cardinality(AwayFrom(i)) # 0
  BY <1>1, AwayFinite, FS_EmptySet
<1>3. issued[i] = remaining[i] + 0 + Cardinality(AwayFrom(i))
  BY <1>1 DEF i, UseInv, UnusedOnlyWhenRevoked, UseConservation
<1>4. remaining[i] \in Nat
  BY <1>1 DEF TypeOK
<1> QED
  BY <1>2, <1>3, <1>4 DEF i

\* The batch that gives back the use of an outstanding claim always finds its
\* place: the link is revoked, and the balance takes it, or the link has room.
THEOREM RefundsNeverBlocked == Spec => []RefundNeverBlocked
<1>1. Init => TypeOK /\ KeysResolve /\ UseInv
  BY TypeInit, UsesInit
<1>2. TypeOK /\ KeysResolve /\ UseInv /\ [Next]_vars => (TypeOK /\ KeysResolve /\ UseInv)'
  BY TypeStep, KeysStep, UsesStep
<1> QED
  BY <1>1, <1>2, OutstandingHasRoom, PTL DEF Spec

-----------------------------------------------------------------------------
(* What an account owns: balance, uses on its live links and uses out with  *)
(* claims.  Moving a use between the three changes nothing, whatever adds   *)
(* to the sum stops at the cap, and so the ledger implements CreditBank:    *)
(* links and claims hold what the bank calls held, completed claims are     *)
(* what it calls spent.                                                     *)


\* Reserved(a) counts these, PendingRefund(a) those.
Units(a) == {u \in Links \X Nat : /\ owner[u[1]] = a /\ ~revoked[u[1]]
                                  /\ u[2] \in 1 .. remaining[u[1]]}
OutWith(a) == {c \in Outstanding : owner[claimLink[c]] = a}

-----------------------------------------------------------------------------
(* Counting units *)

LEMMA ReservedCounts ==
  ASSUME TypeOK, NEW a
  PROVE  /\ Reserved(a) = Cardinality(Units(a)) /\ IsFiniteSet(Units(a))
         /\ Reserved(a) \in Nat
<1>1. \A i \in Links : remaining[i] \in Nat
  BY DEF TypeOK
<1>2. Units(a) = UNION {UnitsOfLink(i) : i \in ActiveLinks(a)}
  <2>1. ASSUME NEW u \in Units(a) PROVE u \in UNION {UnitsOfLink(i) : i \in ActiveLinks(a)}
    BY <2>1 DEF Units, UnitsOfLink, ActiveLinks
  <2>2. ASSUME NEW i \in ActiveLinks(a), NEW u \in UnitsOfLink(i) PROVE u \in Units(a)
    BY <1>1, <2>2 DEF Units, UnitsOfLink, ActiveLinks
  <2> QED
    BY <2>1, <2>2
<1> QED
  BY <1>2, UnitsFinite, FS_CardinalityType DEF Reserved

LEMMA ReservedCountsNext ==
  ASSUME TypeOK', NEW a
  PROVE  Reserved(a)' = Cardinality(Units(a)')
<1>1. \A i \in Links : remaining'[i] \in Nat
  BY DEF TypeOK
<1>2. Units(a)' = UNION {UnitsOfLink(i)' : i \in ActiveLinks(a)'}
  <2>1. ASSUME NEW u \in Units(a)' PROVE u \in UNION {UnitsOfLink(i)' : i \in ActiveLinks(a)'}
    BY <2>1 DEF Units, UnitsOfLink, ActiveLinks
  <2>2. ASSUME NEW i \in ActiveLinks(a)', NEW u \in UnitsOfLink(i)' PROVE u \in Units(a)'
    BY <1>1, <2>2 DEF Units, UnitsOfLink, ActiveLinks
  <2> QED
    BY <2>1, <2>2
<1> QED
  BY <1>2 DEF Reserved

LEMMA ReservedStays ==
  ASSUME UNCHANGED <<owner, revoked, remaining>>, NEW a
  PROVE  Reserved(a)' = Reserved(a)
BY DEF Reserved, ActiveLinks, UnitsOfLink

LEMMA ReservedRises ==
  ASSUME TypeOK, TypeOK', NEW i \in Links, ~revoked[i], UNCHANGED <<owner, revoked>>,
         remaining' = [remaining EXCEPT ![i] = @ + 1], NEW a
  PROVE  Reserved(a)' = Reserved(a) + (IF owner[i] = a THEN 1 ELSE 0)
<1> DEFINE u == <<i, remaining[i] + 1>>
<1>1. remaining[i] \in Nat /\ \A j \in Links : remaining[j] \in Nat
  BY DEF TypeOK
<1>2. \A j \in Links : remaining'[j] = IF j = i THEN remaining[i] + 1 ELSE remaining[j]
  BY DEF TypeOK
<1>3. CASE owner[i] = a
  <2>1. Units(a)' = Units(a) \cup {u}
    BY <1>1, <1>2, <1>3 DEF Units
  <2>2. u \notin Units(a)
    BY <1>1 DEF Units
  <2> HIDE DEF u
  <2>3. Cardinality(Units(a)') = Cardinality(Units(a)) + 1
    BY <2>1, <2>2, ReservedCounts, FS_AddElement
  <2> QED
    BY <1>3, <2>3, ReservedCounts, ReservedCountsNext
<1>4. CASE owner[i] # a
  <2>1. Units(a)' = Units(a)
    BY <1>2, <1>4 DEF Units
  <2> QED
    BY <1>4, <2>1, ReservedCounts, ReservedCountsNext
<1> QED
  BY <1>3, <1>4

LEMMA ReservedFalls ==
  ASSUME TypeOK, TypeOK', NEW i \in Links, ~revoked[i], remaining[i] > 0,
         UNCHANGED <<owner, revoked>>, remaining' = [remaining EXCEPT ![i] = @ - 1], NEW a
  PROVE  Reserved(a)' = Reserved(a) - (IF owner[i] = a THEN 1 ELSE 0)
<1> DEFINE u == <<i, remaining[i]>>
<1>1. remaining[i] \in Nat /\ \A j \in Links : remaining[j] \in Nat
  BY DEF TypeOK
<1>2. \A j \in Links : remaining'[j] = IF j = i THEN remaining[i] - 1 ELSE remaining[j]
  BY DEF TypeOK
<1>3. CASE owner[i] = a
  <2>1. Units(a)' = Units(a) \ {u}
    BY <1>1, <1>2, <1>3 DEF Units
  <2>2. u \in Units(a)
    BY <1>1, <1>3 DEF Units
  <2> HIDE DEF u
  <2>3. Cardinality(Units(a)') = Cardinality(Units(a)) - 1
    BY <2>1, <2>2, ReservedCounts, FS_RemoveElement
  <2> QED
    BY <1>3, <2>3, ReservedCounts, ReservedCountsNext
<1>4. CASE owner[i] # a
  <2>1. Units(a)' = Units(a)
    BY <1>2, <1>4 DEF Units
  <2> QED
    BY <1>4, <2>1, ReservedCounts, ReservedCountsNext
<1> QED
  BY <1>3, <1>4

LEMMA UnitsOfLinkCount ==
  ASSUME NEW i, NEW n \in Nat
  PROVE  IsFiniteSet({i} \X (1 .. n)) /\ Cardinality({i} \X (1 .. n)) = n
<1>1. IsFiniteSet(1 .. n) /\ Cardinality(1 .. n) = n
  BY IntervalFinite
<1>2. IsFiniteSet({i}) /\ Cardinality({i}) = 1
  BY FS_Singleton
<1> QED
  BY <1>1, <1>2, FS_Product

LEMMA ReservedIssued ==
  ASSUME TypeOK, TypeOK', NEW i \in Links, NEW b \in Accounts, NEW n \in Nat,
         owner[i] = NoAccount, owner' = [owner EXCEPT ![i] = b],
         remaining' = [remaining EXCEPT ![i] = n], UNCHANGED revoked, NEW a \in Accounts
  PROVE  /\ Reserved(a)' <= Reserved(a) + (IF a = b THEN n ELSE 0)
         /\ Reserved(a)' \in Nat
<1> DEFINE T == {i} \X (1 .. n)
<1>1. IsFiniteSet(T) /\ Cardinality(T) = n
  BY UnitsOfLinkCount
<1>2. /\ \A j \in Links : owner'[j] = IF j = i THEN b ELSE owner[j]
      /\ \A j \in Links : remaining'[j] = IF j = i THEN n ELSE remaining[j]
  BY DEF TypeOK
<1>3. Reserved(a) \in Nat /\ Reserved(a) = Cardinality(Units(a)) /\ IsFiniteSet(Units(a))
  BY ReservedCounts
<1>4. CASE a = b
  <2>1. Units(a)' \subseteq Units(a) \cup T
    BY <1>2, <1>4 DEF Units
  <2> HIDE DEF T
  <2>2. /\ IsFiniteSet(Units(a) \cup T)
        /\ Cardinality(Units(a) \cup T) =
             Cardinality(Units(a)) + n - Cardinality(Units(a) \cap T)
    BY <1>1, <1>3, FS_Union
  <2>3. Cardinality(Units(a) \cap T) \in Nat
    BY <1>3, FS_Subset, FS_CardinalityType
  <2>4. Cardinality(Units(a)') <= Cardinality(Units(a) \cup T) /\ Cardinality(Units(a)') \in Nat
    BY <2>1, <2>2, FS_Subset, FS_CardinalityType
  <2> QED
    BY <1>3, <1>4, <2>2, <2>3, <2>4, ReservedCountsNext
<1>5. CASE a # b
  <2>1. Units(a)' = Units(a)
    BY <1>2, <1>5, IdentityAssumption DEF Units
  <2> QED
    BY <1>3, <1>5, <2>1, ReservedCountsNext
<1> QED
  BY <1>4, <1>5

LEMMA ReservedRevoked ==
  ASSUME TypeOK, TypeOK', NEW i \in Links, ~revoked[i], UNCHANGED owner,
         revoked' = [revoked EXCEPT ![i] = TRUE],
         remaining' = [remaining EXCEPT ![i] = 0], NEW a
  PROVE  Reserved(a)' = Reserved(a) - (IF a = owner[i] THEN remaining[i] ELSE 0)
<1> DEFINE T == {i} \X (1 .. remaining[i])
<1>1. remaining[i] \in Nat
  BY DEF TypeOK
<1>2. IsFiniteSet(T) /\ Cardinality(T) = remaining[i]
  BY <1>1, UnitsOfLinkCount
<1>3. /\ \A j \in Links : revoked'[j] = (j = i \/ revoked[j])
      /\ \A j \in Links : j # i => remaining'[j] = remaining[j]
  BY DEF TypeOK
<1>4. CASE a = owner[i]
  <2>1. Units(a)' = Units(a) \ T
    BY <1>3 DEF Units
  <2>2. Units(a) \cap T = T
    BY <1>1, <1>4 DEF Units
  <2> HIDE DEF T
  <2>3. Cardinality(Units(a) \ T) = Cardinality(Units(a)) - Cardinality(Units(a) \cap T)
    BY ReservedCounts, FS_Difference
  <2> QED
    BY <1>2, <1>4, <2>1, <2>2, <2>3, ReservedCounts, ReservedCountsNext
<1>5. CASE a # owner[i]
  <2>1. Units(a)' = Units(a)
    BY <1>3, <1>5 DEF Units
  <2> QED
    BY <1>5, <2>1, ReservedCounts, ReservedCountsNext
<1> QED
  BY <1>4, <1>5

-----------------------------------------------------------------------------
(* Counting claims *)

LEMMA PendingCounts ==
  ASSUME NEW a
  PROVE  /\ IsFiniteSet(OutWith(a)) /\ PendingRefund(a) = Cardinality(OutWith(a))
         /\ PendingRefund(a) \in Nat /\ PendingRefund(a)' = Cardinality(OutWith(a)')
BY IdentityAssumption, FS_Subset, FS_CardinalityType DEF OutWith, PendingRefund, Outstanding

LEMMA PendingStays ==
  ASSUME UNCHANGED <<owner, stage, claimLink>>, NEW a
  PROVE  PendingRefund(a)' = PendingRefund(a)
BY DEF PendingRefund, Outstanding

LEMMA PendingTaken ==
  ASSUME TypeOK, NEW c \in Claims, stage[c] = "none", NEW i \in Links, UNCHANGED owner,
         stage' = [stage EXCEPT ![c] = "unassigned"],
         claimLink' = [claimLink EXCEPT ![c] = i], NEW a
  PROVE  PendingRefund(a)' = PendingRefund(a) + (IF owner[i] = a THEN 1 ELSE 0)
<1>1. CASE owner[i] = a
  <2>1. OutWith(a)' = OutWith(a) \cup {c}
    BY <1>1 DEF OutWith, Outstanding, TypeOK
  <2>2. c \notin OutWith(a)
    BY DEF OutWith, Outstanding
  <2>3. Cardinality(OutWith(a)') = Cardinality(OutWith(a)) + 1
    BY <2>1, <2>2, PendingCounts, FS_AddElement
  <2> QED
    BY <1>1, <2>3, PendingCounts
<1>2. CASE owner[i] # a
  <2>1. OutWith(a)' = OutWith(a)
    BY <1>2 DEF OutWith, Outstanding, TypeOK
  <2> QED
    BY <1>2, <2>1, PendingCounts
<1> QED
  BY <1>1, <1>2

LEMMA PendingEnds ==
  ASSUME TypeOK, NEW c \in Outstanding, UNCHANGED <<owner, claimLink>>,
         NEW v \in {"completed", "restored", "refunded"},
         stage' = [stage EXCEPT ![c] = v], NEW a
  PROVE  PendingRefund(a)' = PendingRefund(a) - (IF owner[claimLink[c]] = a THEN 1 ELSE 0)
<1>1. OutWith(a)' = OutWith(a) \ {c}
  BY DEF OutWith, Outstanding, TypeOK
<1>2. c \in OutWith(a) <=> owner[claimLink[c]] = a
  BY DEF OutWith
<1>3. Cardinality(OutWith(a) \ {c}) =
        IF c \in OutWith(a) THEN Cardinality(OutWith(a)) - 1 ELSE Cardinality(OutWith(a))
  BY PendingCounts, FS_RemoveElement
<1>4. PendingRefund(a)' = Cardinality(OutWith(a) \ {c})
  BY <1>1, PendingCounts
<1>5. PendingRefund(a) = Cardinality(OutWith(a)) /\ PendingRefund(a) \in Nat
  BY PendingCounts
<1> QED
  BY <1>2, <1>3, <1>4, <1>5

\* Assigning a claim moves it from one outstanding stage to the other; issuing a
\* link leaves it alone, since its link has an inviter already.
LEMMA PendingSame ==
  ASSUME Outstanding' = Outstanding, UNCHANGED claimLink,
         \A c \in Outstanding : owner'[claimLink[c]] = owner[claimLink[c]], NEW a
  PROVE  PendingRefund(a)' = PendingRefund(a)
<1>1. OutWith(a)' = OutWith(a)
  BY DEF OutWith
<1> QED
  BY <1>1, PendingCounts

-----------------------------------------------------------------------------
(* The steps *)

GrowsUnderCap == \A a \in Accounts : Owned(a)' > Owned(a) => Owned(a)' <= settings'.cap

MovesOneUse ==
  \A c \in Claims, a \in Accounts :
    stage'[c] # stage[c] /\ owner[claimLink'[c]] = a =>
      Owned(a)' = Owned(a) - (IF stage'[c] = "completed" THEN 1 ELSE 0)

LEMMA OwnedType ==
  ASSUME TypeOK, NEW a \in Accounts
  PROVE  /\ Owned(a) = available[a] + Reserved(a) + PendingRefund(a)
         /\ Owned(a)' = available'[a] + (Reserved(a)' + PendingRefund(a)')
         /\ available[a] \in Nat /\ Reserved(a) \in Nat /\ PendingRefund(a) \in Nat
         /\ Obligations(a) = Reserved(a) + PendingRefund(a)
<1>1. available[a] \in Nat /\ Reserved(a) \in Nat /\ PendingRefund(a) \in Nat
  BY ObligationsType DEF TypeOK
<1>2. Obligations(a) = Reserved(a) + PendingRefund(a)
  BY DEF Obligations
<1>3. Owned(a) = available[a] + Reserved(a) + PendingRefund(a)
  BY <1>1, <1>2 DEF Owned
<1>4. Owned(a)' = available'[a] + (Reserved(a)' + PendingRefund(a)')
  BY DEF Owned, Obligations
<1> QED
  BY <1>1, <1>2, <1>3, <1>4

LEMMA NothingMoves ==
  ASSUME TypeOK, UNCHANGED <<available, owner, revoked, remaining, stage, claimLink>>
  PROVE  GrowsUnderCap /\ MovesOneUse
<1>1. \A a \in Accounts : Owned(a)' = Owned(a) /\ Owned(a) \in Nat
  BY ReservedStays, PendingStays, ObligationsType DEF Owned, Obligations
<1> QED
  BY <1>1 DEF GrowsUnderCap, MovesOneUse

\* A use comes back to its link or to the balance of the inviter.
LEMMA RestoringMoves ==
  ASSUME TypeOK, TypeOK', KeysResolve, NEW c \in Outstanding, RestoreUse(c), RestoreRest
  PROVE  GrowsUnderCap /\ MovesOneUse
<1> DEFINE i == claimLink[c]
<1> USE DEF RestoreRest, issueVars, creditVars
<1>1. i \in Links /\ owner[i] \in Accounts /\ c \in Claims
  BY DEF Outstanding, KeysResolve
<1>2. ASSUME NEW a \in Accounts
      PROVE  Owned(a)' = Owned(a) /\ Owned(a) \in Nat
  <2>1. CASE RestoreToLink(c)
    <3>1. Reserved(a)' = Reserved(a) + (IF owner[i] = a THEN 1 ELSE 0)
      BY <1>1, <2>1, ReservedRises DEF RestoreToLink
    <3>2. PendingRefund(a)' = PendingRefund(a) - (IF owner[i] = a THEN 1 ELSE 0)
      BY <2>1, PendingEnds DEF RestoreToLink
    <3>3. available'[a] = available[a]
      BY <2>1 DEF RestoreToLink
    <3> QED
      BY <3>1, <3>2, <3>3, OwnedType
  <2>2. CASE RefundToBalance(c)
    <3>1. Reserved(a)' = Reserved(a)
      BY <2>2, ReservedStays DEF RefundToBalance
    <3>2. PendingRefund(a)' = PendingRefund(a) - (IF owner[i] = a THEN 1 ELSE 0)
      BY <2>2, PendingEnds DEF RefundToBalance
    <3>3. available'[a] = available[a] + (IF owner[i] = a THEN 1 ELSE 0)
      BY <1>1, <2>2 DEF RefundToBalance, TypeOK
    <3> QED
      BY <3>1, <3>2, <3>3, OwnedType
  <2> QED
    BY <2>1, <2>2 DEF RestoreUse
<1>3. \A d \in Claims : stage'[d] # "completed" \/ stage'[d] = stage[d]
  BY <1>1 DEF RestoreUse, RestoreToLink, RefundToBalance, TypeOK
<1> QED
  BY <1>2, <1>3 DEF GrowsUnderCap, MovesOneUse

LEMMA ConsumingMoves ==
  ASSUME TypeOK, TypeOK', NEW w \in Workers, NEW c \in Claims, NEW d \in BOOLEAN,
         ConsumeUse(w, c, d)
  PROVE  GrowsUnderCap /\ MovesOneUse
<1> DEFINE i == task[w].link
<1>1. i \in Links
  BY DEF ConsumeUse, TypeOK, Tasks, TaskRecords
<1>2. /\ remaining' = [remaining EXCEPT ![i] = @ - 1] /\ remaining[i] > 0 /\ ~revoked[i]
      /\ stage' = [stage EXCEPT ![c] = "unassigned"] /\ stage[c] = "none"
      /\ claimLink' = [claimLink EXCEPT ![c] = i]
      /\ UNCHANGED <<available, owner, revoked>>
  BY DEF ConsumeUse, Usable, creditVars, issueVars
<1> HIDE DEF i
<1>3. ASSUME NEW a \in Accounts PROVE Owned(a)' = Owned(a) /\ Owned(a) \in Nat
  <2>1. Reserved(a)' = Reserved(a) - (IF owner[i] = a THEN 1 ELSE 0)
    BY <1>1, <1>2, ReservedFalls
  <2>2. PendingRefund(a)' = PendingRefund(a) + (IF owner[i] = a THEN 1 ELSE 0)
    BY <1>1, <1>2, PendingTaken
  <2> QED
    BY <1>2, <2>1, <2>2, OwnedType
<1>4. \A e \in Claims : stage'[e] # "completed" \/ stage'[e] = stage[e]
  BY <1>2 DEF TypeOK
<1> QED
  BY <1>3, <1>4 DEF GrowsUnderCap, MovesOneUse

\* A claim is assigned, which moves nothing, or its use is spent.
LEMMA SigningUpMoves ==
  ASSUME TypeOK, NEW c \in Claims, AssignClaim(c) \/ \E w \in Workers : CompleteClaim(w, c)
  PROVE  GrowsUnderCap /\ MovesOneUse
<1>1. /\ UNCHANGED <<available, owner, revoked, remaining, claimLink>> /\ c \in Outstanding
      /\ \/ stage' = [stage EXCEPT ![c] = "assigned"]
         \/ stage' = [stage EXCEPT ![c] = "completed"]
  BY DEF AssignClaim, CompleteClaim, Outstanding, creditVars, linkVars, issueVars
<1>2. \A a \in Accounts : Reserved(a)' = Reserved(a)
  BY <1>1, ReservedStays
<1>3. CASE stage' = [stage EXCEPT ![c] = "assigned"]
  <2>1. Outstanding' = Outstanding
    BY <1>1, <1>3 DEF Outstanding, TypeOK
  <2>2. \A a \in Accounts : PendingRefund(a)' = PendingRefund(a)
    BY <1>1, <2>1, PendingSame
  <2>3. \A a \in Accounts : Owned(a)' = Owned(a) /\ Owned(a) \in Nat
    BY <1>1, <1>2, <2>2, OwnedType
  <2>4. \A e \in Claims : stage'[e] # "completed" \/ stage'[e] = stage[e]
    BY <1>3 DEF TypeOK
  <2> QED
    BY <2>3, <2>4 DEF GrowsUnderCap, MovesOneUse
<1>4. CASE stage' = [stage EXCEPT ![c] = "completed"]
  <2>1. \A a \in Accounts :
          PendingRefund(a)' = PendingRefund(a) - (IF owner[claimLink[c]] = a THEN 1 ELSE 0)
    BY <1>1, <1>4, PendingEnds
  <2>2. \A a \in Accounts :
          /\ Owned(a) \in Nat
          /\ Owned(a)' = Owned(a) - (IF owner[claimLink[c]] = a THEN 1 ELSE 0)
    BY <1>1, <1>2, <2>1, OwnedType
  <2>3. \A e \in Claims : stage'[e] # stage[e] => e = c /\ stage'[e] = "completed"
    BY <1>4 DEF TypeOK
  <2> QED
    BY <1>1, <2>2, <2>3 DEF GrowsUnderCap, MovesOneUse
<1> QED
  BY <1>1, <1>3, <1>4

LEMMA IssuingMoves ==
  ASSUME TypeOK, TypeOK', KeysResolve, NEW w \in Workers, NEW i \in Links,
         NEW b \in Accounts, NEW n \in UseChoices, NEW d \in BOOLEAN,
         CreateLink(w, i, b, n, d)
  PROVE  GrowsUnderCap /\ MovesOneUse
<1>1. n \in Nat /\ NoAccount \notin Accounts
  BY ChoiceAssumption, IdentityAssumption
<1>2. /\ owner' = [owner EXCEPT ![i] = b] /\ owner[i] = NoAccount
      /\ remaining' = [remaining EXCEPT ![i] = n]
      /\ available' = [available EXCEPT ![b] = @ - n]
      /\ UNCHANGED <<revoked, stage, claimLink>>
  BY DEF CreateLink, claimVars
<1>3. \A a \in Accounts : /\ Reserved(a)' <= Reserved(a) + (IF a = b THEN n ELSE 0)
                          /\ Reserved(a)' \in Nat
  BY <1>1, <1>2, ReservedIssued
<1>4. \A a \in Accounts : PendingRefund(a)' = PendingRefund(a)
  <2>1. Outstanding' = Outstanding
    BY <1>2 DEF Outstanding
  <2>2. \A c \in Outstanding : owner'[claimLink[c]] = owner[claimLink[c]]
    BY <1>1, <1>2 DEF Outstanding, KeysResolve, TypeOK
  <2> QED
    BY <1>2, <2>1, <2>2, PendingSame
<1>5. \A a \in Accounts : available'[a] = available[a] - (IF a = b THEN n ELSE 0)
  BY <1>1, <1>2 DEF TypeOK
<1>6. ASSUME NEW a \in Accounts PROVE ~ Owned(a)' > Owned(a)
  BY <1>1, <1>3, <1>4, <1>5, OwnedType
<1> QED
  BY <1>2, <1>6 DEF GrowsUnderCap, MovesOneUse

LEMMA RevokingMoves ==
  ASSUME TypeOK, TypeOK', NEW i \in Links, RevokeLink(i)
  PROVE  GrowsUnderCap /\ MovesOneUse
<1>1. owner[i] \in Accounts /\ remaining[i] \in Nat
  BY DEF RevokeLink, TypeOK
<1>2. ASSUME NEW a \in Accounts PROVE Owned(a)' = Owned(a) /\ Owned(a) \in Nat
  <2>1. Reserved(a)' = Reserved(a) - (IF a = owner[i] THEN remaining[i] ELSE 0)
    BY ReservedRevoked DEF RevokeLink
  <2>2. PendingRefund(a)' = PendingRefund(a)
    BY PendingStays DEF RevokeLink, claimVars
  <2>3. available'[a] = available[a] + (IF a = owner[i] THEN remaining[i] ELSE 0)
    BY <1>1 DEF RevokeLink, TypeOK
  <2> QED
    BY <1>1, <2>1, <2>2, <2>3, OwnedType
<1> QED
  BY <1>2 DEF RevokeLink, claimVars, GrowsUnderCap, MovesOneUse

LEMMA ResettingMoves ==
  ASSUME TypeOK, TypeOK', NEW A \in SUBSET Accounts, ResetCredits(A)
  PROVE  GrowsUnderCap /\ MovesOneUse
<1>1. ASSUME NEW a \in Accounts PROVE ~ Owned(a)' > Owned(a)
  <2>1. Units(a)' \subseteq Units(a)
    BY DEF ResetCredits, Units
  <2>2. Cardinality(Units(a)') <= Cardinality(Units(a)) /\ Cardinality(Units(a)') \in Nat
    BY <2>1, ReservedCounts, FS_Subset, FS_CardinalityType
  <2>3. Reserved(a)' <= Reserved(a) /\ Reserved(a)' \in Nat
    BY <2>2, ReservedCounts, ReservedCountsNext
  <2>4. PendingRefund(a)' = PendingRefund(a)
    BY PendingStays DEF ResetCredits, claimVars
  <2>5. available'[a] \in Nat /\ available'[a] <= available[a]
    BY DEF ResetCredits, TypeOK
  <2> QED
    BY <2>3, <2>4, <2>5, OwnedType
<1> QED
  BY <1>1 DEF ResetCredits, claimVars, GrowsUnderCap, MovesOneUse

\* When only balances change, what an account owns changes as its balance does.
LEMMA BalanceMoves ==
  ASSUME TypeOK, TypeOK', UNCHANGED <<owner, revoked, remaining, stage, claimLink>>,
         \A a \in Accounts : available'[a] > available[a] =>
                               available'[a] + Obligations(a) <= settings'.cap
  PROVE  GrowsUnderCap /\ MovesOneUse
<1>1. ASSUME NEW a \in Accounts PROVE Owned(a)' > Owned(a) => Owned(a)' <= settings'.cap
  <2>1. Reserved(a)' = Reserved(a) /\ PendingRefund(a)' = PendingRefund(a)
    BY ReservedStays, PendingStays
  <2>2. available'[a] \in Nat
    BY DEF TypeOK
  <2>3. /\ Owned(a)' = available'[a] + Obligations(a)
        /\ Owned(a) = available[a] + Obligations(a)
        /\ available[a] \in Nat /\ Obligations(a) \in Nat
    BY <2>1, OwnedType, ObligationsType
  <2> QED
    BY <2>2, <2>3
<1> QED
  BY <1>1 DEF GrowsUnderCap, MovesOneUse

LEMMA AdminMoves ==
  ASSUME TypeOK, TypeOK', AdminStep
  PROVE  GrowsUnderCap /\ MovesOneUse
<1> USE DEF linkVars, issueVars, claimVars, settingVars
<1>1. \A a \in Accounts : /\ available[a] \in Nat /\ Obligations(a) \in Nat
                          /\ Owned(a) = available[a] + Obligations(a)
  BY ObligationsType DEF TypeOK, Owned
<1>2. settings.cap \in Nat
  BY ChoiceAssumption DEF TypeOK
<1>3. ASSUME NEW b \in Accounts, NEW n \in CreditChoices, SetCredits(b, n)
      PROVE  GrowsUnderCap /\ MovesOneUse
  <2>1. n \in Int
    BY ChoiceAssumption
  <2>2. \A a \in Accounts : available'[a] = IF a = b THEN n ELSE available[a]
    BY <1>3 DEF SetCredits, TypeOK
  <2>3. \A a \in Accounts : available'[a] > available[a] =>
                              available'[a] + Obligations(a) <= settings.cap
    BY <1>1, <1>3, <2>1, <2>2 DEF SetCredits
  <2> QED
    BY <1>3, <2>3, BalanceMoves DEF SetCredits
<1>4. ASSUME NEW b \in Accounts, NEW n \in CreditChoices, AddCredits(b, n)
      PROVE  GrowsUnderCap /\ MovesOneUse
  <2>1. n \in Int
    BY ChoiceAssumption
  <2>2. \A a \in Accounts : available'[a] = IF a = b THEN available[a] + n ELSE available[a]
    BY <1>4 DEF AddCredits, TypeOK
  <2>3. \A a \in Accounts : available'[a] > available[a] =>
                              available'[a] + Obligations(a) <= settings.cap
    BY <1>1, <1>2, <1>4, <2>1, <2>2 DEF AddCredits
  <2> QED
    BY <1>4, <2>3, BalanceMoves DEF AddCredits
<1>5. ASSUME NEW A \in SUBSET Accounts, NEW n \in CreditChoices, DistributeCredits(A, n)
      PROVE  GrowsUnderCap /\ MovesOneUse
  <2>1. n \in Int /\ n > 0
    BY <1>5, ChoiceAssumption DEF DistributeCredits
  <2>2. \A a \in Accounts : available'[a] = available[a] + (IF a \in A THEN Share(a, n) ELSE 0)
    BY <1>5 DEF DistributeCredits
  <2>3. \A a \in Accounts : /\ Share(a, n) \in Nat
                            /\ Share(a, n) > 0 => Owned(a) + Share(a, n) <= settings.cap
    BY <2>1, ShareType
  <2>4. \A a \in Accounts : available'[a] > available[a] =>
                              available'[a] + Obligations(a) <= settings.cap
    BY <1>1, <1>2, <2>2, <2>3
  <2> QED
    BY <1>5, <2>4, BalanceMoves DEF DistributeCredits
<1>6. ASSUME NEW s \in SettingsChoices, NEW k \in BOOLEAN, UpdateSettings(s, k)
      PROVE  GrowsUnderCap /\ MovesOneUse
  <2>1. \A a \in Accounts : available'[a] = Clamped(a, s, k) + SettingsGrant(a, s, k)
    BY <1>6 DEF UpdateSettings
  <2>2. \A a \in Accounts :
          /\ Clamped(a, s, k) \in Nat /\ Clamped(a, s, k) <= available[a]
          /\ SettingsGrant(a, s, k) \in Nat
          /\ SettingsGrant(a, s, k) > 0 =>
               Clamped(a, s, k) + Obligations(a) + SettingsGrant(a, s, k) <= s.cap
    BY GrantType
  <2>3. s.cap \in Nat /\ settings' = s
    BY <1>6, ChoiceAssumption DEF UpdateSettings
  <2>4. \A a \in Accounts : available'[a] > available[a] =>
                              available'[a] + Obligations(a) <= settings'.cap
    BY <1>1, <2>1, <2>2, <2>3
  <2> QED
    BY <1>6, <2>4, BalanceMoves DEF UpdateSettings
<1>7. ASSUME NEW A \in SUBSET Accounts, ResetCredits(A) PROVE GrowsUnderCap /\ MovesOneUse
  BY <1>7, ResettingMoves
<1> QED
  BY <1>3, <1>4, <1>5, <1>6, <1>7 DEF AdminStep

LEMMA AwardMoves ==
  ASSUME TypeOK, TypeOK', NEW w \in Workers, CommitContribution(w)
  PROVE  GrowsUnderCap /\ MovesOneUse
<1> DEFINE b == task[w].account
           award == AwardFor(settings, Owned(b), task[w].seen.score + task[w].delta,
                             awardLevel[b])
<1>1. b \in Accounts
  BY DEF CommitContribution, TypeOK, Tasks
<1>2. award \in Nat /\ (award > 0 => Owned(b) + award <= settings.cap)
  BY <1>1, CommitType
<1>3. available' = [available EXCEPT ![b] = @ + award]
  BY DEF CommitContribution
<1>4. UNCHANGED <<settings, owner, revoked, remaining, stage, claimLink>>
  BY DEF CommitContribution, linkVars, issueVars, claimVars, settingVars
<1> HIDE DEF award, b
<1>5. \A a \in Accounts : available'[a] = IF a = b THEN available[a] + award ELSE available[a]
  BY <1>1, <1>3 DEF TypeOK
<1>6. \A a \in Accounts : /\ available[a] \in Nat /\ Obligations(a) \in Nat
                          /\ Owned(a) = available[a] + Obligations(a)
  BY ObligationsType DEF TypeOK, Owned
<1>7. settings.cap \in Nat
  BY ChoiceAssumption DEF TypeOK
<1>8. \A a \in Accounts : available'[a] > available[a] =>
                            available'[a] + Obligations(a) <= settings'.cap
  BY <1>1, <1>2, <1>4, <1>5, <1>6, <1>7
<1> QED
  BY <1>4, <1>8, BalanceMoves

LEMMA OwnershipStep ==
  TypeOK /\ TypeOK' /\ KeysResolve /\ [Next]_vars => GrowsUnderCap /\ MovesOneUse
<1> SUFFICES ASSUME TypeOK, TypeOK', KeysResolve, [Next]_vars
             PROVE  GrowsUnderCap /\ MovesOneUse
  OBVIOUS
<1> USE DEF linkVars, issueVars, claimVars, creditVars, ledgerVars
<1>1. CASE LinkStep
  <2>1. ASSUME NEW i \in Links, ExpireLink(i) PROVE GrowsUnderCap /\ MovesOneUse
    BY <2>1, NothingMoves DEF ExpireLink
  <2> QED
    BY <1>1, <2>1, IssuingMoves, RevokingMoves DEF LinkStep
<1>2. CASE ClaimStep
  <2>1. ASSUME NEW c \in Claims, ExpireClaim(c) PROVE GrowsUnderCap /\ MovesOneUse
    BY <2>1, NothingMoves DEF ExpireClaim
  <2>2. ASSUME NEW c \in Claims, RollbackClaim(c) \/ CancelClaim(c)
        PROVE  GrowsUnderCap /\ MovesOneUse
    <3>1. c \in Outstanding /\ RestoreUse(c) /\ RestoreRest
      BY <2>2 DEF RollbackClaim, CancelClaim, Restorable, Outstanding
    <3> QED
      BY <3>1, RestoringMoves
  <2> QED
    BY <1>2, <2>1, <2>2, SigningUpMoves DEF ClaimStep
<1>3. CASE AdminStep
  BY <1>3, AdminMoves
<1>4. CASE StartStep \/ UNCHANGED vars
  BY <1>4, NothingMoves DEF StartStep, StartSweep, StartEvent, StartAdjustment, vars
<1>5. ASSUME NEW w \in Workers, WorkerStep(w) PROVE GrowsUnderCap /\ MovesOneUse
  <2>1. ASSUME NEW c \in Claims, SweepClaim(w, c) PROVE GrowsUnderCap /\ MovesOneUse
    <3>1. CASE Restorable(c) /\ RestoreUse(c) /\ RestoreRest
      BY <3>1, RestoringMoves DEF Restorable, Outstanding
    <3>2. CASE UNCHANGED ledgerVars
      BY <3>2, NothingMoves
    <3> QED
      BY <2>1, <3>1, <3>2 DEF SweepClaim
  <2>2. CASE FinishSweep(w) \/ ReadBalance(w) \/ MissContribution(w)
    BY <2>2, NothingMoves DEF FinishSweep, ReadBalance, MissContribution
  <2> QED
    BY <1>5, <2>1, <2>2, ConsumingMoves, AwardMoves
    DEF WorkerStep, SweepStep, ContributionStep
<1> QED
  BY <1>1, <1>2, <1>3, <1>4, <1>5 DEF Next

-----------------------------------------------------------------------------
(* Tiers *)

\* An award pays tiers that the score has reached, above the level so far.
LEMMA AwardReached ==
  ASSUME NEW s \in SettingsChoices, NEW o \in Nat, NEW sc \in Int, NEW lv \in Nat,
         AwardFor(s, o, sc, lv) > 0
  PROVE  (lv + AwardFor(s, o, sc, lv)) * s.threshold <= sc
<1> DEFINE award == AwardFor(s, o, sc, lv)
           t == s.threshold
           q == AtLeastZero(sc) \div t
<1>1. t \in Nat \ {0} /\ s.cap \in Nat
  BY ChoiceAssumption
<1>2. award \in Nat
  BY AwardType
<1>3. AtLeastZero(sc) \in Nat
  BY DEF AtLeastZero
<1>4. q \in Nat /\ q * t <= AtLeastZero(sc)
  BY <1>1, <1>3
<1>5. award <= q - lv
  BY <1>1, <1>4 DEF AwardFor, Smaller, AtLeastZero
<1> HIDE DEF award, q, t
<1>6. lv + award <= q /\ lv + award > 0
  BY <1>2, <1>4, <1>5 DEF award
<1>7. \A m \in Nat, n \in Nat : m <= n => m * t <= n * t
  BY <1>1
<1>8. (lv + award) * t <= q * t
  BY <1>2, <1>4, <1>6, <1>7
<1>9. q * t > 0
  BY <1>1, <1>2, <1>4, <1>6
<1>10. AtLeastZero(sc) = sc
  BY <1>4, <1>9, <1>3, <1>1 DEF AtLeastZero
<1>11. (lv + award) * t \in Int /\ q * t \in Int
  BY <1>1, <1>2, <1>4
<1> QED
  BY <1>4, <1>8, <1>10, <1>11 DEF award, t

PaysNewTiers ==
  \A a \in Accounts : awardLevel'[a] # awardLevel[a] =>
    /\ awardLevel'[a] > awardLevel[a]
    /\ awardLevel'[a] * settings'.threshold <= score'[a]

LEMMA NewTiersStep == TypeOK /\ [Next]_vars => PaysNewTiers
<1> SUFFICES ASSUME TypeOK, [Next]_vars PROVE PaysNewTiers
  OBVIOUS
<1> USE DEF scoreVars, ledgerVars, settingVars
<1>1. ASSUME UNCHANGED awardLevel PROVE PaysNewTiers
  BY <1>1 DEF PaysNewTiers
<1>2. ASSUME NEW s \in SettingsChoices, NEW k \in BOOLEAN, UpdateSettings(s, k)
      PROVE  PaysNewTiers
  <2> SUFFICES ASSUME NEW a \in Accounts, awardLevel'[a] # awardLevel[a]
               PROVE  /\ awardLevel'[a] > awardLevel[a]
                      /\ awardLevel'[a] * settings'.threshold <= score'[a]
    BY DEF PaysNewTiers
  <2> DEFINE o == Clamped(a, s, k) + Obligations(a)
             g == SettingsGrant(a, s, k)
  <2>1. awardLevel'[a] = awardLevel[a] + g /\ settings' = s /\ score' = score
    BY <1>2 DEF UpdateSettings
  <2>2. g \in Nat /\ o \in Nat /\ awardLevel[a] \in Nat /\ score[a] \in Int
    BY GrantType, ObligationsType DEF TypeOK
  <2>3. g > 0
    BY <2>1, <2>2
  <2>4. g = AwardFor(s, o, score[a], awardLevel[a])
    BY <2>3 DEF SettingsGrant
  <2> HIDE DEF g, o
  <2>5. (awardLevel[a] + g) * s.threshold <= score[a]
    BY <2>2, <2>3, <2>4, AwardReached
  <2> QED
    BY <2>1, <2>2, <2>3, <2>5
<1>3. ASSUME NEW w \in Workers, CommitContribution(w) PROVE PaysNewTiers
  <2> DEFINE b == task[w].account
             next == task[w].seen.score + task[w].delta
             award == AwardFor(settings, Owned(b), next, awardLevel[b])
  <2>1. b \in Accounts
    BY <1>3 DEF CommitContribution, TypeOK, Tasks
  <2>2. next \in Int /\ award \in Nat
    BY <2>1, CommitType
  <2>3. /\ awardLevel' = [awardLevel EXCEPT ![b] = @ + award]
        /\ score' = [score EXCEPT ![b] = next] /\ settings' = settings
    BY <1>3 DEF CommitContribution
  <2>4. award > 0 => (awardLevel[b] + award) * settings.threshold <= next
    BY <2>1, <2>2, AwardReached, ObligationsType DEF TypeOK
  <2> HIDE DEF b, next, award
  <2>5. \A a \in Accounts : awardLevel'[a] = IF a = b THEN awardLevel[a] + award
                                             ELSE awardLevel[a]
    BY <2>1, <2>3 DEF TypeOK
  <2>6. score'[b] = next /\ awardLevel[b] \in Nat
    BY <2>1, <2>3 DEF TypeOK
  <2> QED
    BY <2>1, <2>2, <2>3, <2>4, <2>5, <2>6 DEF PaysNewTiers
<1>4. CASE LinkStep
  BY <1>1, <1>4 DEF LinkStep, CreateLink, RevokeLink, ExpireLink
<1>5. CASE ClaimStep
  BY <1>1, <1>5 DEF ClaimStep, ExpireClaim, RollbackClaim, AssignClaim, CancelClaim,
                    CompleteClaim, RestoreRest
<1>6. CASE AdminStep
  BY <1>1, <1>2, <1>6 DEF AdminStep, SetCredits, AddCredits, ResetCredits, DistributeCredits
<1>7. CASE StartStep \/ UNCHANGED vars
  BY <1>1, <1>7 DEF StartStep, StartSweep, StartEvent, StartAdjustment, vars
<1>8. ASSUME NEW w \in Workers, WorkerStep(w) PROVE PaysNewTiers
  BY <1>1, <1>3, <1>8 DEF WorkerStep, SweepStep, ConsumeUse, SweepClaim, FinishSweep,
                          RestoreRest, ContributionStep, ReadBalance, MissContribution
<1> QED
  BY <1>4, <1>5, <1>6, <1>7, <1>8 DEF Next

-----------------------------------------------------------------------------
(* The theorems *)

\* No operation, however requests interleave, lets what an account owns grow
\* beyond the cap in force: links, awards, administrators and settings included.
THEOREM CapHolds == Spec => OwnershipGrowsOnlyUnderCap
<1>1. Spec => [](TypeOK /\ KeysResolve)
  BY TypeInit, TypeStep, KeysStep, PTL DEF Spec
<1>2. TypeOK /\ TypeOK' /\ KeysResolve /\ [Next]_vars => [GrowsUnderCap]_vars
  BY OwnershipStep
<1>3. Spec => [][GrowsUnderCap]_vars
  BY <1>1, <1>2, PTL DEF Spec
<1> QED
  BY <1>3, PTL DEF OwnershipGrowsOnlyUnderCap, GrowsUnderCap

\* Taking, assigning, restoring and refunding an invitation use leaves what its
\* inviter owns as it is; completing the sign-up costs exactly one.
THEOREM UsesMove == Spec => ClaimStepsMoveOneUse
<1>1. Spec => [](TypeOK /\ KeysResolve)
  BY TypeInit, TypeStep, KeysStep, PTL DEF Spec
<1>2. TypeOK /\ TypeOK' /\ KeysResolve /\ [Next]_vars => [MovesOneUse]_vars
  BY OwnershipStep
<1>3. Spec => [][MovesOneUse]_vars
  BY <1>1, <1>2, PTL DEF Spec
<1> QED
  BY <1>3, PTL DEF ClaimStepsMoveOneUse, MovesOneUse

\* A contribution tier is paid at most once, and only once the score reached it.
THEOREM TiersPaidOnce == Spec => AwardsOnlyNewTiers
<1>1. Spec => [](TypeOK /\ KeysResolve)
  BY TypeInit, TypeStep, KeysStep, PTL DEF Spec
<1>2. TypeOK /\ [Next]_vars => [PaysNewTiers]_vars
  BY NewTiersStep
<1>3. Spec => [][PaysNewTiers]_vars
  BY <1>1, <1>2, PTL DEF Spec
<1> QED
  BY <1>3, PTL DEF AwardsOnlyNewTiers, PaysNewTiers

-----------------------------------------------------------------------------
(* The bank that the ledger implements *)

BankStep == [Bank!BankNext]_(Bank!bank)

BankInv == TypeOK /\ KeysResolve /\ UseInv

-----------------------------------------------------------------------------
(* Steps of the bank, account by account *)

LEMMA MapsToSame ==
  ASSUME UNCHANGED <<settings, available>>,
         \A a \in Accounts : Obligations(a)' = Obligations(a) /\ SpentBy(a)' = SpentBy(a)
  PROVE  BankStep
BY DEF BankStep, Bank!bank

LEMMA MapsToExchange ==
  ASSUME TypeOK, TypeOK', UNCHANGED settings, NEW b \in Accounts,
         \A a \in Accounts : SpentBy(a)' = SpentBy(a) /\ Obligations(a) \in Nat,
         \A a \in Accounts : a # b =>
           available'[a] = available[a] /\ Obligations(a)' = Obligations(a),
         available'[b] = available[b] + (Obligations(b) - Obligations(b)'),
         Obligations(b)' \in Nat
  PROVE  BankStep
<1> DEFINE held == [a \in Accounts |-> Obligations(a)]
<1>1. available' = [available EXCEPT ![b] = @ + (held[b] - held'[b])]
  BY DEF TypeOK
<1>2. held' = [held EXCEPT ![b] = held'[b]]
  OBVIOUS
<1>3. available'[b] \in Nat /\ held'[b] \in Nat
  BY DEF TypeOK
<1>4. [a \in Accounts |-> SpentBy(a)]' = [a \in Accounts |-> SpentBy(a)]
  OBVIOUS
<1>5. Bank!Exchange(b)
  BY <1>1, <1>2, <1>3, <1>4 DEF Bank!Exchange
<1> QED
  BY <1>5 DEF BankStep, Bank!BankNext

LEMMA MapsToSpend ==
  ASSUME UNCHANGED <<settings, available>>, NEW b \in Accounts,
         Obligations(b) > 0, Obligations(b) \in Nat,
         \A a \in Accounts :
           /\ Obligations(a)' = Obligations(a) - (IF a = b THEN 1 ELSE 0)
           /\ SpentBy(a)' = SpentBy(a) + (IF a = b THEN 1 ELSE 0)
           /\ Obligations(a) \in Nat /\ SpentBy(a) \in Nat
  PROVE  BankStep
<1> DEFINE held == [a \in Accounts |-> Obligations(a)]
           spent == [a \in Accounts |-> SpentBy(a)]
<1>1. held' = [held EXCEPT ![b] = @ - 1]
  <2>1. \A a \in Accounts : Obligations(a)' = IF a = b THEN Obligations(b) - 1
                                              ELSE Obligations(a)
    OBVIOUS
  <2> QED
    BY <2>1
<1>2. spent' = [spent EXCEPT ![b] = @ + 1]
  <2>1. \A a \in Accounts : SpentBy(a)' = IF a = b THEN SpentBy(b) + 1 ELSE SpentBy(a)
    OBVIOUS
  <2> QED
    BY <2>1
<1>3. Bank!Spend(b)
  BY <1>1, <1>2 DEF Bank!Spend
<1> QED
  BY <1>3 DEF BankStep, Bank!BankNext

LEMMA MapsToRegulate ==
  ASSUME \A a \in Accounts : Obligations(a)' = Obligations(a) /\ SpentBy(a)' = SpentBy(a),
         \A a \in Accounts : available'[a] > available[a] =>
                               available'[a] + Obligations(a) <= settings'.cap
  PROVE  BankStep
<1>1. Bank!Regulate
  BY DEF Bank!Regulate
<1> QED
  BY <1>1 DEF BankStep, Bank!BankNext

LEMMA MapsToReset ==
  ASSUME UNCHANGED settings, NEW A \in SUBSET Accounts,
         available' = [a \in Accounts |-> IF a \in A THEN 0 ELSE available[a]],
         \A a \in Accounts : /\ SpentBy(a)' = SpentBy(a)
                             /\ Obligations(a)' <= Obligations(a)
                             /\ a \notin A => Obligations(a)' = Obligations(a)
  PROVE  BankStep
<1>1. Bank!Reset(A)
  BY DEF Bank!Reset
<1> QED
  BY <1>1 DEF BankStep, Bank!BankNext

-----------------------------------------------------------------------------
(* Counting what was spent, and a link that is issued *)

Completed(a) == {c \in Claims : stage[c] = "completed" /\ owner[claimLink[c]] = a}

LEMMA SpentType ==
  ASSUME NEW a
  PROVE  /\ IsFiniteSet(Completed(a)) /\ SpentBy(a) \in Nat
         /\ SpentBy(a) = Cardinality(Completed(a)) /\ SpentBy(a)' = Cardinality(Completed(a)')
BY IdentityAssumption, FS_Subset, FS_CardinalityType DEF Completed, SpentBy

LEMMA SpentStays ==
  ASSUME UNCHANGED claimLink, NEW a,
         \A c \in Claims : stage'[c] = "completed" <=> stage[c] = "completed",
         \A c \in Claims : stage[c] = "completed" =>
                            owner'[claimLink[c]] = owner[claimLink[c]]
  PROVE  SpentBy(a)' = SpentBy(a)
BY DEF SpentBy

LEMMA SpentRises ==
  ASSUME TypeOK, NEW c \in Outstanding, UNCHANGED <<owner, claimLink>>,
         stage' = [stage EXCEPT ![c] = "completed"], NEW a
  PROVE  SpentBy(a)' = SpentBy(a) + (IF a = owner[claimLink[c]] THEN 1 ELSE 0)
<1>1. CASE a = owner[claimLink[c]]
  <2>1. Completed(a)' = Completed(a) \cup {c}
    BY <1>1 DEF Completed, Outstanding, TypeOK
  <2>2. c \notin Completed(a)
    BY DEF Completed, Outstanding
  <2>3. Cardinality(Completed(a)') = Cardinality(Completed(a)) + 1
    BY <2>1, <2>2, SpentType, FS_AddElement
  <2> QED
    BY <1>1, <2>3, SpentType
<1>2. CASE a # owner[claimLink[c]]
  <2>1. Completed(a)' = Completed(a)
    BY <1>2 DEF Completed, Outstanding, TypeOK
  <2> QED
    BY <1>2, <2>1, SpentType
<1> QED
  BY <1>1, <1>2

LEMMA ReservedFresh ==
  ASSUME TypeOK, TypeOK', NEW i \in Links, NEW b \in Accounts, NEW n \in Nat,
         owner[i] = NoAccount, ~revoked[i], owner' = [owner EXCEPT ![i] = b],
         remaining' = [remaining EXCEPT ![i] = n], UNCHANGED revoked, NEW a \in Accounts
  PROVE  Reserved(a)' = Reserved(a) + (IF a = b THEN n ELSE 0)
<1> DEFINE T == {i} \X (1 .. n)
<1>1. IsFiniteSet(T) /\ Cardinality(T) = n
  BY UnitsOfLinkCount
<1>2. /\ \A j \in Links : owner'[j] = IF j = i THEN b ELSE owner[j]
      /\ \A j \in Links : remaining'[j] = IF j = i THEN n ELSE remaining[j]
  BY DEF TypeOK
<1>3. Reserved(a) \in Nat /\ Reserved(a) = Cardinality(Units(a)) /\ IsFiniteSet(Units(a))
  BY ReservedCounts
<1>4. CASE a = b
  <2>1. Units(a)' = Units(a) \cup T
    BY <1>2, <1>4, IdentityAssumption DEF Units
  <2>2. Units(a) \cap T = {}
    BY IdentityAssumption DEF Units
  <2> HIDE DEF T
  <2>3. Cardinality(Units(a) \cup T) =
          Cardinality(Units(a)) + n - Cardinality(Units(a) \cap T)
    BY <1>1, <1>3, FS_Union
  <2>4. Cardinality(Units(a) \cap T) = 0
    BY <2>2, FS_EmptySet
  <2>5. Cardinality(Units(a)') = Cardinality(Units(a)) + n
    BY <1>3, <2>1, <2>3, <2>4
  <2> QED
    BY <1>3, <1>4, <2>5, ReservedCountsNext
<1>5. CASE a # b
  <2>1. Units(a)' = Units(a)
    BY <1>2, <1>5, IdentityAssumption DEF Units
  <2> QED
    BY <1>3, <1>5, <2>1, ReservedCountsNext
<1> QED
  BY <1>4, <1>5

-----------------------------------------------------------------------------
(* The steps *)

LEMMA HeldSplits ==
  ASSUME TypeOK, NEW a \in Accounts
  PROVE  /\ Obligations(a) = Reserved(a) + PendingRefund(a)
         /\ Obligations(a)' = Reserved(a)' + PendingRefund(a)'
         /\ available[a] \in Nat /\ Obligations(a) \in Nat
         /\ Reserved(a) \in Nat /\ PendingRefund(a) \in Nat
BY ObligationsType DEF Obligations, TypeOK

LEMMA HeldNat == TypeOK => \A a \in Accounts : Obligations(a) \in Nat
BY ObligationsType

LEMMA HeldNatNext == TypeOK' => \A a \in Accounts : Obligations(a)' \in Nat
<1>1. TypeOK' => (\A a \in Accounts : Obligations(a) \in Nat)'
  BY HeldNat, PTL
<1> QED
  BY <1>1

\* When only balances change, what they gain fits under the cap.
LEMMA BalanceBank ==
  ASSUME TypeOK, TypeOK', UNCHANGED <<owner, revoked, remaining, stage, claimLink>>,
         GrowsUnderCap
  PROVE  BankStep
<1>1. \A a \in Accounts : Obligations(a)' = Obligations(a) /\ SpentBy(a)' = SpentBy(a)
  BY ReservedStays, PendingStays, SpentStays DEF Obligations
<1>2. ASSUME NEW a \in Accounts, available'[a] > available[a]
      PROVE  available'[a] + Obligations(a) <= settings'.cap
  <2>1. /\ Owned(a)' = available'[a] + Obligations(a)
        /\ Owned(a) = available[a] + Obligations(a)
        /\ available[a] \in Nat /\ available'[a] \in Nat /\ Obligations(a) \in Nat
    BY <1>1, HeldSplits DEF Owned, TypeOK
  <2>2. Owned(a)' > Owned(a)
    BY <1>2, <2>1
  <2> QED
    BY <2>1, <2>2 DEF GrowsUnderCap
<1> QED
  BY <1>1, <1>2, MapsToRegulate

LEMMA RestoringBank ==
  ASSUME TypeOK, TypeOK', KeysResolve, NEW c \in Outstanding, RestoreUse(c), RestoreRest
  PROVE  BankStep
<1> USE DEF RestoreRest, issueVars, creditVars, settingVars
<1>0. claimLink[c] \in Links /\ owner[claimLink[c]] \in Accounts /\ c \in Claims
  BY DEF Outstanding, KeysResolve
<1> PICK b \in Accounts : b = owner[claimLink[c]]
  BY <1>0
<1>1. claimLink[c] \in Links /\ b \in Accounts /\ c \in Claims
  BY <1>0
<1>2. \A a \in Accounts : SpentBy(a)' = SpentBy(a)
  <2>1. \A d \in Claims : stage'[d] = "completed" <=> stage[d] = "completed"
    BY <1>1 DEF RestoreUse, RestoreToLink, RefundToBalance, TypeOK, Outstanding
  <2> QED
    BY <2>1, SpentStays
<1>3. ASSUME NEW a \in Accounts
      PROVE  PendingRefund(a)' = PendingRefund(a) - (IF b = a THEN 1 ELSE 0)
  BY PendingEnds DEF RestoreUse, RestoreToLink, RefundToBalance
<1>4. CASE RestoreToLink(c)
  <2>1. ASSUME NEW a \in Accounts
        PROVE  Reserved(a)' = Reserved(a) + (IF b = a THEN 1 ELSE 0)
    BY <1>1, <1>4, ReservedRises DEF RestoreToLink
  <2>2. \A a \in Accounts : Obligations(a)' = Obligations(a)
    BY <1>3, <2>1, HeldSplits
  <2> QED
    BY <1>2, <1>4, <2>2, MapsToSame DEF RestoreToLink
<1>5. CASE RefundToBalance(c)
  <2>1. \A a \in Accounts : Reserved(a)' = Reserved(a)
    BY <1>5, ReservedStays DEF RefundToBalance
  <2>2. \A a \in Accounts : Obligations(a)' = Obligations(a) - (IF b = a THEN 1 ELSE 0)
    BY <1>3, <2>1, HeldSplits
  <2>3. available' = [available EXCEPT ![b] = @ + 1]
    BY <1>5 DEF RefundToBalance
  <2>4. Obligations(b)' \in Nat
    BY <1>1, HeldNatNext
  <2>5. available'[b] = available[b] + 1 /\ available[b] \in Nat /\ Obligations(b) \in Nat
    BY <1>1, <2>3, HeldSplits DEF TypeOK
  <2>6. available'[b] = available[b] + (Obligations(b) - Obligations(b)')
    BY <1>1, <2>2, <2>5
  <2>7. \A a \in Accounts : a # b =>
          available'[a] = available[a] /\ Obligations(a)' = Obligations(a)
    BY <1>1, <2>2, <2>3, HeldSplits DEF TypeOK
  <2>8. UNCHANGED settings /\ \A a \in Accounts : Obligations(a) \in Nat
    BY HeldSplits
  <2> QED
    BY <1>1, <1>2, <2>4, <2>6, <2>7, <2>8, MapsToExchange
<1> QED
  BY <1>4, <1>5 DEF RestoreUse

LEMMA ConsumingBank ==
  ASSUME TypeOK, TypeOK', NEW w \in Workers, NEW c \in Claims, NEW d \in BOOLEAN,
         ConsumeUse(w, c, d)
  PROVE  BankStep
<1> PICK i \in Links : i = task[w].link
  BY DEF ConsumeUse, TypeOK, Tasks, TaskRecords
<1>1. /\ remaining' = [remaining EXCEPT ![i] = @ - 1] /\ remaining[i] > 0 /\ ~revoked[i]
      /\ stage' = [stage EXCEPT ![c] = "unassigned"] /\ stage[c] = "none"
      /\ claimLink' = [claimLink EXCEPT ![c] = i]
      /\ UNCHANGED <<settings, available, owner, revoked>>
  BY DEF ConsumeUse, Usable, creditVars, issueVars, settingVars
<1>2. ASSUME NEW a \in Accounts PROVE Obligations(a)' = Obligations(a)
  <2>1. Reserved(a)' = Reserved(a) - (IF owner[i] = a THEN 1 ELSE 0)
    BY <1>1, ReservedFalls
  <2>2. PendingRefund(a)' = PendingRefund(a) + (IF owner[i] = a THEN 1 ELSE 0)
    BY <1>1, PendingTaken
  <2> QED
    BY <2>1, <2>2, HeldSplits
<1>3. ASSUME NEW a \in Accounts PROVE SpentBy(a)' = SpentBy(a)
  <2>1. Completed(a)' = Completed(a)
    BY <1>1 DEF Completed, TypeOK
  <2> QED
    BY <2>1, SpentType
<1> QED
  BY <1>1, <1>2, <1>3, MapsToSame

LEMMA SigningUpBank ==
  ASSUME TypeOK, KeysResolve, NEW c \in Claims,
         AssignClaim(c) \/ \E w \in Workers : CompleteClaim(w, c)
  PROVE  BankStep
<1>1. /\ UNCHANGED <<settings, available, owner, revoked, remaining, claimLink>>
      /\ c \in Outstanding
      /\ \/ stage' = [stage EXCEPT ![c] = "assigned"]
         \/ stage' = [stage EXCEPT ![c] = "completed"]
  BY DEF AssignClaim, CompleteClaim, Outstanding, creditVars, linkVars, issueVars, settingVars
<1>2. \A a \in Accounts : Reserved(a)' = Reserved(a)
  BY <1>1, ReservedStays
<1>3. CASE stage' = [stage EXCEPT ![c] = "assigned"]
  <2>1. Outstanding' = Outstanding
    BY <1>1, <1>3 DEF Outstanding, TypeOK
  <2>2. \A a \in Accounts : PendingRefund(a)' = PendingRefund(a)
    BY <1>1, <2>1, PendingSame
  <2>3. \A d \in Claims : stage'[d] = "completed" <=> stage[d] = "completed"
    BY <1>1, <1>3 DEF TypeOK, Outstanding
  <2>4. \A a \in Accounts : SpentBy(a)' = SpentBy(a)
    BY <1>1, <2>3, SpentStays
  <2> QED
    BY <1>1, <1>2, <2>2, <2>4, MapsToSame DEF Obligations
<1>4. CASE stage' = [stage EXCEPT ![c] = "completed"]
  <2> PICK b \in Accounts : b = owner[claimLink[c]]
    BY <1>1 DEF Outstanding, KeysResolve
  <2>1. \A a \in Accounts : PendingRefund(a)' = PendingRefund(a) - (IF b = a THEN 1 ELSE 0)
    BY <1>1, <1>4, PendingEnds
  <2>2. \A a \in Accounts : SpentBy(a)' = SpentBy(a) + (IF a = b THEN 1 ELSE 0)
    BY <1>1, <1>4, SpentRises
  <2>3. ASSUME NEW a \in Accounts
        PROVE  /\ Obligations(a)' = Obligations(a) - (IF a = b THEN 1 ELSE 0)
               /\ Obligations(a) \in Nat /\ SpentBy(a) \in Nat
    BY <1>2, <2>1, HeldSplits, SpentType
  <2>4. Obligations(b) > 0
    <3>1. c \in OutWith(b) /\ IsFiniteSet(OutWith(b))
      BY <1>1, PendingCounts DEF OutWith
    <3>2. PendingRefund(b) \in Nat /\ PendingRefund(b) # 0
      BY <3>1, PendingCounts, FS_EmptySet
    <3> QED
      BY <3>2, HeldSplits
  <2> QED
    BY <1>1, <2>2, <2>3, <2>4, MapsToSpend
<1> QED
  BY <1>1, <1>3, <1>4

LEMMA IssuingBank ==
  ASSUME BankInv, TypeOK', NEW w \in Workers, NEW i \in Links,
         NEW b \in Accounts, NEW n \in UseChoices, NEW d \in BOOLEAN,
         CreateLink(w, i, b, n, d)
  PROVE  BankStep
<1> USE DEF BankInv
<1>1. n \in Nat /\ NoAccount \notin Accounts
  BY ChoiceAssumption, IdentityAssumption
<1>2. /\ owner' = [owner EXCEPT ![i] = b] /\ owner[i] = NoAccount
      /\ remaining' = [remaining EXCEPT ![i] = n]
      /\ available' = [available EXCEPT ![b] = @ - n]
      /\ UNCHANGED <<settings, revoked, stage, claimLink>>
  BY DEF CreateLink, claimVars, settingVars
<1>3. ~revoked[i]
  BY <1>1, <1>2 DEF UseInv, UnusedOnlyWhenRevoked
<1>4. \A a \in Accounts : Reserved(a)' = Reserved(a) + (IF a = b THEN n ELSE 0)
  BY <1>1, <1>2, <1>3, ReservedFresh
<1>5. \A c \in Claims : stage[c] # "none" => owner'[claimLink[c]] = owner[claimLink[c]]
  BY <1>1, <1>2 DEF KeysResolve, TypeOK
<1>6. \A a \in Accounts : PendingRefund(a)' = PendingRefund(a) /\ SpentBy(a)' = SpentBy(a)
  <2>1. Outstanding' = Outstanding
    BY <1>2 DEF Outstanding
  <2>2. \A c \in Outstanding : owner'[claimLink[c]] = owner[claimLink[c]]
    BY <1>5 DEF Outstanding
  <2> QED
    BY <1>2, <1>5, <2>1, <2>2, PendingSame, SpentStays
<1>7. \A a \in Accounts : /\ Obligations(a)' = Obligations(a) + (IF a = b THEN n ELSE 0)
                          /\ available'[a] = available[a] - (IF a = b THEN n ELSE 0)
                          /\ Obligations(a) \in Nat /\ available[a] \in Nat
  <2> SUFFICES ASSUME NEW a \in Accounts
               PROVE  /\ Obligations(a)' = Obligations(a) + (IF a = b THEN n ELSE 0)
                      /\ available'[a] = available[a] - (IF a = b THEN n ELSE 0)
                      /\ Obligations(a) \in Nat /\ available[a] \in Nat
    OBVIOUS
  <2>1. available'[a] = available[a] - (IF a = b THEN n ELSE 0)
    BY <1>1, <1>2 DEF TypeOK
  <2> QED
    BY <1>1, <1>4, <1>6, <2>1, HeldSplits
<1>8. available'[b] = available[b] + (Obligations(b) - Obligations(b)')
  BY <1>1, <1>7
<1>9. \A a \in Accounts : a # b =>
        available'[a] = available[a] /\ Obligations(a)' = Obligations(a)
  BY <1>7
<1> QED
  BY <1>2, <1>6, <1>7, <1>8, <1>9, HeldNatNext, MapsToExchange

LEMMA RevokingBank ==
  ASSUME TypeOK, TypeOK', NEW i \in Links, RevokeLink(i)
  PROVE  BankStep
<1> PICK b \in Accounts : b = owner[i]
  BY DEF RevokeLink, TypeOK
<1> PICK n \in Nat : n = remaining[i]
  BY DEF TypeOK
<1>1. UNCHANGED <<settings, owner, stage, claimLink>>
  BY DEF RevokeLink, claimVars, settingVars
<1>2. \A a \in Accounts : PendingRefund(a)' = PendingRefund(a) /\ SpentBy(a)' = SpentBy(a)
  BY <1>1, PendingStays, SpentStays
<1>3. \A a \in Accounts : Reserved(a)' = Reserved(a) - (IF a = b THEN n ELSE 0)
  BY ReservedRevoked DEF RevokeLink
<1>4. ASSUME NEW a \in Accounts
      PROVE  /\ Obligations(a)' = Obligations(a) - (IF a = b THEN n ELSE 0)
             /\ available'[a] = available[a] + (IF a = b THEN n ELSE 0)
             /\ Obligations(a) \in Nat /\ available[a] \in Nat
  <2>1. available'[a] = available[a] + (IF a = b THEN n ELSE 0)
    BY DEF RevokeLink, TypeOK
  <2> QED
    BY <1>2, <1>3, <2>1, HeldSplits
<1>5. available'[b] = available[b] + (Obligations(b) - Obligations(b)')
  BY <1>4
<1>6. \A a \in Accounts : a # b =>
        available'[a] = available[a] /\ Obligations(a)' = Obligations(a)
  BY <1>4
<1> QED
  BY <1>1, <1>2, <1>4, <1>5, <1>6, HeldNatNext, MapsToExchange

LEMMA ResettingBank ==
  ASSUME TypeOK, TypeOK', NEW A \in SUBSET Accounts, ResetCredits(A)
  PROVE  BankStep
<1>1. /\ UNCHANGED <<settings, owner, stage, claimLink>>
      /\ available' = [a \in Accounts |-> IF a \in A THEN 0 ELSE available[a]]
  BY DEF ResetCredits, claimVars, settingVars
<1>2. ASSUME NEW a \in Accounts
      PROVE  /\ SpentBy(a)' = SpentBy(a) /\ Obligations(a)' <= Obligations(a)
             /\ a \notin A => Obligations(a)' = Obligations(a)
  <2>1. PendingRefund(a)' = PendingRefund(a) /\ SpentBy(a)' = SpentBy(a)
    BY <1>1, PendingStays, SpentStays
  <2>2. Units(a)' \subseteq Units(a)
    BY DEF ResetCredits, Units
  <2>3. Cardinality(Units(a)') <= Cardinality(Units(a)) /\ Cardinality(Units(a)') \in Nat
    BY <2>2, ReservedCounts, FS_Subset, FS_CardinalityType
  <2>4. Reserved(a)' <= Reserved(a) /\ Reserved(a)' \in Nat
    BY <2>3, ReservedCounts, ReservedCountsNext
  <2>5. a \notin A => Units(a)' = Units(a)
    BY DEF ResetCredits, Units
  <2>6. a \notin A => Reserved(a)' = Reserved(a)
    BY <2>5, ReservedCounts, ReservedCountsNext
  <2> QED
    BY <2>1, <2>4, <2>6, HeldSplits
<1> QED
  BY <1>1, <1>2, MapsToReset

LEMMA BankNextStep == BankInv /\ TypeOK' /\ [Next]_vars => BankStep
<1> SUFFICES ASSUME BankInv, TypeOK', [Next]_vars PROVE BankStep
  OBVIOUS
<1> USE DEF BankInv, linkVars, issueVars, claimVars, creditVars, ledgerVars, settingVars
<1>1. GrowsUnderCap
  BY OwnershipStep
<1>2. CASE LinkStep
  <2>1. ASSUME NEW i \in Links, ExpireLink(i) PROVE BankStep
    BY <1>1, <2>1, BalanceBank DEF ExpireLink
  <2> QED
    BY <1>2, <2>1, IssuingBank, RevokingBank DEF LinkStep
<1>3. CASE ClaimStep
  <2>1. ASSUME NEW c \in Claims, ExpireClaim(c) PROVE BankStep
    BY <1>1, <2>1, BalanceBank DEF ExpireClaim
  <2>2. ASSUME NEW c \in Claims, RollbackClaim(c) \/ CancelClaim(c) PROVE BankStep
    <3>1. c \in Outstanding /\ RestoreUse(c) /\ RestoreRest
      BY <2>2 DEF RollbackClaim, CancelClaim, Restorable, Outstanding
    <3> QED
      BY <3>1, RestoringBank
  <2> QED
    BY <1>3, <2>1, <2>2, SigningUpBank DEF ClaimStep
<1>4. CASE AdminStep
  <2>1. ASSUME NEW A \in SUBSET Accounts, ResetCredits(A) PROVE BankStep
    BY <2>1, ResettingBank
  <2> QED
    BY <1>1, <1>4, <2>1, BalanceBank DEF AdminStep, SetCredits, AddCredits,
                                       DistributeCredits, UpdateSettings
<1>5. CASE StartStep \/ UNCHANGED vars
  BY <1>1, <1>5, BalanceBank DEF StartStep, StartSweep, StartEvent, StartAdjustment, vars
<1>6. ASSUME NEW w \in Workers, WorkerStep(w) PROVE BankStep
  <2>1. ASSUME NEW c \in Claims, SweepClaim(w, c) PROVE BankStep
    <3>1. CASE Restorable(c) /\ RestoreUse(c) /\ RestoreRest
      BY <3>1, RestoringBank DEF Restorable, Outstanding
    <3>2. CASE UNCHANGED ledgerVars
      BY <1>1, <3>2, BalanceBank
    <3> QED
      BY <2>1, <3>1, <3>2 DEF SweepClaim
  <2>2. CASE FinishSweep(w) \/ ContributionStep(w)
    BY <1>1, <2>2, BalanceBank DEF FinishSweep, ContributionStep, ReadBalance,
                                   CommitContribution, MissContribution
  <2> QED
    BY <1>6, <2>1, <2>2, ConsumingBank DEF WorkerStep, SweepStep
<1> QED
  BY <1>2, <1>3, <1>4, <1>5, <1>6 DEF Next

LEMMA BankStarts == Init => Bank!BankInit
<1> SUFFICES ASSUME Init PROVE Bank!BankInit
  OBVIOUS
<1>1. settings.cap \in Nat
  BY ChoiceAssumption DEF Init
<1>2. ASSUME NEW a \in Accounts PROVE Obligations(a) = 0 /\ SpentBy(a) = 0
  <2>1. ActiveLinks(a) = {} /\ Outstanding = {} /\ Completed(a) = {}
    BY <1>2, IdentityAssumption DEF Init, ActiveLinks, Outstanding, Completed
  <2>2. UNION {UnitsOfLink(i) : i \in ActiveLinks(a)} = {}
    BY <2>1
  <2>3. {c \in Outstanding : owner[claimLink[c]] = a} = {}
    BY <2>1
  <2>4. Reserved(a) = 0 /\ PendingRefund(a) = 0 /\ SpentBy(a) = 0
    BY <2>1, <2>2, <2>3, SpentType, FS_EmptySet DEF Reserved, PendingRefund
  <2> QED
    BY <2>4 DEF Obligations
<1> QED
  BY <1>1, <1>2 DEF Init, Bank!BankInit

-----------------------------------------------------------------------------
(* The theorem *)

\* Whatever requests, sweeps and administrators do in whatever order, each step
\* of the ledger is a step of the bank of credits, or leaves the bank alone.
THEOREM LedgerIsBank == Spec => ImplementsBank
<1>1. Init => BankInv
  BY TypeInit, UsesInit DEF BankInv
<1>2. BankInv /\ [Next]_vars => BankInv'
  BY TypeStep, KeysStep, UsesStep DEF BankInv
<1>3. BankInv => TypeOK
  BY DEF BankInv
<1>4. Spec => Bank!BankInit
  BY BankStarts DEF Spec
<1>5. BankInv /\ BankInv' /\ [Next]_vars => [Bank!BankNext]_(Bank!bank)
  BY BankNextStep DEF BankInv, BankStep
<1>6. Spec => [][Bank!BankNext]_(Bank!bank)
  BY <1>1, <1>2, <1>5, PTL DEF Spec
<1> QED
  BY <1>4, <1>6, PTL DEF ImplementsBank, Bank!BankSpec

-----------------------------------------------------------------------------
(* Registration: the invariant *)

RegStates == PendingStates \cup {"absent", "active", "deleted"}

Phases == {"new", "admitted", "consuming", "claimed", "registered",
           "initialized", "undo", "undoing", "return", "ended"}

SignUps == [phase : Phases, link : Links \cup {NoLink}, review : BOOLEAN, initialized : BOOLEAN]

Jobs == [kind : {"none", "delete", "activate"}, user : Users \cup {NoUser},
         pendingOnly : BOOLEAN, seesClaim : BOOLEAN, cools : BOOLEAN,
         expects : 0 .. MaxChallenges, follows : BOOLEAN]

Handlers == Users \cup Visitors

\* The part of RegTypeOK about the users rows.
RowsOK ==
  /\ registration \in [Users -> RegStates]
  /\ invited \in [Users -> BOOLEAN]
  /\ challenge \in [Users -> 0 .. MaxChallenges]
  /\ \A u \in Users : registration[u] = "email_verification" => challenge[u] # 0
  /\ issuedChallenges \in [Users -> 0 .. MaxChallenges]
  /\ followed \in [Users -> BOOLEAN]
  /\ cooldown \in [Emails -> BOOLEAN]

\* A handler that decides has read the row of a user.
JobsOK ==
  /\ signUp \in [Users -> SignUps]
  /\ job \in [Handlers -> Jobs]
  /\ \A h \in Handlers : job[h].kind # "none" => job[h].user \in Users

\* The life of a claim; "lost" is what a deletion that had not seen it makes of it.
StagesOK ==
  stage \in [Claims -> {"none", "unassigned", "assigned", "completed",
                        "restored", "refunded", "lost"}]

Early == {"new", "admitted", "consuming", "claimed", "registered"}

\* What ClaimFollowsRegistration and SpentMeansActive rest on: a row is invited
\* only by the step that assigns its claim, and that step comes once, before the
\* sign-up leaves its early phases.  A row that was activated before it was
\* initialized is set back by it, so a spent claim has to mean that the row was
\* initialized: it was invited.
Bound ==
  \A u \in Users :
    /\ signUp[u].phase \in Early => ~invited[u]
    /\ stage[u] = "assigned" <=> invited[u] /\ Pending(u)
    /\ stage[u] = "completed" => invited[u] /\ registration[u] = "active"

RegInv == RowsOK /\ JobsOK /\ StagesOK /\ Bound

LEMMA TypesAreParts == RegTypeOK <=> RowsOK /\ signUp \in [Users -> SignUps]
                                            /\ job \in [Handlers -> Jobs]
BY DEF RegTypeOK, RowsOK, SignUps, Phases, Jobs, Handlers, RegStates

LEMMA NoJobType == NoJob \in Jobs /\ NoJob.kind = "none"
BY ModeAssumption DEF NoJob, Jobs

LEMMA DeletionType ==
  ASSUME RowsOK, NEW u \in Users, NEW p \in BOOLEAN, NEW k \in BOOLEAN
  PROVE  /\ Deletion(u, p, k) \in Jobs
         /\ Deletion(u, p, k).kind = "delete" /\ Deletion(u, p, k).user = u
<1> DEFINE sees == invited[u] /\ stage[u] = "assigned"
<1>1. sees \in BOOLEAN
  OBVIOUS
<1>2. Deletion(u, p, k) = [NoJob EXCEPT !.kind = "delete", !.user = u, !.pendingOnly = p,
                                        !.seesClaim = sees, !.cools = k]
  BY Zenon DEF Deletion
<1> HIDE DEF sees
<1>3. Deletion(u, p, k) = [kind |-> "delete", user |-> u, pendingOnly |-> p, seesClaim |-> sees,
                           cools |-> k, expects |-> 0, follows |-> FALSE]
  BY <1>2 DEF NoJob
<1>4. 0 \in 0 .. MaxChallenges
  BY ModeAssumption
<1> QED
  BY <1>1, <1>3, <1>4 DEF Jobs

LEMMA ActivationType ==
  ASSUME RowsOK, NEW u \in Users, NEW n \in 0 .. MaxChallenges
  PROVE  /\ Activation(u, n) \in Jobs
         /\ Activation(u, n).kind = "activate" /\ Activation(u, n).user = u
BY ModeAssumption DEF Activation, NoJob, Jobs, RowsOK

LEMMA GoType ==
  ASSUME JobsOK, NEW u \in Users, NEW phase \in Phases, Go(u, phase)
  PROVE  /\ signUp' \in [Users -> SignUps]
         /\ signUp'[u].phase = phase
         /\ \A v \in Users : v # u => signUp'[v] = signUp[v]
BY DEF JobsOK, Go, SignUps

\* A handler takes on job j, or puts it down.
LEMMA JobType ==
  ASSUME JobsOK, NEW h \in Handlers, NEW j \in Jobs, j.kind # "none" => j.user \in Users,
         job' = [job EXCEPT ![h] = j]
  PROVE  /\ job' \in [Handlers -> Jobs]
         /\ \A k \in Handlers : job'[k].kind # "none" => job'[k].user \in Users
BY DEF JobsOK

LEMMA InitReg == RegInit => RegInv
<1> SUFFICES ASSUME RegInit
             PROVE  RegInv
  OBVIOUS
<1>1. RowsOK
  BY ModeAssumption DEF RegInit, RowsOK, RegStates
<1>2. JobsOK
  BY NoJobType DEF RegInit, JobsOK, SignUps, Phases, NewSignUp, Handlers
<1>3. StagesOK
  BY DEF RegInit, Init, StagesOK
<1>4. Bound
  BY NamesAssumption DEF RegInit, Init, Bound, Pending, PendingStates
<1> QED
  BY <1>1, <1>2, <1>3, <1>4 DEF RegInv

-----------------------------------------------------------------------------
(* What the ledger does to a claim *)

\* A use that is given back settles its claim.
LEMMA RestoringStages ==
  ASSUME StagesOK, NEW c \in Claims, RestoreUse(c)
  PROVE  /\ StagesOK'
         /\ stage'[c] \in {"restored", "refunded"}
         /\ \A d \in Claims : d # c => stage'[d] = stage[d]
BY DEF StagesOK, RestoreUse, RestoreToLink, RefundToBalance

\* What the ledger does by itself touches only claims that are unassigned, and
\* settles them.
LEMMA LedgerStages ==
  ASSUME RegInv, LedgerStep
  PROVE  /\ StagesOK'
         /\ \A c \in Claims : stage'[c] # stage[c] =>
              stage[c] = "unassigned" /\ stage'[c] \in {"restored", "refunded"}
<1>1. StagesOK
  BY DEF RegInv
<1>2. ASSUME stage' = stage
      PROVE  /\ StagesOK'
             /\ \A c \in Claims : stage'[c] # stage[c] =>
                  stage[c] = "unassigned" /\ stage'[c] \in {"restored", "refunded"}
  BY <1>1, <1>2 DEF StagesOK
<1>3. ASSUME NEW w \in Workers, NEW c \in Claims, SweepClaim(w, c)
      PROVE  /\ StagesOK'
             /\ \A d \in Claims : stage'[d] # stage[d] =>
                  stage[d] = "unassigned" /\ stage'[d] \in {"restored", "refunded"}
  <2>1. CASE Restorable(c) /\ RestoreUse(c)
    BY <1>1, <2>1, RestoringStages DEF Restorable
  <2>2. CASE UNCHANGED ledgerVars
    BY <1>2, <2>2 DEF ledgerVars, claimVars
  <2> QED
    BY <1>3, <2>1, <2>2 DEF SweepClaim
<1>4. ASSUME NEW v \in Visitors,
             \/ \E i \in Links, a \in Accounts, n \in UseChoices, d \in BOOLEAN :
                  CreateLink(v, i, a, n, d)
             \/ StartSweep(v, NoLink)
             \/ \E a \in Accounts, d \in DeltaChoices : StartEvent(v, a, d) \/ StartAdjustment(v, a, d)
             \/ FinishSweep(v)
      PROVE  stage' = stage
  BY <1>4 DEF CreateLink, StartSweep, StartEvent, StartAdjustment, FinishSweep, ledgerVars, claimVars
<1>5. ASSUME NEW i \in Links, RevokeLink(i) \/ ExpireLink(i)
      PROVE  stage' = stage
  BY <1>5 DEF RevokeLink, ExpireLink, claimVars
<1>6. ASSUME NEW c \in Claims, ExpireClaim(c)
      PROVE  stage' = stage
  BY <1>6 DEF ExpireClaim, claimVars
<1>7. AdminStep => stage' = stage
  BY DEF AdminStep, SetCredits, AddCredits, ResetCredits, DistributeCredits, UpdateSettings, claimVars
<1>8. ASSUME NEW w \in Workers, ContributionStep(w)
      PROVE  stage' = stage
  BY <1>8 DEF ContributionStep, ReadBalance, CommitContribution, MissContribution,
     ledgerVars, claimVars
<1> QED
  BY <1>2, <1>3, <1>4, <1>5, <1>6, <1>7, <1>8 DEF LedgerStep

-----------------------------------------------------------------------------
(* The steps of a sign-up *)

\* A step of a sign-up that touches neither a row nor an assigned claim.
LEMMA PhaseKeepsReg ==
  ASSUME RegInv, NEW u \in Users, UNCHANGED <<userVars, cooldown>>,
         signUp' \in [Users -> SignUps],
         signUp'[u].phase \in Early => signUp[u].phase \in Early,
         \A v \in Users : v # u => signUp'[v] = signUp[v],
         job' \in [Handlers -> Jobs],
         \A h \in Handlers : job'[h].kind # "none" => job'[h].user \in Users,
         StagesOK',
         \A c \in Claims : stage'[c] # stage[c] =>
           stage[c] \in {"none", "unassigned"} /\ stage'[c] \in {"unassigned", "restored", "refunded"}
  PROVE  RegInv'
<1>1. RowsOK'
  BY DEF RegInv, RowsOK, userVars
<1>2. JobsOK'
  BY DEF JobsOK
<1>3. \A v \in Users : /\ stage'[v] = "assigned" <=> stage[v] = "assigned"
                       /\ stage'[v] = "completed" <=> stage[v] = "completed"
  BY NamesAssumption
<1>4. Bound'
  BY <1>3 DEF RegInv, Bound, Pending, userVars
<1> QED
  BY <1>1, <1>2, <1>4 DEF RegInv

\* The same when only the phase of the sign-up changes.
LEMMA GoKeepsReg ==
  ASSUME RegInv, NEW u \in Users, NEW phase \in Phases, Go(u, phase),
         phase \in Early => signUp[u].phase \in Early,
         UNCHANGED <<userVars, cooldown, job, stage>>
  PROVE  RegInv'
<1>1. /\ signUp' \in [Users -> SignUps] /\ signUp'[u].phase = phase
      /\ \A v \in Users : v # u => signUp'[v] = signUp[v]
  BY GoType DEF RegInv
<1>2. /\ job' \in [Handlers -> Jobs]
      /\ \A h \in Handlers : job'[h].kind # "none" => job'[h].user \in Users
      /\ StagesOK'
  BY DEF RegInv, JobsOK, StagesOK
<1> QED
  BY <1>1, <1>2, PhaseKeepsReg

LEMMA AdmitKeeps ==
  ASSUME RegInv, NEW u \in Users, NEW i \in Links \cup {NoLink}, NEW mode \in Modes,
         Admit(u, i, mode)
  PROVE  RegInv'
<1>1. /\ signUp' = [signUp EXCEPT ![u].phase = "admitted", ![u].link = i,
                                  ![u].review = (mode = "approval" /\ i = NoLink)]
      /\ signUp[u].phase = "new" /\ UNCHANGED <<userVars, cooldown, job, stage>>
  BY DEF Admit, At, vars, ledgerVars, claimVars
<1>2. signUp \in [Users -> SignUps]
  BY DEF RegInv, JobsOK
<1>3. /\ signUp' \in [Users -> SignUps]
      /\ \A v \in Users : v # u => signUp'[v] = signUp[v]
  <2>1. PICK review \in BOOLEAN : review = (mode = "approval" /\ i = NoLink)
    OBVIOUS
  <2>2. signUp' = [signUp EXCEPT ![u] = [signUp[u] EXCEPT !.phase = "admitted", !.link = i,
                                                          !.review = review]]
    BY <1>1, <1>2, <2>1
  <2>3. [signUp[u] EXCEPT !.phase = "admitted", !.link = i, !.review = review] \in SignUps
    BY <1>2 DEF SignUps, Phases
  <2> QED
    BY <1>2, <2>2, <2>3
<1>4. /\ job' \in [Handlers -> Jobs]
      /\ \A h \in Handlers : job'[h].kind # "none" => job'[h].user \in Users
      /\ StagesOK'
  BY <1>1 DEF RegInv, JobsOK, StagesOK
<1> QED
  BY <1>1, <1>3, <1>4, PhaseKeepsReg DEF Early

LEMMA ClaimUseKeeps ==
  ASSUME RegInv, NEW u \in Users,
         ValidateCredentials(u) \/ (\E d \in BOOLEAN : TakeUse(u, d)) \/ RefuseUse(u)
  PROVE  RegInv'
<1>1. {"ended", "claimed", "consuming"} \subseteq Phases
  BY DEF Phases
<1>2. CASE ValidateCredentials(u) \/ RefuseUse(u)
  <2>1. /\ UNCHANGED <<userVars, cooldown, job, stage>>
        /\ signUp[u].phase \in {"admitted", "consuming"}
        /\ Go(u, "ended") \/ Go(u, "claimed") \/ Go(u, "consuming")
    BY <1>2 DEF ValidateCredentials, RefuseUse, At, StartSweep, FinishSweep,
                vars, ledgerVars, claimVars
  <2> QED
    BY <1>1, <2>1, GoKeepsReg DEF Early
<1>3. ASSUME NEW d \in BOOLEAN, TakeUse(u, d)
      PROVE  RegInv'
  <2>1. /\ UNCHANGED <<userVars, cooldown, job>> /\ signUp[u].phase = "consuming"
        /\ Go(u, "claimed")
        /\ stage[u] = "none" /\ stage' = [stage EXCEPT ![u] = "unassigned"]
    BY <1>3 DEF TakeUse, At, ConsumeUse
  <2>2. /\ signUp' \in [Users -> SignUps]
        /\ \A v \in Users : v # u => signUp'[v] = signUp[v]
    BY <1>1, <2>1, GoType DEF RegInv
  <2>3. /\ job' \in [Handlers -> Jobs]
        /\ \A h \in Handlers : job'[h].kind # "none" => job'[h].user \in Users
    BY <2>1 DEF RegInv, JobsOK
  <2>4. /\ StagesOK'
        /\ \A c \in Claims : stage'[c] # stage[c] =>
             stage[c] = "none" /\ stage'[c] = "unassigned"
    BY <2>1, NamesAssumption DEF RegInv, StagesOK
  <2> QED
    BY <2>1, <2>2, <2>3, <2>4, PhaseKeepsReg DEF Early
<1> QED
  BY <1>2, <1>3

\* The row is new, and nobody has invited it yet.
LEMMA InsertUserKeeps ==
  ASSUME RegInv, NEW u \in Users, NEW known \in BOOLEAN, InsertUser(u, known)
  PROVE  RegInv'
<1>1. /\ signUp[u].phase = "claimed" /\ registration[u] = "absent"
      /\ registration' = [registration EXCEPT ![u] =
                            IF signUp[u].review THEN "pending_approval"
                            ELSE "awaiting_confirmation"]
      /\ Go(u, IF known THEN "registered" ELSE "return")
      /\ UNCHANGED <<invited, challenge, issuedChallenges, followed, cooldown, job, stage>>
  BY DEF InsertUser, At, vars, ledgerVars, claimVars
<1>2. {"registered", "return"} \subseteq Phases
  BY DEF Phases
<1>3. /\ signUp' \in [Users -> SignUps]
      /\ \A v \in Users : v # u => signUp'[v] = signUp[v]
  BY <1>1, <1>2, GoType DEF RegInv
<1>4. RowsOK'
  BY <1>1 DEF RegInv, RowsOK, RegStates, PendingStates
<1>5. JobsOK' /\ StagesOK'
  BY <1>1, <1>3 DEF RegInv, JobsOK, StagesOK
<1>6. ~invited[u] /\ stage[u] # "assigned" /\ stage[u] # "completed"
  BY <1>1 DEF RegInv, Bound, Early
<1>7. \A v \in Users : v # u => registration'[v] = registration[v]
  BY <1>1 DEF RegInv, RowsOK
<1>8. Bound'
  BY <1>1, <1>3, <1>6, <1>7 DEF RegInv, Bound, Pending
<1> QED
  BY <1>4, <1>5, <1>8 DEF RegInv

\* The claim and the row are tied together in one batch.
LEMMA InitializeKeeps ==
  ASSUME RegInv, NEW u \in Users, NEW known \in BOOLEAN, Initialize(u, known)
  PROVE  RegInv'
<1> DEFINE withUse == signUp[u].link # NoLink
<1>1. /\ signUp[u].phase = "registered"
      /\ registration' = [registration EXCEPT ![u] =
                            IF signUp[u].review THEN "pending_approval"
                            ELSE "awaiting_confirmation"]
      /\ invited' = [invited EXCEPT ![u] = withUse]
      /\ signUp' = [signUp EXCEPT ![u].phase = IF known THEN "initialized" ELSE "undo",
                                  ![u].initialized = known]
      /\ UNCHANGED <<challenge, issuedChallenges, followed, cooldown, job>>
  BY DEF Initialize, InitializeRow, At
<1>2. \/ withUse /\ stage[u] = "unassigned" /\ stage' = [stage EXCEPT ![u] = "assigned"]
      \/ ~withUse /\ stage' = stage
  BY DEF Initialize, AssignClaim, vars, ledgerVars, claimVars
<1>3. signUp \in [Users -> SignUps] /\ u \in Claims
  BY NamesAssumption DEF RegInv, JobsOK
<1>4. /\ signUp' \in [Users -> SignUps] /\ signUp'[u].phase \notin Early
      /\ \A v \in Users : v # u => signUp'[v] = signUp[v]
  <2>1. PICK next \in {"initialized", "undo"} : next = IF known THEN "initialized" ELSE "undo"
    OBVIOUS
  <2>2. signUp' = [signUp EXCEPT ![u] = [signUp[u] EXCEPT !.phase = next, !.initialized = known]]
    BY <1>1, <1>3, <2>1
  <2>3. [signUp[u] EXCEPT !.phase = next, !.initialized = known] \in SignUps
    BY <1>3 DEF SignUps, Phases
  <2> QED
    BY <1>3, <2>2, <2>3 DEF SignUps, Early
<1>5. RowsOK'
  BY <1>1 DEF RegInv, RowsOK, RegStates, PendingStates
<1>6. JobsOK'
  BY <1>1, <1>4 DEF RegInv, JobsOK
<1>7. StagesOK'
  BY <1>2 DEF RegInv, StagesOK
<1>8. ~invited[u] /\ stage[u] # "assigned" /\ stage[u] # "completed"
  BY <1>1 DEF RegInv, Bound, Early
<1>9. /\ stage'[u] = "assigned" <=> withUse
      /\ stage'[u] # "completed"
      /\ \A v \in Users : v # u => stage'[v] = stage[v]
  BY <1>2, <1>3, <1>8, NamesAssumption DEF RegInv, StagesOK
<1>10. /\ invited'[u] <=> withUse
       /\ registration'[u] \in PendingStates
       /\ \A v \in Users : v # u => invited'[v] = invited[v] /\ registration'[v] = registration[v]
  BY <1>1 DEF RegInv, RowsOK, PendingStates
<1> HIDE DEF withUse
<1>11. Bound'
  BY <1>4, <1>9, <1>10 DEF RegInv, Bound, Pending
<1> QED
  BY <1>5, <1>6, <1>7, <1>11 DEF RegInv

LEMMA EndingKeeps ==
  ASSUME RegInv, NEW u \in Users,
         InitializeMisses(u) \/ OpenSession(u) \/ SignUpThrows(u) \/ ReturnFails(u)
  PROVE  RegInv'
<1>1. /\ UNCHANGED <<userVars, cooldown, job, stage>>
      /\ Go(u, "undo") \/ Go(u, "return") \/ Go(u, "ended")
  BY DEF InitializeMisses, OpenSession, SignUpThrows, ReturnFails, vars, ledgerVars, claimVars
<1>2. {"undo", "return", "ended"} \subseteq Phases /\ {"undo", "return", "ended"} \cap Early = {}
  BY DEF Phases, Early
<1> QED
  BY <1>1, <1>2, GoKeepsReg

LEMMA UndoKeeps ==
  ASSUME RegInv, NEW u \in Users, UndoReads(u) \/ UndoFails(u)
  PROVE  RegInv'
<1>1. /\ UNCHANGED <<userVars, cooldown, stage>>
      /\ Go(u, "undoing") \/ Go(u, "return")
  BY DEF UndoReads, UndoFails, vars, ledgerVars, claimVars
<1>2. {"undoing", "return"} \subseteq Phases /\ {"undoing", "return"} \cap Early = {}
  BY DEF Phases, Early
<1>3. /\ signUp' \in [Users -> SignUps] /\ signUp'[u].phase \notin Early
      /\ \A v \in Users : v # u => signUp'[v] = signUp[v]
  BY <1>1, <1>2, GoType DEF RegInv
<1>4. \/ job' = [job EXCEPT ![u] = Deletion(u, FALSE, FALSE)]
      \/ job' = [job EXCEPT ![u] = NoJob]
      \/ job' = job
  BY DEF UndoReads, UndoFails
<1>5. /\ job' \in [Handlers -> Jobs]
      /\ \A h \in Handlers : job'[h].kind # "none" => job'[h].user \in Users
  <2>1. u \in Handlers /\ JobsOK /\ RowsOK
    BY DEF Handlers, RegInv
  <2>2. CASE job' = [job EXCEPT ![u] = Deletion(u, FALSE, FALSE)]
    BY <2>1, <2>2, DeletionType, JobType
  <2>3. CASE job' = [job EXCEPT ![u] = NoJob]
    BY <2>1, <2>3, NoJobType, JobType
  <2>4. CASE job' = job
    BY <2>1, <2>4 DEF JobsOK
  <2> QED
    BY <1>4, <2>2, <2>3, <2>4
<1>6. StagesOK'
  BY <1>1 DEF RegInv, StagesOK
<1> QED
  BY <1>1, <1>3, <1>5, <1>6, PhaseKeepsReg

LEMMA ReturnUseKeeps ==
  ASSUME RegInv, NEW u \in Users, ReturnUse(u)
  PROVE  RegInv'
<1>1. /\ Go(u, "ended") /\ UNCHANGED <<userVars, cooldown, job>>
      /\ RollbackClaim(u) \/ UNCHANGED vars
  BY DEF ReturnUse
<1>2. "ended" \in Phases /\ "ended" \notin Early
  BY DEF Phases, Early
<1>3. /\ signUp' \in [Users -> SignUps] /\ signUp'[u].phase = "ended"
      /\ \A v \in Users : v # u => signUp'[v] = signUp[v]
  BY <1>1, <1>2, GoType DEF RegInv
<1>4. /\ job' \in [Handlers -> Jobs]
      /\ \A h \in Handlers : job'[h].kind # "none" => job'[h].user \in Users
  BY <1>1 DEF RegInv, JobsOK
<1>5. /\ StagesOK'
      /\ \A c \in Claims : stage'[c] # stage[c] =>
           stage[c] = "unassigned" /\ stage'[c] \in {"restored", "refunded"}
  <2>1. CASE RollbackClaim(u)
    BY <2>1, RestoringStages, NamesAssumption DEF RollbackClaim, Restorable, RegInv
  <2>2. CASE UNCHANGED vars
    BY <2>2 DEF vars, ledgerVars, claimVars, RegInv, StagesOK
  <2> QED
    BY <1>1, <2>1, <2>2
<1> QED
  BY <1>1, <1>2, <1>3, <1>4, <1>5, PhaseKeepsReg

-----------------------------------------------------------------------------
(* Decisions, challenges and activations *)

\* A handler reads a row and remembers what it will do about it.
LEMMA ReadKeeps ==
  ASSUME RegInv, NEW v \in Handlers, NEW j \in Jobs, j.kind # "none" => j.user \in Users,
         ReadRow(v, j)
  PROVE  RegInv'
<1>1. UNCHANGED <<userVars, cooldown, signUp, stage>> /\ job' = [job EXCEPT ![v] = j]
  BY DEF ReadRow, vars, ledgerVars, claimVars
<1>2. RowsOK' /\ StagesOK' /\ Bound'
  BY <1>1 DEF RegInv, RowsOK, StagesOK, Bound, Pending, userVars
<1>3. JobsOK'
  <2>1. /\ job' \in [Handlers -> Jobs]
        /\ \A k \in Handlers : job'[k].kind # "none" => job'[k].user \in Users
    BY <1>1, JobType DEF RegInv
  <2> QED
    BY <1>1, <2>1 DEF RegInv, JobsOK
<1> QED
  BY <1>2, <1>3 DEF RegInv

LEMMA DecisionKeeps ==
  ASSUME RegInv, NEW v \in Visitors, NEW u \in Users,
         \/ Cancel(v, u) \/ Reject(v, u) \/ CleanUp(v, u)
         \/ Continue(v, u) \/ Verify(v, u)
  PROVE  RegInv'
<1>1. v \in Handlers /\ RowsOK /\ {TRUE, FALSE} = BOOLEAN
  BY DEF Handlers, RegInv
<1>2. CASE Cancel(v, u) \/ CleanUp(v, u)
  <2>1. ReadRow(v, Deletion(u, FALSE, TRUE)) \/ ReadRow(v, Deletion(u, FALSE, FALSE))
    BY <1>2 DEF Cancel, CleanUp
  <2> QED
    BY <1>1, <2>1, DeletionType, ReadKeeps
<1>3. CASE Reject(v, u)
  <2> DEFINE review == registration[u] = "pending_approval"
  <2>1. ReadRow(v, Deletion(u, review, FALSE)) /\ review \in BOOLEAN
    BY <1>3 DEF Reject
  <2> HIDE DEF review
  <2> QED
    BY <1>1, <2>1, DeletionType, ReadKeeps
<1>4. CASE Continue(v, u) \/ Verify(v, u)
  <2>1. 0 \in 0 .. MaxChallenges /\ challenge[u] \in 0 .. MaxChallenges
    BY <1>1, ModeAssumption DEF RowsOK
  <2>2. ReadRow(v, Activation(u, 0)) \/ ReadRow(v, Activation(u, challenge[u]))
    BY <1>4 DEF Continue, Verify
  <2> QED
    BY <1>1, <2>1, <2>2, ActivationType, ReadKeeps
<1> QED
  BY <1>2, <1>3, <1>4

\* What the end of a deletion does to the handlers.
LEMMA EndDeletionType ==
  ASSUME RegInv, NEW h \in Handlers, job' = [job EXCEPT ![h] = NoJob],
         IF h \in Users THEN Go(h, "return") ELSE UNCHANGED signUp
  PROVE  /\ JobsOK'
         /\ \A u \in Users : signUp'[u].phase \in Early => signUp[u].phase \in Early
<1>1. "return" \in Phases /\ "return" \notin Early
  BY DEF Phases, Early
<1>2. /\ job' \in [Handlers -> Jobs]
      /\ \A k \in Handlers : job'[k].kind # "none" => job'[k].user \in Users
  BY JobType, NoJobType DEF RegInv
<1>3. CASE h \in Users
  <2>1. /\ signUp' \in [Users -> SignUps] /\ signUp'[h].phase = "return"
        /\ \A v \in Users : v # h => signUp'[v] = signUp[v]
    BY <1>1, <1>3, GoType DEF RegInv
  <2> QED
    BY <1>1, <1>2, <2>1 DEF JobsOK
<1>4. CASE h \notin Users
  BY <1>2, <1>4 DEF RegInv, JobsOK
<1> QED
  BY <1>3, <1>4

\* A deletion ends the registration and, in the same batch, settles its claim.
LEMMA DropStages ==
  ASSUME RegInv, NEW j, j.user \in Users, DropClaim(j)
  PROVE  /\ StagesOK'
         /\ stage[j.user] = "assigned" =>
              stage'[j.user] \in {"restored", "refunded", "lost"}
         /\ stage[j.user] # "assigned" => stage'[j.user] = stage[j.user]
         /\ \A c \in Claims : c # j.user => stage'[c] = stage[c]
<1>1. StagesOK /\ j.user \in Claims
  BY NamesAssumption DEF RegInv
<1>2. CASE stage[j.user] = "assigned" /\ CancelClaim(j.user)
  BY <1>1, <1>2, RestoringStages DEF CancelClaim
<1>3. CASE stage[j.user] = "assigned" /\ LoseClaim(j.user)
  BY <1>1, <1>3 DEF LoseClaim, StagesOK
<1>4. CASE stage[j.user] # "assigned" /\ UNCHANGED vars
  BY <1>1, <1>4 DEF vars, ledgerVars, claimVars, StagesOK
<1> QED
  BY <1>2, <1>3, <1>4 DEF DropClaim

LEMMA EndDeletionKeeps ==
  ASSUME RegInv, NEW h \in Handlers, EndDeletion(h)
  PROVE  RegInv'
<1>1. /\ JobsOK'
      /\ \A u \in Users : signUp'[u].phase \in Early => signUp[u].phase \in Early
  BY EndDeletionType DEF EndDeletion
<1>2. CASE CommitDeletion(h)
  <2> DEFINE u == job[h].user
  <2>1. u \in Users /\ Pending(u)
    BY <1>2 DEF CommitDeletion, StillPending, Pending, PendingStates, RegInv, JobsOK
  <2>2. /\ StagesOK'
        /\ stage[u] = "assigned" => stage'[u] \in {"restored", "refunded", "lost"}
        /\ stage[u] # "assigned" => stage'[u] = stage[u]
        /\ \A c \in Claims : c # u => stage'[c] = stage[c]
    BY <1>2, <2>1, DropStages DEF CommitDeletion
  <2>3. /\ registration' = [registration EXCEPT ![u] = "deleted"]
        /\ cooldown' = [cooldown EXCEPT ![EmailOf[u]] = @ \/ job[h].cools]
        /\ UNCHANGED <<invited, challenge, issuedChallenges, followed>>
    BY <1>2 DEF CommitDeletion
  <2> HIDE DEF u
  <2>4. cooldown' \in [Emails -> BOOLEAN]
    <3>1. (cooldown[EmailOf[u]] \/ job[h].cools) \in BOOLEAN
      OBVIOUS
    <3> QED
      BY <2>3, <3>1 DEF RegInv, RowsOK
  <2>5. /\ registration' \in [Users -> RegStates] /\ registration'[u] = "deleted"
        /\ \A v \in Users : v # u => registration'[v] = registration[v]
    BY <2>1, <2>3 DEF RegInv, RowsOK, RegStates
  <2>6. RowsOK'
    BY <2>3, <2>4, <2>5 DEF RegInv, RowsOK
  <2>7. stage[u] # "completed"
    BY <2>1 DEF RegInv, Bound, Pending, PendingStates
  <2>8. stage'[u] # "assigned" /\ stage'[u] # "completed"
    BY <2>2, <2>7
  <2>9. Bound'
    BY <1>1, <2>2, <2>3, <2>5, <2>8, NamesAssumption DEF RegInv, Bound, Pending, PendingStates
  <2> QED
    BY <1>1, <2>2, <2>6, <2>9 DEF RegInv
<1>3. CASE MissDeletion(h)
  <2>1. UNCHANGED <<userVars, cooldown, stage>>
    BY <1>3 DEF MissDeletion, vars, ledgerVars, claimVars
  <2> QED
    BY <1>1, <2>1 DEF RegInv, RowsOK, StagesOK, Bound, Pending, userVars
<1> QED
  BY <1>2, <1>3 DEF EndDeletion

\* Between pending states a row moves without its claim.
LEMMA PendingMoveKeeps ==
  ASSUME RegInv, NEW u \in Users, Approve(u) \/ IssueChallenge(u) \/ LapseChallenge(u)
  PROVE  RegInv'
<1>1. UNCHANGED <<invited, followed, cooldown, signUp, job, stage>>
  BY DEF Approve, IssueChallenge, LapseChallenge, vars, ledgerVars, claimVars
<1>2. Pending(u)
  BY DEF Approve, IssueChallenge, LapseChallenge, Pending, PendingStates
<1>3. RowsOK'
  <2>1. CASE Approve(u)
    BY <2>1 DEF Approve, RegInv, RowsOK, RegStates, PendingStates
  <2>2. CASE IssueChallenge(u)
    <3>1. issuedChallenges[u] + 1 \in 0 .. MaxChallenges /\ issuedChallenges[u] + 1 # 0
      BY <2>2, ModeAssumption DEF IssueChallenge, RegInv, RowsOK
    <3>2. /\ challenge' = [challenge EXCEPT ![u] = issuedChallenges[u] + 1]
          /\ issuedChallenges' = [issuedChallenges EXCEPT ![u] = issuedChallenges[u] + 1]
          /\ registration' = [registration EXCEPT ![u] = "email_verification"]
      BY <2>2 DEF IssueChallenge, NewChallenge
    <3> QED
      BY <1>1, <3>1, <3>2 DEF RegInv, RowsOK, RegStates, PendingStates
  <2>3. CASE LapseChallenge(u)
    <3>1. 0 \in 0 .. MaxChallenges
      BY ModeAssumption
    <3> QED
      BY <2>3, <3>1 DEF LapseChallenge, RegInv, RowsOK, RegStates, PendingStates
  <2> QED
    BY <2>1, <2>2, <2>3
<1>4. /\ registration'[u] \in PendingStates
      /\ \A v \in Users : v # u => registration'[v] = registration[v]
  BY DEF Approve, IssueChallenge, LapseChallenge, RegInv, RowsOK, PendingStates
<1>5. Bound'
  BY <1>1, <1>2, <1>4 DEF RegInv, Bound, Pending, PendingStates
<1>6. JobsOK' /\ StagesOK'
  BY <1>1 DEF RegInv, JobsOK, StagesOK
<1> QED
  BY <1>3, <1>5, <1>6 DEF RegInv

LEMMA EndCooldownKeeps ==
  ASSUME RegInv, NEW e \in Emails, EndCooldown(e)
  PROVE  RegInv'
<1>1. /\ UNCHANGED <<userVars, signUp, job, stage>>
      /\ cooldown' = [cooldown EXCEPT ![e] = FALSE]
  BY DEF EndCooldown, vars, ledgerVars, claimVars
<1> QED
  BY <1>1 DEF RegInv, RowsOK, JobsOK, StagesOK, Bound, Pending, userVars

\* An activation spends the claim in the batch that makes the row active.
LEMMA ActivateKeeps ==
  ASSUME RegInv, NEW v \in Visitors, Activate(v)
  PROVE  RegInv'
<1> DEFINE u == job[v].user
<1>1. v \in Handlers /\ u \in Users /\ u \in Claims
  BY NamesAssumption DEF Activate, RegInv, JobsOK, Handlers
<1>2. /\ registration' = [registration EXCEPT ![u] = "active"]
      /\ challenge' = [challenge EXCEPT ![u] = 0]
      /\ followed' = [followed EXCEPT ![u] = @ \/ job[v].follows]
      /\ job' = [job EXCEPT ![v] = NoJob]
      /\ UNCHANGED <<invited, issuedChallenges, cooldown, signUp>>
      /\ SpendClaim(v, u)
      /\ Pending(u)
  BY <1>1 DEF Activate, ExpectationMet, Pending, PendingStates
<1>3. \/ stage[u] = "assigned" /\ stage' = [stage EXCEPT ![u] = "completed"]
      \/ stage[u] # "assigned" /\ stage' = stage
  BY <1>2 DEF SpendClaim, CompleteClaim, vars, ledgerVars, claimVars
<1> HIDE DEF u
<1>4. followed' \in [Users -> BOOLEAN]
  <2>1. (followed[u] \/ job[v].follows) \in BOOLEAN
    OBVIOUS
  <2> QED
    BY <1>2, <2>1 DEF RegInv, RowsOK
<1>5. /\ registration' \in [Users -> RegStates] /\ registration'[u] = "active"
      /\ \A w \in Users : w # u => registration'[w] = registration[w]
  <2>1. "active" \in RegStates
    BY DEF RegStates
  <2> QED
    BY <1>1, <1>2, <2>1 DEF RegInv, RowsOK
<1>6. challenge' \in [Users -> 0 .. MaxChallenges]
  <2>1. 0 \in 0 .. MaxChallenges
    BY ModeAssumption
  <2> QED
    BY <1>2, <2>1 DEF RegInv, RowsOK
<1>7. RowsOK'
  BY <1>1, <1>2, <1>4, <1>5, <1>6 DEF RegInv, RowsOK
<1>8. JobsOK'
  <2>1. /\ job' \in [Handlers -> Jobs]
        /\ \A k \in Handlers : job'[k].kind # "none" => job'[k].user \in Users
    BY <1>1, <1>2, JobType, NoJobType DEF RegInv
  <2> QED
    BY <1>2, <2>1 DEF RegInv, JobsOK
<1>9. StagesOK'
  BY <1>3 DEF RegInv, StagesOK
<1>10. /\ stage[u] = "assigned" <=> invited[u]
       /\ stage[u] # "completed"
  BY <1>1, <1>2 DEF RegInv, Bound, Pending, PendingStates
<1>11. /\ stage'[u] = "completed" <=> invited[u]
       /\ stage'[u] # "assigned"
       /\ \A w \in Users : w # u => stage'[w] = stage[w]
  BY <1>1, <1>3, <1>10, NamesAssumption DEF RegInv, StagesOK
<1>12. Bound'
  BY <1>2, <1>5, <1>11 DEF RegInv, Bound, Pending, PendingStates
<1> QED
  BY <1>7, <1>8, <1>9, <1>12 DEF RegInv

\* A late activation finds no assigned claim on an active row.
LEMMA MissActivationKeeps ==
  ASSUME RegInv, NEW v \in Visitors, MissActivation(v)
  PROVE  RegInv' /\ UNCHANGED vars
<1> DEFINE u == job[v].user
<1>1. v \in Handlers /\ u \in Users
  BY DEF MissActivation, RegInv, JobsOK, Handlers
<1>2. registration[u] = "active" => stage[u] # "assigned"
  BY <1>1 DEF RegInv, Bound, Pending, PendingStates
<1>3. /\ UNCHANGED vars
      /\ followed' = [followed EXCEPT ![u] = @ \/ (job[v].follows /\ Present(u))]
      /\ job' = [job EXCEPT ![v] = NoJob]
      /\ UNCHANGED <<registration, invited, challenge, issuedChallenges, cooldown, signUp>>
  BY <1>2 DEF MissActivation, SpendClaim
<1> HIDE DEF u
<1>4. followed' \in [Users -> BOOLEAN]
  <2>1. (followed[u] \/ (job[v].follows /\ Present(u))) \in BOOLEAN
    OBVIOUS
  <2> QED
    BY <1>3, <2>1 DEF RegInv, RowsOK
<1>5. JobsOK'
  <2>1. /\ job' \in [Handlers -> Jobs]
        /\ \A k \in Handlers : job'[k].kind # "none" => job'[k].user \in Users
    BY <1>1, <1>3, JobType, NoJobType DEF RegInv
  <2> QED
    BY <1>3, <2>1 DEF RegInv, JobsOK
<1>6. RowsOK' /\ StagesOK' /\ Bound'
  BY <1>3, <1>4 DEF RegInv, RowsOK, StagesOK, Bound, Pending, vars, ledgerVars, claimVars
<1> QED
  BY <1>3, <1>5, <1>6 DEF RegInv

LEMMA LedgerStepKeeps ==
  ASSUME RegInv, LedgerStep
  PROVE  RegInv'
<1>1. /\ StagesOK'
      /\ \A c \in Claims : stage'[c] # stage[c] =>
           stage[c] = "unassigned" /\ stage'[c] \in {"restored", "refunded"}
  BY LedgerStages
<1>2. UNCHANGED regVars
  BY DEF LedgerStep
<1>3. RowsOK' /\ JobsOK'
  BY <1>2 DEF RegInv, RowsOK, JobsOK, regVars, userVars
<1>4. \A u \in Users : /\ stage'[u] = "assigned" <=> stage[u] = "assigned"
                       /\ stage'[u] = "completed" <=> stage[u] = "completed"
  BY <1>1, NamesAssumption
<1>5. Bound'
  BY <1>2, <1>4 DEF RegInv, Bound, Pending, regVars, userVars
<1> QED
  BY <1>1, <1>3, <1>5 DEF RegInv

LEMMA NextReg == RegInv /\ [RegNext]_allVars => RegInv'
<1> SUFFICES ASSUME RegInv, [RegNext]_allVars
             PROVE  RegInv'
  OBVIOUS
<1>1. ASSUME NEW u \in Users, SignUpStep(u)
      PROVE  RegInv'
  BY <1>1, AdmitKeeps, ClaimUseKeeps, InsertUserKeeps, InitializeKeeps, EndingKeeps,
     UndoKeeps, ReturnUseKeeps DEF SignUpStep
<1>2. CASE DecisionStep
  BY <1>2, DecisionKeeps, EndDeletionKeeps, PendingMoveKeeps, EndCooldownKeeps
     DEF DecisionStep, Handlers
<1>3. CASE ActivationStep
  BY <1>3, DecisionKeeps, PendingMoveKeeps, ActivateKeeps, MissActivationKeeps
     DEF ActivationStep
<1>4. CASE LedgerStep
  BY <1>4, LedgerStepKeeps
<1>5. CASE UNCHANGED allVars
  BY <1>5 DEF allVars, regVars, userVars, vars, ledgerVars, claimVars,
     RegInv, RowsOK, JobsOK, StagesOK, Bound, Pending
<1> QED
  BY <1>1, <1>2, <1>3, <1>4, <1>5 DEF RegNext

LEMMA RegInvariant == RegSpec => []RegInv
  BY InitReg, NextReg, PTL DEF RegSpec

-----------------------------------------------------------------------------
(* The theorems *)

\* Every variable of the registrations has its type, and a row that waits for
\* its e-mail to be verified holds the challenge it waits for.
THEOREM RegistrationTyped == RegSpec => []RegTypeOK
<1>1. RegInv => RegTypeOK
  BY TypesAreParts DEF RegInv, JobsOK
<1> QED
  BY <1>1, RegInvariant, PTL

\* Whatever ends an invited registration also settles the use it came with
\* (activateRegistration, deletePendingRegistration): a claim is assigned exactly
\* while its registration is invited and pending.
THEOREM UsesFollowRegistrations == RegSpec => []ClaimFollowsRegistration
<1>1. RegInv => ClaimFollowsRegistration
  BY DEF RegInv, Bound, ClaimFollowsRegistration
<1> QED
  BY <1>1, RegInvariant, PTL

\* A use is spent for good only on a registration that became active and stays so.
THEOREM InviterPaysForMembers == RegSpec => []SpentMeansActive
<1>1. RegInv => SpentMeansActive
  BY DEF RegInv, Bound, SpentMeansActive
<1> QED
  BY <1>1, RegInvariant, PTL

\* Only a deletion makes a row deleted, and its guarded statement finds a pending one.
LEMMA ActiveStays ==
  ASSUME RegInv, [RegNext]_allVars, NEW u \in Users, registration[u] = "active"
  PROVE  registration'[u] # "deleted"
<1>1. registration \in [Users -> RegStates]
  BY DEF RegInv, RowsOK
<1>2. ASSUME NEW v \in Users, NEW next, next # "deleted",
             registration' = [registration EXCEPT ![v] = next]
      PROVE  registration'[u] # "deleted"
  BY <1>1, <1>2
<1>3. CASE UNCHANGED registration
  BY <1>3
<1>4. ASSUME NEW v \in Users, SignUpStep(v)
      PROVE  registration'[u] # "deleted"
  <2>1. CASE \E known \in BOOLEAN : InsertUser(v, known) \/ Initialize(v, known)
    <3> DEFINE next == IF signUp[v].review THEN "pending_approval" ELSE "awaiting_confirmation"
    <3>1. registration' = [registration EXCEPT ![v] = next] /\ next # "deleted"
      BY <2>1 DEF InsertUser, Initialize, InitializeRow
    <3> HIDE DEF next
    <3> QED
      BY <1>2, <3>1
  <2>2. CASE \/ \E i \in Links \cup {NoLink}, mode \in Modes : Admit(v, i, mode)
             \/ ValidateCredentials(v) \/ \E d \in BOOLEAN : TakeUse(v, d)
             \/ RefuseUse(v) \/ InitializeMisses(v) \/ OpenSession(v) \/ SignUpThrows(v)
             \/ UndoReads(v) \/ UndoFails(v) \/ ReturnUse(v) \/ ReturnFails(v)
    BY <1>3, <2>2 DEF Admit, ValidateCredentials, TakeUse, RefuseUse, InitializeMisses,
       OpenSession, SignUpThrows, UndoReads, UndoFails, ReturnUse, ReturnFails, userVars
  <2> QED
    BY <1>4, <2>1, <2>2 DEF SignUpStep
<1>5. ASSUME NEW h \in Handlers, EndDeletion(h)
      PROVE  registration'[u] # "deleted"
  <2>1. CASE CommitDeletion(h)
    <3>1. /\ registration' = [registration EXCEPT ![job[h].user] = "deleted"]
          /\ job[h].user # u
      BY <2>1 DEF CommitDeletion, StillPending, Pending, PendingStates
    <3> QED
      BY <1>1, <3>1
  <2>2. CASE MissDeletion(h)
    BY <1>3, <2>2 DEF MissDeletion, userVars
  <2> QED
    BY <1>5, <2>1, <2>2 DEF EndDeletion
<1>6. CASE DecisionStep
  BY <1>2, <1>3, <1>5, <1>6
     DEF DecisionStep, Handlers, Cancel, Reject, CleanUp, ReadRow, Approve, EndCooldown, userVars
<1>7. ASSUME NEW v \in Visitors, Activate(v)
      PROVE  registration'[u] # "deleted"
  <2>1. job[v].user \in Users
    BY <1>7 DEF Activate, RegInv, JobsOK, Handlers
  <2> QED
    BY <1>2, <1>7, <2>1 DEF Activate
<1>8. CASE ActivationStep
  BY <1>2, <1>3, <1>7, <1>8
     DEF ActivationStep, IssueChallenge, LapseChallenge, Continue, Verify, ReadRow,
         MissActivation, userVars
<1>9. CASE LedgerStep \/ UNCHANGED allVars
  BY <1>3, <1>9 DEF LedgerStep, allVars, regVars, userVars
<1> QED
  BY <1>4, <1>6, <1>8, <1>9 DEF RegNext

\* "activation ... can never be overwritten by a stale reject", nor by a cancellation,
\* a clean-up or the undo of the sign-up, whatever they read before it.
THEOREM NoStaleDeletion == RegSpec => ActivationNotOverwritten
<1>1. RegInv /\ [RegNext]_allVars =>
        [\A u \in Users : registration[u] = "active" => registration'[u] # "deleted"]_allVars
  BY ActiveStays
<1> QED
  BY <1>1, RegInvariant, PTL DEF RegSpec, ActivationNotOverwritten

-----------------------------------------------------------------------------
(* The ledger under the registrations *)

\* The uses that a sign-up takes and gives back.
LEMMA SignUpUsesLedger ==
  ASSUME RegInv, NEW u \in Users, SignUpStep(u)
  PROVE  [Next]_vars
<1>1. u \in Claims /\ u \in Workers /\ signUp[u].link \in Links \cup {NoLink}
  BY NamesAssumption DEF RegInv, JobsOK, SignUps
<1>2. CASE ValidateCredentials(u)
  <2>1. CASE StartSweep(u, signUp[u].link)
    BY <1>1, <2>1 DEF Next, StartStep
  <2>2. CASE UNCHANGED vars
    BY <2>2
  <2> QED
    BY <1>2, <2>1, <2>2 DEF ValidateCredentials
<1>3. ASSUME NEW d \in BOOLEAN, TakeUse(u, d)
      PROVE  Next
  BY <1>1, <1>3 DEF TakeUse, Next, WorkerStep, SweepStep
<1>4. CASE RefuseUse(u)
  BY <1>1, <1>4 DEF RefuseUse, Next, WorkerStep, SweepStep
<1>5. ASSUME NEW known \in BOOLEAN, Initialize(u, known)
      PROVE  [Next]_vars
  <2>1. CASE AssignClaim(u)
    BY <1>1, <2>1 DEF Next, ClaimStep
  <2>2. CASE UNCHANGED vars
    BY <2>2
  <2> QED
    BY <1>5, <2>1, <2>2 DEF Initialize
<1>6. CASE ReturnUse(u)
  <2>1. CASE RollbackClaim(u)
    BY <1>1, <2>1 DEF Next, ClaimStep
  <2>2. CASE UNCHANGED vars
    BY <2>2
  <2> QED
    BY <1>6, <2>1, <2>2 DEF ReturnUse
<1>7. CASE \/ \E i \in Links \cup {NoLink}, mode \in Modes : Admit(u, i, mode)
           \/ \E known \in BOOLEAN : InsertUser(u, known)
           \/ InitializeMisses(u) \/ OpenSession(u) \/ SignUpThrows(u)
           \/ UndoReads(u) \/ UndoFails(u) \/ ReturnFails(u)
  BY <1>7 DEF Admit, InsertUser, InitializeMisses, OpenSession, SignUpThrows,
     UndoReads, UndoFails, ReturnFails
<1> QED
  BY <1>2, <1>3, <1>4, <1>5, <1>6, <1>7 DEF SignUpStep

LEMMA DecisionUsesLedger ==
  ASSUME RegInv, DecisionStep
  PROVE  [Next \/ LostUnseen]_vars
<1>1. ASSUME NEW h \in Handlers, EndDeletion(h)
      PROVE  [Next \/ LostUnseen]_vars
  <2>1. CASE CommitDeletion(h)
    <3> DEFINE u == job[h].user
    <3>1. u \in Claims /\ job[h].kind = "delete" /\ DropClaim(job[h])
      BY <2>1, NamesAssumption DEF CommitDeletion, RegInv, JobsOK
    <3>2. CASE CancelClaim(u)
      BY <3>1, <3>2 DEF Next, ClaimStep
    <3>3. CASE ~job[h].seesClaim /\ LoseClaim(u)
      BY <3>1, <3>3 DEF LostUnseen, Handlers
    <3>4. CASE UNCHANGED vars
      BY <3>4
    <3> QED
      BY <3>1, <3>2, <3>3, <3>4 DEF DropClaim
  <2>2. CASE MissDeletion(h)
    BY <2>2 DEF MissDeletion
  <2> QED
    BY <1>1, <2>1, <2>2 DEF EndDeletion
<1>2. CASE \/ \E v \in Visitors, u \in Users : Cancel(v, u) \/ Reject(v, u) \/ CleanUp(v, u)
           \/ \E u \in Users : Approve(u)
           \/ \E e \in Emails : EndCooldown(e)
  BY <1>2 DEF Cancel, Reject, CleanUp, ReadRow, Approve, EndCooldown
<1> QED
  BY <1>1, <1>2 DEF DecisionStep, Handlers

LEMMA ActivationUsesLedger ==
  ASSUME RegInv, ActivationStep
  PROVE  [Next]_vars
<1>1. ASSUME NEW v \in Visitors, Activate(v)
      PROVE  [Next]_vars
  <2>1. v \in Workers /\ job[v].user \in Claims
    BY <1>1, NamesAssumption DEF Activate, RegInv, JobsOK, Handlers
  <2>2. CASE CompleteClaim(v, job[v].user)
    BY <2>1, <2>2 DEF Next, ClaimStep
  <2>3. CASE UNCHANGED vars
    BY <2>3
  <2> QED
    BY <1>1, <2>2, <2>3 DEF Activate, SpendClaim
<1>2. ASSUME NEW v \in Visitors, MissActivation(v)
      PROVE  UNCHANGED vars
  BY <1>2, MissActivationKeeps
<1>3. CASE \/ \E u \in Users : IssueChallenge(u) \/ LapseChallenge(u)
           \/ \E v \in Visitors, u \in Users : Continue(v, u) \/ Verify(v, u)
  BY <1>3 DEF IssueChallenge, LapseChallenge, Continue, Verify, ReadRow
<1> QED
  BY <1>1, <1>2, <1>3 DEF ActivationStep

LEMMA LedgerStepIsNext ==
  ASSUME LedgerStep
  PROVE  Next
<1>1. ASSUME NEW v \in Visitors,
             \/ \E i \in Links, a \in Accounts, n \in UseChoices, d \in BOOLEAN :
                  CreateLink(v, i, a, n, d)
             \/ StartSweep(v, NoLink)
             \/ \E a \in Accounts, d \in DeltaChoices : StartEvent(v, a, d) \/ StartAdjustment(v, a, d)
             \/ FinishSweep(v)
      PROVE  Next
  <2>1. v \in Workers
    BY NamesAssumption
  <2>2. ASSUME NEW i \in Links, NEW a \in Accounts, NEW n \in UseChoices, NEW d \in BOOLEAN,
               CreateLink(v, i, a, n, d)
        PROVE  Next
    BY <2>1, <2>2 DEF Next, LinkStep
  <2>3. CASE StartSweep(v, NoLink)
    BY <2>1, <2>3 DEF Next, StartStep
  <2>4. ASSUME NEW a \in Accounts, NEW d \in DeltaChoices,
               StartEvent(v, a, d) \/ StartAdjustment(v, a, d)
        PROVE  Next
    BY <2>1, <2>4 DEF Next, StartStep
  <2>5. CASE FinishSweep(v)
    BY <2>1, <2>5 DEF Next, WorkerStep, SweepStep
  <2> QED
    BY <1>1, <2>2, <2>3, <2>4, <2>5
<1>2. ASSUME NEW i \in Links, RevokeLink(i) \/ ExpireLink(i)
      PROVE  Next
  BY <1>2 DEF Next, LinkStep
<1>3. ASSUME NEW c \in Claims, ExpireClaim(c)
      PROVE  Next
  BY <1>3 DEF Next, ClaimStep
<1>4. CASE AdminStep
  BY <1>4 DEF Next
<1>5. ASSUME NEW w \in Workers, ContributionStep(w) \/ \E c \in Claims : SweepClaim(w, c)
      PROVE  Next
  BY <1>5 DEF Next, WorkerStep, SweepStep
<1> QED
  BY <1>1, <1>2, <1>3, <1>4, <1>5 DEF LedgerStep

\* Sign-ups, undos, decisions and activations, in whatever order they run, move the
\* invitation ledger only by the ledger's own steps; the one exception is the cascade
\* of a deletion that read its row before the claim was assigned.
THEOREM LedgerIsRespected == RegSpec => LedgerSpec
<1>1. RegInit => Init
  BY DEF RegInit
<1>2. RegInv /\ [RegNext]_allVars => [Next \/ LostUnseen]_vars
  <2> SUFFICES ASSUME RegInv, [RegNext]_allVars
               PROVE  [Next \/ LostUnseen]_vars
    OBVIOUS
  <2>1. CASE \E u \in Users : SignUpStep(u)
    BY <2>1, SignUpUsesLedger
  <2>2. CASE DecisionStep
    BY <2>2, DecisionUsesLedger
  <2>3. CASE ActivationStep
    BY <2>3, ActivationUsesLedger
  <2>4. CASE LedgerStep
    BY <2>4, LedgerStepIsNext
  <2>5. CASE UNCHANGED allVars
    BY <2>5 DEF allVars
  <2> QED
    BY <2>1, <2>2, <2>3, <2>4, <2>5 DEF RegNext
<1> QED
  BY <1>1, <1>2, RegInvariant, PTL DEF RegSpec, LedgerSpec
===============================================================================
