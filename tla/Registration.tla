----------------------------- MODULE Registration -----------------------------
(***************************************************************************)
(* The life of a local registration, services/registration.ts and the      *)
(* routes that call it, composed with the invitation ledger: every step    *)
(* that takes, assigns, spends or gives back an invitation use is the step *)
(* of InvitationLedger it calls, conjoined with what happens to the users  *)
(* row.                                                                    *)
(*                                                                         *)
(* A sign-up is named by the users row it would insert; the invitation use *)
(* it takes and the worker it runs in go by the same name.  Deletions      *)
(* (cancel, reject, expiry, undo) and activations read the row first and   *)
(* decide on what they read: job[h] is what handler h remembers.           *)
(***************************************************************************)
EXTENDS InvitationLedger

CONSTANTS
  Users,            \* sign-up requests and the users rows they insert
  Emails, EmailOf,  \* the address each of them gives
  Visitors,         \* other requests: applicants with a session, administrators
  NoUser,
  Modes,            \* registration_mode settings a sign-up may meet
  AutoFollow,       \* auto_follow of the invitation links
  MaxChallenges     \* bound: e-mail challenges issued for one registration

ASSUME NamesAssumption ==
  /\ Users \subseteq Claims \cap Workers
  /\ Visitors \subseteq Workers \ Users
  /\ NoUser \notin Users
  /\ EmailOf \in [Users -> Emails]

ASSUME ModeAssumption ==
  /\ Modes \subseteq {"open", "approval", "referral"}
  /\ AutoFollow \in BOOLEAN /\ MaxChallenges \in Nat

VARIABLES
  registration,     \* registration_state of the row: Absent before it is
                    \* inserted, Deleted once it is gone
  invited,          \* users.invite_id is set
  challenge,        \* the e-mail challenge in the row (0: none)
  issuedChallenges, \* how many were issued
  followed,         \* inviter and applicant follow each other
  cooldown,         \* registration_cancellation_cooldowns holds the address
  signUp,           \* progress of POST /api/v1/accounts
  job               \* what a deletion or an activation read

userVars   == <<registration, invited, challenge, issuedChallenges, followed>>
regVars    == <<userVars, cooldown, signUp, job>>
allVars    == <<vars, regVars>>

PendingStates == {"pending_approval", "awaiting_confirmation", "email_verification"}
Pending(u) == registration[u] \in PendingStates
Present(u) == Pending(u) \/ registration[u] = "active"
EmailTaken(u) == \E v \in Users : EmailOf[v] = EmailOf[u] /\ Present(v)

NoJob == [kind |-> "none", user |-> NoUser, pendingOnly |-> FALSE, seesClaim |-> FALSE,
          cools |-> FALSE, expects |-> 0, follows |-> FALSE]

\* deletePendingRegistration with expectedState, the claim it found and
\* startCancellationCooldown.
Deletion(u, pendingOnly, cools) ==
  [NoJob EXCEPT !.kind = "delete", !.user = u, !.pendingOnly = pendingOnly,
                !.seesClaim = invited[u] /\ stage[u] = "assigned", !.cools = cools]

\* activateRegistration expecting challenge n, or 0: awaiting_confirmation.
Activation(u, n) ==
  [NoJob EXCEPT !.kind = "activate", !.user = u, !.expects = n,
                !.follows = invited[u] /\ AutoFollow]

NewSignUp == [phase |-> "new", link |-> NoLink, review |-> FALSE, initialized |-> FALSE]

RegInit ==
  /\ Init
  /\ registration = [u \in Users |-> "absent"]
  /\ invited = [u \in Users |-> FALSE]
  /\ challenge = [u \in Users |-> 0]
  /\ issuedChallenges = [u \in Users |-> 0]
  /\ followed = [u \in Users |-> FALSE]
  /\ cooldown = [e \in Emails |-> FALSE]
  /\ signUp = [u \in Users |-> NewSignUp]
  /\ job = [h \in Users \cup Visitors |-> NoJob]

-----------------------------------------------------------------------------
(* Sign-up: POST /api/v1/accounts *)

At(u, phase) == signUp[u].phase = phase
Go(u, phase) == signUp' = [signUp EXCEPT ![u].phase = phase]

\* Mode, preview of the invitation and the cancellation cooldown.  An applicant
\* with an invitation needs no review.
Admit(u, i, mode) ==
  /\ At(u, "new")
  /\ mode = "referral" => i # NoLink
  /\ i # NoLink => owner[i] # NoAccount /\ Usable(i)
  /\ ~cooldown[EmailOf[u]]
  /\ signUp' = [signUp EXCEPT ![u].phase = "admitted", ![u].link = i,
                              ![u].review = (mode = "approval" /\ i = NoLink)]
  /\ UNCHANGED <<vars, userVars, cooldown, job>>

\* validateRegistrationCredentials, then the sweep that consumeRegistrationInvitation
\* begins with.
ValidateCredentials(u) ==
  LET i == signUp[u].link IN
  /\ At(u, "admitted")
  /\ \/ EmailTaken(u) /\ Go(u, "ended") /\ UNCHANGED vars
     \/ ~EmailTaken(u) /\ i = NoLink /\ Go(u, "claimed") /\ UNCHANGED vars
     \/ ~EmailTaken(u) /\ i # NoLink /\ Go(u, "consuming") /\ StartSweep(u, i)
  /\ UNCHANGED <<userVars, cooldown, job>>

TakeUse(u, newDay) ==
  /\ At(u, "consuming") /\ ConsumeUse(u, u, newDay) /\ Go(u, "claimed")
  /\ UNCHANGED <<userVars, cooldown, job>>

RefuseUse(u) ==
  /\ At(u, "consuming") /\ FinishSweep(u) /\ Go(u, "ended")
  /\ UNCHANGED <<userVars, cooldown, job>>

\* registerUser inserts account, user and key in one batch and reads the rows
\* back.  When that read fails the rows are there, but the sign-up does not know
\* the user it created.
InsertUser(u, known) ==
  /\ At(u, "claimed") /\ ~EmailTaken(u) /\ registration[u] = "absent"
  /\ registration' = [registration EXCEPT ![u] =
                        IF signUp[u].review THEN "pending_approval"
                        ELSE "awaiting_confirmation"]
  /\ Go(u, IF known THEN "registered" ELSE "return")
  /\ UNCHANGED <<vars, invited, challenge, issuedChallenges, followed, cooldown, job>>

\* The batch of initializeRegistration sets the row back to its first state
\* whatever it is by now.
InitializeRow(u) ==
  /\ registration' = [registration EXCEPT ![u] =
                        IF signUp[u].review THEN "pending_approval"
                        ELSE "awaiting_confirmation"]
  /\ invited' = [invited EXCEPT ![u] = signUp[u].link # NoLink]
  /\ UNCHANGED <<challenge, issuedChallenges, followed>>

\* known: the answer of the database reached the worker.
Initialize(u, known) ==
  LET withUse == signUp[u].link # NoLink IN
  /\ At(u, "registered") /\ Present(u)
  /\ IF withUse THEN AssignClaim(u) ELSE UNCHANGED vars
  /\ InitializeRow(u)
  /\ signUp' = [signUp EXCEPT ![u].phase = IF known THEN "initialized" ELSE "undo",
                              ![u].initialized = known]
  /\ UNCHANGED <<cooldown, job>>

\* The claim has expired or been swept, or the row is gone: 409, or the foreign
\* key of the claim fails.
InitializeMisses(u) ==
  /\ At(u, "registered")
  /\ \/ ~Present(u)
     \/ signUp[u].link # NoLink /\ ~(stage[u] = "unassigned" /\ ~claimExpired[u])
  /\ Go(u, "undo")
  /\ UNCHANGED <<vars, userVars, cooldown, job>>

OpenSession(u) ==
  /\ At(u, "initialized") /\ Go(u, "ended")
  /\ UNCHANGED <<vars, userVars, cooldown, job>>

\* Any await of the sign-up throws.  The catch block deletes the user it knows
\* of, then gives the use back unless the registration was initialized.
SignUpThrows(u) ==
  /\ \/ At(u, "claimed") /\ Go(u, "return")
     \/ signUp[u].phase \in {"registered", "initialized"} /\ Go(u, "undo")
  /\ UNCHANGED <<vars, userVars, cooldown, job>>

\* Errors of the deletion are swallowed: no such user, an active one, or a
\* database that does not answer.
UndoReads(u) ==
  /\ At(u, "undo")
  /\ \/ Pending(u) /\ job' = [job EXCEPT ![u] = Deletion(u, FALSE, FALSE)] /\ Go(u, "undoing")
     \/ Go(u, "return") /\ UNCHANGED job
  /\ UNCHANGED <<vars, userVars, cooldown>>

ReturnUse(u) ==
  LET takesBack == signUp[u].link # NoLink /\ ~signUp[u].initialized IN
  /\ At(u, "return")
  /\ \/ takesBack /\ RollbackClaim(u)
     \/ ~(takesBack /\ Restorable(u)) /\ UNCHANGED vars
  /\ Go(u, "ended")
  /\ UNCHANGED <<userVars, cooldown, job>>

ReturnFails(u) ==
  /\ At(u, "return") /\ Go(u, "ended")
  /\ UNCHANGED <<vars, userVars, cooldown, job>>

-----------------------------------------------------------------------------
(* Decisions about a registration *)

\* A row can be decided about as soon as it is inserted: the administrator's list
\* shows it and its password opens a registration session.
Free(v) == job[v] = NoJob /\ task[v] = Idle

ReadRow(v, j) ==
  /\ job' = [job EXCEPT ![v] = j]
  /\ UNCHANGED <<vars, userVars, cooldown, signUp>>

Cancel(v, u) == Free(v) /\ Pending(u) /\ ReadRow(v, Deletion(u, FALSE, TRUE))

Reject(v, u) ==
  /\ Free(v) /\ Pending(u)
  /\ ReadRow(v, Deletion(u, registration[u] = "pending_approval", FALSE))

\* cleanupExpiredInvitedRegistrations, run by the inviter's next request.
CleanUp(v, u) ==
  /\ Free(v) /\ Pending(u) /\ stage[u] = "assigned" /\ claimExpired[u]
  /\ ReadRow(v, Deletion(u, FALSE, FALSE))

StillPendingUnchecked(j) == Present(j.user)   \* a mistake

StillPending(j) ==
  IF j.pendingOnly THEN registration[j.user] = "pending_approval" ELSE Pending(j.user)

\* The row is deleted and takes its claim with it: ON DELETE CASCADE.
LoseClaim(u) ==
  /\ stage' = [stage EXCEPT ![u] = "lost"]
  /\ UNCHANGED <<settingVars, scoreVars, creditVars, linkVars, claimLink,
                 limitVars, clockVars, task>>

DropClaimUnrestored(j) ==   \* a mistake: nothing is given back
  IF stage[j.user] = "assigned" THEN LoseClaim(j.user) ELSE UNCHANGED vars

\* The statements that restore the use are in the batch only if the claim was
\* there when the row was read.
DropClaim(j) ==
  \/ stage[j.user] = "assigned" /\ j.seesClaim /\ CancelClaim(j.user)
  \/ stage[j.user] = "assigned" /\ ~j.seesClaim /\ LoseClaim(j.user)
  \/ stage[j.user] # "assigned" /\ UNCHANGED vars

CommitDeletion(h) ==
  LET j == job[h] IN
  /\ j.kind = "delete" /\ StillPending(j)
  /\ DropClaim(j)
  /\ registration' = [registration EXCEPT ![j.user] = "deleted"]
  /\ cooldown' = [cooldown EXCEPT ![EmailOf[j.user]] = @ \/ j.cools]
  /\ UNCHANGED <<invited, challenge, issuedChallenges, followed>>

MissDeletion(h) ==
  /\ job[h].kind = "delete" /\ ~StillPending(job[h])
  /\ UNCHANGED <<vars, userVars, cooldown>>

EndDeletion(h) ==
  /\ CommitDeletion(h) \/ MissDeletion(h)
  /\ job' = [job EXCEPT ![h] = NoJob]
  /\ IF h \in Users THEN Go(h, "return") ELSE UNCHANGED signUp

\* The database does not answer the undo.
UndoFails(u) ==
  /\ job[u].kind = "delete" /\ job' = [job EXCEPT ![u] = NoJob] /\ Go(u, "return")
  /\ UNCHANGED <<vars, userVars, cooldown>>

Approve(u) ==
  /\ registration[u] = "pending_approval"
  /\ registration' = [registration EXCEPT ![u] = "awaiting_confirmation"]
  /\ UNCHANGED <<vars, invited, challenge, issuedChallenges, followed, cooldown, signUp, job>>

-----------------------------------------------------------------------------
(* The e-mail challenge and activation *)

NoNewChallenge(u) == 0   \* a mistake: the token is not stored

NewChallenge(u) == issuedChallenges[u] + 1

\* startEmailVerification that reaches the mail queue; EmailVerification has it
\* step by step.
IssueChallenge(u) ==
  /\ registration[u] \in {"awaiting_confirmation", "email_verification"}
  /\ issuedChallenges[u] < MaxChallenges
  /\ registration' = [registration EXCEPT ![u] = "email_verification"]
  /\ challenge' = [challenge EXCEPT ![u] = NewChallenge(u)]
  /\ issuedChallenges' = [issuedChallenges EXCEPT ![u] = @ + 1]
  /\ UNCHANGED <<vars, invited, followed, cooldown, signUp, job>>

\* getRegistrationStatus after the hour is over.
LapseChallenge(u) ==
  /\ registration[u] = "email_verification"
  /\ registration' = [registration EXCEPT ![u] = "awaiting_confirmation"]
  /\ challenge' = [challenge EXCEPT ![u] = 0]
  /\ UNCHANGED <<vars, invited, issuedChallenges, followed, cooldown, signUp, job>>

\* continueRegistration when no e-mail verification is required.
Continue(v, u) ==
  /\ Free(v)
  /\ registration[u] \in {"awaiting_confirmation", "email_verification"}
  /\ ReadRow(v, Activation(u, 0))

\* The code or the link of the challenge is presented.
Verify(v, u) ==
  /\ Free(v) /\ registration[u] = "email_verification" /\ challenge[u] # 0
  /\ ReadRow(v, Activation(u, challenge[u]))

ExpectationMet(j) ==
  \/ j.expects = 0 /\ registration[j.user] = "awaiting_confirmation"
  \/ j.expects # 0 /\ registration[j.user] = "email_verification"
                   /\ challenge[j.user] = j.expects

SpendNothing(v, u) == UNCHANGED vars   \* a mistake: the claim stays

SpendClaim(v, u) == IF stage[u] = "assigned" THEN CompleteClaim(v, u) ELSE UNCHANGED vars

Activate(v) ==
  LET u == job[v].user IN
  /\ job[v].kind = "activate" /\ ExpectationMet(job[v])
  /\ SpendClaim(v, u)
  /\ registration' = [registration EXCEPT ![u] = "active"]
  /\ challenge' = [challenge EXCEPT ![u] = 0]
  /\ followed' = [followed EXCEPT ![u] = @ \/ job[v].follows]
  /\ job' = [job EXCEPT ![v] = NoJob]
  /\ UNCHANGED <<invited, issuedChallenges, cooldown, signUp>>

\* The guarded UPDATE misses and the answer is 410, but the rest of the batch
\* runs.  Without the row the follows break their foreign key and nothing does.
MissActivation(v) ==
  LET u == job[v].user IN
  /\ job[v].kind = "activate" /\ ~ExpectationMet(job[v])
  /\ IF registration[u] = "active" THEN SpendClaim(v, u) ELSE UNCHANGED vars
  /\ followed' = [followed EXCEPT ![u] = @ \/ (job[v].follows /\ Present(u))]
  /\ job' = [job EXCEPT ![v] = NoJob]
  /\ UNCHANGED <<registration, invited, challenge, issuedChallenges, cooldown, signUp>>

\* Twenty-four hours after a cancellation.
EndCooldown(e) ==
  /\ cooldown[e] /\ cooldown' = [cooldown EXCEPT ![e] = FALSE]
  /\ UNCHANGED <<vars, userVars, signUp, job>>

-----------------------------------------------------------------------------
(* The specification *)

SignUpStep(u) ==
  \/ \E i \in Links \cup {NoLink}, mode \in Modes : Admit(u, i, mode)
  \/ ValidateCredentials(u) \/ \E d \in BOOLEAN : TakeUse(u, d)
  \/ RefuseUse(u)
  \/ \E known \in BOOLEAN : InsertUser(u, known) \/ Initialize(u, known)
  \/ InitializeMisses(u) \/ OpenSession(u) \/ SignUpThrows(u)
  \/ UndoReads(u) \/ UndoFails(u) \/ ReturnUse(u) \/ ReturnFails(u)

DecisionStep ==
  \/ \E v \in Visitors, u \in Users : Cancel(v, u) \/ Reject(v, u) \/ CleanUp(v, u)
  \/ \E h \in Users \cup Visitors : EndDeletion(h)
  \/ \E u \in Users : Approve(u)
  \/ \E e \in Emails : EndCooldown(e)

ActivationStep ==
  \/ \E u \in Users : IssueChallenge(u) \/ LapseChallenge(u)
  \/ \E v \in Visitors, u \in Users : Continue(v, u) \/ Verify(v, u)
  \/ \E v \in Visitors : Activate(v) \/ MissActivation(v)

\* What the ledger does by itself: links, the administrator, time, the sweeps
\* and the contribution requests.
LedgerStep ==
  /\ \/ \E v \in Visitors : /\ job[v] = NoJob
                            /\ \/ \E i \in Links, a \in Accounts, n \in UseChoices,
                                     d \in BOOLEAN : CreateLink(v, i, a, n, d)
                               \/ StartSweep(v, NoLink)
                               \/ \E a \in Accounts, d \in DeltaChoices :
                                     StartEvent(v, a, d) \/ StartAdjustment(v, a, d)
                               \/ FinishSweep(v)
     \/ \E i \in Links : RevokeLink(i) \/ ExpireLink(i)
     \/ \E c \in Claims : ExpireClaim(c)
     \/ AdminStep
     \/ \E w \in Workers : ContributionStep(w) \/ \E c \in Claims : SweepClaim(w, c)
  /\ UNCHANGED regVars

RegNext == (\E u \in Users : SignUpStep(u)) \/ DecisionStep \/ ActivationStep \/ LedgerStep

RegSpec == RegInit /\ [][RegNext]_allVars

-----------------------------------------------------------------------------
(* Properties *)

\* Every variable of the registrations has its type, and a row that waits for
\* its e-mail to be verified holds the challenge it waits for.
RegTypeOK ==
  /\ registration \in [Users -> PendingStates \cup {"absent", "active", "deleted"}]
  /\ invited \in [Users -> BOOLEAN]
  /\ challenge \in [Users -> 0 .. MaxChallenges]
  /\ \A u \in Users : registration[u] = "email_verification" => challenge[u] # 0
  /\ issuedChallenges \in [Users -> 0 .. MaxChallenges]
  /\ followed \in [Users -> BOOLEAN]
  /\ cooldown \in [Emails -> BOOLEAN]
  /\ signUp \in [Users -> [phase : {"new", "admitted", "consuming", "claimed", "registered",
                                    "initialized", "undo", "undoing", "return", "ended"},
                           link : Links \cup {NoLink},
                           review : BOOLEAN, initialized : BOOLEAN]]
  /\ job \in [Users \cup Visitors ->
                [kind : {"none", "delete", "activate"}, user : Users \cup {NoUser},
                 pendingOnly : BOOLEAN, seesClaim : BOOLEAN, cools : BOOLEAN,
                 expects : 0 .. MaxChallenges, follows : BOOLEAN]]

\* A use that is assigned belongs to a pending invited registration, and such a
\* registration has one: whatever ends the registration also settles the use.
ClaimFollowsRegistration ==
  \A u \in Users : stage[u] = "assigned" <=> invited[u] /\ Pending(u)

\* An inviter pays only for people who joined: a spent use has an active account
\* to show for it.
SpentMeansActive ==
  \A u \in Users : stage[u] = "completed" => registration[u] = "active"

\* A pending registration that goes away, however it goes, gives back the use it
\* came with.
DeletionGivesUseBack ==
  \A u \in Users : registration[u] = "deleted" => stage[u] # "lost"

\* "activation ... can never be overwritten by a stale reject", nor by a stale
\* cancellation, expiry or undo.
ActivationNotOverwritten ==
  [][\A u \in Users : registration[u] = "active" => registration'[u] # "deleted"]_allVars

\* The known way a use gets lost: a deletion that did not see the claim.
LostUnseen ==
  \E h \in Users \cup Visitors :
    job[h].kind = "delete" /\ ~job[h].seesClaim /\ LoseClaim(job[h].user)

\* Everything registrations do to the ledger, in whatever order sign-ups, undos,
\* decisions and activations run, is a step of the ledger specification, so what
\* is proved of the ledger holds in the composed system; the one exception is
\* the cascade that takes a claim the deletion had not seen.
LedgerSpec == Init /\ [][Next \/ LostUnseen]_vars
===============================================================================
