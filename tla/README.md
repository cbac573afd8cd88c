# Verification of SiliconBeest

TLA+ models of the parts of SiliconBeest in which several requests, queue
consumers and administrators change the same rows, with TLC runs on small
instances and theorems that hold for every instance.

## The system

SiliconBeest is a Mastodon-compatible ActivityPub server on Cloudflare Workers.
One worker serves the API and the web client (`src/siliconbeest`), one consumes
the queues (`src/siliconbeest-queue-consumer`), one sends mail
(`src/siliconbeest-email-sender`). They share a D1 database, KV namespaces and
four queues. There are no threads and no locks: every `await` is a point where
other requests run, a D1 `batch` is a transaction, a single statement is atomic,
and everything else is not. Guards are therefore written into the SQL
(`UPDATE ... WHERE state = <what was read>`), and the hard part of the code is
where a decision is made on a row that was read before.

| component | state | operations | interacts with | what makes it correct |
|---|---|---|---|---|
| invitation ledger (`services/invitationCredits.ts`, `services/contribution.ts`) | balances, links, use claims, daily counters, settings, audit log | create, revoke and expire links; consume, assign, complete, roll back, cancel and sweep uses; set, add, distribute and reset credits; change settings; contribution events | registration takes and settles uses | no use is lost or doubled, refunds never stall, the cap holds, tiers are paid once, the log adds up |
| registration (`services/registration.ts`, `accounts/create.ts`, `registration.ts` routes, `reject.ts`) | the users row and its state, cooldowns, claims | sign up with undo, approve, reject, cancel, expire, issue a challenge, verify, activate | ledger, e-mail verification | the use follows the registration, a decision is not overwritten |
| e-mail verification (in `services/registration.ts`) | challenge, attempts and expiry in the users row; delivery limits; link keys in KV | issue with delivery limit and repair, verify code, follow link, lapse | mail queue, registration | guesses and deliveries bounded, mailed links work, activation is final |
| queue consumer and dead letters (`siliconbeest-queue-consumer/src/index.ts`, `admin/federation.ts`) | messages in three queues, parked rows | process, defer, retry, park, drop; replay, discard | every producer | no message disappears without a trace |
| accounts and relationships (`services/account.ts`, `inboxProcessors`) | follows, requests, blocks, counters | follow, accept, reject, undo, block, over API and ActivityPub | queues, notifications | consent, counters agree with rows, blocks end follows |
| interactions (`services/status.ts`, `inboxProcessors`) | favourites, boosts, polls and votes, counters | favourite, boost, vote and their opposites, over API and ActivityPub | timelines, queues | counters agree with rows, one boost per account, no invented vote |
| authoring (`services/status.ts`, `statuses/create.ts`, `inboxProcessors/create.ts`, `delete.ts`) | statuses, uploads, hashtags, mentions, edit history | create, edit and delete, over API and ActivityPub | uploads, counters of the parent and the author | an upload is on one status, the index follows the text, the history is true |
| tokens and OAuth (`services/oauth.ts`, `auth.ts`, `session.ts`) | codes, tokens, KV cache of tokens, backup codes | authorize, exchange, resolve, revoke, change role, second factor | all endpoints | a credential is used once, a decision reaches the cache |
| permissions, notifications and fan-out (`packages/shared/permissions.ts`, `services/permissions.ts`, three queue handlers) | the rows that relate accounts and statuses | decide; follow, block, mute, block a domain, moderate; notify, push and stream | every route and handler | the decisions agree, a boundary holds for what is under way |
| domain policy, ActivityPub documents and keys, recommendations, rate limits, administration, mail sender, web client | | | | see `PROJECT.json` for why they are not modelled |

The hard behaviours are listed in `PROJECT.json` under `hazards`, each at the
line where it bites: rows read before a batch and used in it, several calls of
which one may fail, redelivery after a lost acknowledgement, limits that are
read and then counted, and decisions taken by two people at once.

## Modules

| module | models | checked by | proved in |
|---|---|---|---|
| `CreditBank` | what the ledger promises: credits free, held and spent per account | as a property of `ledger_claims` | `RegistrationProofs` |
| `InvitationLedger` | the credit ledger and the contribution awards | `MCInvitationLedger` | `RegistrationProofs` |
| `Registration` | the life of a registration, composed with the ledger (EXTENDS it) | `MCRegistration` | `RegistrationProofs` |
| `EmailVerification` | the challenge of one registration, statement by statement | `MCEmailVerification` | `EmailVerificationProofs` |
| `DeadLetters` | the consumer's batches, the dead-letter queue and the parked rows | `MCDeadLetters` | `DeadLettersProofs` |
| `Relationships` | follows, requests, blocks and counters, statement by statement | `MCRelationships` | `RelationshipsProofs` |
| `Interactions` | favourites, boosts and votes on one status, statement by statement | `MCInteractions` | `InteractionsProofs` |
| `Authoring` | replies to that status with uploads, hashtags and mentions, their edits and deletion (EXTENDS `Interactions`) | `MCInteractions` | `AuthoringProofs` |
| `Tokens` | the tokens of an account, the cache in front of them, codes and backup codes | `MCTokens` | `TokensProofs` |
| `Permissions` | who may see, list and do what, the notification handlers and the fan-out | `MCPermissions` | `PermissionsProofs` |

A module has one variable per table or group of columns and one action per batch,
statement or call between two awaits. What a request remembers across an await is
a variable of its own (`task`, `signUp` and `job`, `op`, `batch` and `decision`,
`handler`), so that everything else may happen in between. Variables whose comment
says "history" are not state of the program: they remember that a race happened, so
that a property can say exactly what holds without it.

### InvitationLedger

`available`, `score`, `awardLevel` are `account_invitation_balances`; `owner`,
`issued`, `remaining`, `unused`, `revoked`, `linkExpired` are
`registration_invites`; `stage`, `claimLink`, `claimExpired` are
`invitation_use_claims` (a claim is deleted in the code when it is settled; the
model remembers how in `stage`); `issuedLinks` and `consumedUses` the daily
counters; `creditAudit`, `scoreAudit`, `awardAudit` the sums of the audit rows.
Every batch of the two services is an action. Two operations are longer than a
batch and run as a `task` of a worker: the sweep of expired claims that
`consumeInvitationUse` and the scheduled clean-up start, and
`applyContributionDelta`, which reads the balance, computes the new score and
writes it back if nothing changed, at most `MaxAttempts` times. Time appears as
the actions `ExpireLink` and `ExpireClaim`. Daily counters are not reset: the
bound of one day is a window that does not end.

`CreditBank` is the abstract specification: an account has credits that are free,
credits that it holds out and credits that completed sign-ups cost it, and these
change by an exchange, a payment, a regulation under the limit or a reset.
`ImplementsBank` is the refinement mapping: free is `available`, held is what is on
links and out with claims (`Obligations`), spent counts the completed claims, limit
is the cap.

### Registration

`registration[u]` is `registration_state`, `Absent` before the row is inserted
and `Deleted` when it is gone; `invited`, `challenge`, `followed`, `cooldown`
are the columns and tables the decisions look at. `signUp[u]` is how far `POST
/api/v1/accounts` has come, including the undo in its `catch`; `job[h]` is what
a deletion or an activation read before its batch. Every ledger effect is the
ledger action itself, conjoined with the change of the row, with one exception:
when a users row is deleted whose claim was not seen, the claim goes by `ON
DELETE CASCADE` (`LoseClaim`), which is no step of the ledger. That is what
`reg_lost_use` shows, and `LedgerSpec` says that there is no other such step.

### EmailVerification

A challenge is a number that stands for the link token and the code issued with
it. `row`, `limit` and `links` are the users row, the row of
`registration_email_delivery_limits` and the `email_confirm:` keys in KV; `mails`
what was handed to the mail queue, `guesses` how often a code was compared. The
phases of `op[r]` are the awaits of `startEmailVerification` (read, claim the
delivery, store the challenge, put the link, queue the message, drop the old
link; or the three repairs that run side by side when the queue refuses),
`verifyRegistrationCode` and the lapse in `getRegistrationStatus`. `Abandon` ends
a request at any await. Assumed: the clock does not move between reading the
delivery limit and claiming a delivery, which the code treats as one moment. The
cooldown is looked at only within a window (`registration.ts:557`): the first message
of a window may follow the last of the window before at once, and `MailsLimited` says
no more than that.

### DeadLetters

A message has a place (a queue, a consumer's batch, gone), the attempts the
platform counts, and a body. A consumer is handed a set of messages, decides about
each, and its decisions take effect when it returns; `Crash` ends it before, with
or without what it had acknowledged. `Redelivered` is the platform: a message that
was not acknowledged goes back to its queue until `max_retries` is used up, then to
the dead-letter queue if there is one, else it is deleted. The handlers are one
step that succeeds, is deferred (ordering lock) or throws. An administrator's
request reads the row, sends the copy, and marks the row, in this order; bulk
requests are rounds of the same steps and compare the status again. Assumed: the
consumer's two constants agree with `wrangler.jsonc` (`ConfigAssumption`), and no
consumer dies in the very last delivery of a message that has no dead-letter queue
behind it (`CrashesOnLastAttempt = FALSE`); then the platform would delete it. In which
order the copies of a round are sent is left open (`SetToSeq` picks one): a consumer
may be handed any of them.

### Relationships

`follow` and `request` hold the id of a pair's row, `blocks` the blocks, `followers`
and `following` the two counters of each account. A worker runs one request or one
activity at a time; its phases are the statements of `createFollow`, `removeFollow`,
`removeFollower`, `createBlock`, `importItem` and the inbox processors Follow,
Accept, Reject, Undo and Block. `Crash` interrupts a worker, `Redeliver` starts an
activity again from its first statement. `drifted`, `overtaken` and `untold` are
history: a counter moved without its row, a block met a follow that had passed its
check, a follower still has to be told.

### Interactions

One status with a poll, `favourite[a]` the row of an account, `boostBy` and
`boostLive` the boosts, `votes` the rows of `poll_votes`; `favourites`, `reblogs`,
`posts`, `tally`, `votesCount` and `votersCount` the counters kept beside them. API
requests batch the row with its counter where the code does (`AddFavourite`,
`Vote`), inbox processors count in later statements. `votePoll` and the federated
vote keep the options they read (`seen`) and write them back, which is what
`overwritten` remembers. A behaviour runs the kinds of tasks of one `scene`: kinds
that share no counter do not disturb each other.

### Authoring

The replies to the status of `Interactions`. `writer`, `shown` and `text` are rows of
`statuses`, `owner` and `holder` the account and the status of an upload, `terms` what
`status_tags` and `mentions` say of a reply, `known` the table `tags`, `snapshots` the
table `status_edits`, `replies` and `written` two counters. `work[w]` is how far a
request has come in `createStatus`, `editStatus` or `deleteStatus`, or an activity in
the inbox processors Create and Delete; each statement between two awaits is an
action. A text stands for what `parseContent` finds in it. `Interrupt` ends a request
where it is, or sends an activity back to its queue; `Retry` begins it again. `past`,
`overlapped`, `skipped`, `unfinished` and `miscounted` are history. The properties say
what holds in spite of four weaknesses, which the exceptions in them name: two
statuses that bring the same new hashtag at once, of which one is answered with an
error after it was published (`AddTags`); an edit that ends with 422 after its text was
published (`AttachMedia`); edits at the same time, of which one is missing in the
history (`skipped`) and which may leave hashtags of either text (`overlapped`); and an
edit that deletes the mentions of remote accounts, which nothing puts back
(`ClearMentions`), so that these accounts are no longer among those the Update names.

### Tokens

`token`, `code`, `backup` are rows, `cache[t]` the role in the KV entry of a token,
`usable` what `canUseAccount` answers, `role` the user's role. Every D1 or KV call is
an action: the resolver looks in KV, rechecks the account on a hit, otherwise
queries and puts; a role change updates, lists the tokens and deletes their entries
one by one. Three requests revoke. `POST /oauth/revoke` (`Revoke`) finds a row by its
hash only, updates it and deletes the entry; `revokeSession` (`EndSession`) finds it by
its id and deletes the entry if there is a hash; `revokeAllOtherSessions` (`ListOthers`,
`RevokeOthers`) lists, revokes everything that is active and deletes the entries of those
listed that have a hash. `Legacy` are the rows from before migration 0022, which have
none: `resolveToken` still finds them by the token itself and caches them, so a row that
is revoked through `EndSession` or `RevokeOthers` goes on being answered from the cache
until its entry expires, and `POST /oauth/revoke` does not revoke it at all. This is an
exception of `CacheIsCurrent`; `RevocationSettles` covers it. `wasUsable` of a
request remembers whether its account could be used at some time since it began.
KV is taken to return the last value written, which is stronger than the platform's
promise (changes may take a minute to be seen elsewhere); under the weaker one
`CacheIsCurrent` would hold only after that delay.

### Permissions

One status by `Author`, and the rows that decide who may see it. The decisions of
`packages/shared/permissions.ts` are operators over facts, those of
`services/permissions.ts` operators over rows, and every SQL predicate is an operator
of its own (`Sql...`), translated from its text and not from the decision it should
agree with. The services change the rows: follow, authorize, unfollow, block, mute,
domain block with its later clean-up, moderation, moving, deletion, thread mutes.

A follow is allowed (`Follow`), a local one looks for the rows of the pair
(`LookUpFollow`), and it is inserted (`InsertFollow`), each a step of its own: `permitted`
and `inserting` hold the pairs in between. The inbox looks for nothing, so a request may
stand beside a follow of the same pair, and nothing says otherwise. A local block is one
batch (`Block`); a Block from the inbox inserts its row and then deletes statement by
statement (`BlockFromInbox`, `TearDown`), may be interrupted (`CutBlock`), and when it is
delivered again ends at its row. `tearing` is the statement that comes next. A private
status is shown to a follower without looking at blocks, so what a block leaves matters:
`overtaken` names the pairs that one did not part, which are a follow that was allowed
before the block and inserted after it, a request that was accepted while a Block from
the inbox was deleting, and what was left when such a Block was interrupted.
`BlockEndsAccess` excepts them only where a private status is fetched: lists
and notifications look at blocks themselves.

`create_notification` and `send_web_push` check in one action and act in later ones
(insert the row; queue the push and send the stream event, which nobody else looks at;
send the push); their message may be delivered again. `fresh` of a handler says that no
row has changed since it looked. `timeline_fanout` checks the status (`StartFanOut`),
loads the followers (`LoadAudience`), checks them once more (`Recheck`), builds one
payload that must be allowed to the first of them (`BuildPayload`) and sends it to all
(`Stream`), then does the same for the public streams. Three observations the properties
are worded around: the second check looks at blocks, mutes and suspension and not at the
follow, so somebody who ceases to follow in between is still sent a private status, and
if he happens to be the first nobody is sent it (the comment in the handler,
`timelineFanout.ts:208`, says each recipient was rechecked); while the author blocks a
local account, that account may still fetch and interact with a private or direct status
that mentions it; and a notification of a silenced sender whom the recipient does not
follow is inserted and pushed, but not listed.

## Runs

Passing runs:

| run | instance | shows |
|---|---|---|
| `ledger_claims` | one inviter, two links, two claims, the cap lowered and raised | every use a link was issued with is in one place (`UseConservation`), what is out can always be given back (`RefundNeverBlocked`), nothing is minted past the cap (`OwnershipGrowsOnlyUnderCap`), and the ledger implements `CreditBank` (`ImplementsBank`) |
| `ledger_awards` | two requests race on one balance, three settings | `AuditReconciles`: no event is lost or counted twice; `AwardsOnlyNewTiers`: no tier is paid twice; `RequestsEnd`: both requests end |
| `reg_race` | one sign-up, two other requests that may decide at any time | `ClaimFollowsRegistration`, `SpentMeansActive`, `ActivationNotOverwritten`, and every ledger effect of a registration but the known loss is a step of `InvitationLedger` (`LedgerSpec`) |
| `email_limits` | two requests, three challenges, two attempts' worth of parallel requests on one | `MailsLimited`, `MailedLinkWorks`, `ActiveIsFinal`, `GuessesBoundedUntilRefused` |
| `dead_letters` | two consumers, two administrators, two messages | `NothingLost`, `ReplayedWereSent` |
| `relationships` | two accounts, two workers, one interruption | `FollowsByConsent`, `BlockedPairsDoNotFollow`, `CountersMatchRows` |
| `interactions` | two local accounts and a remote one, two workers, one interruption, six scenes; two replies, two texts, two uploads | `CountersMatchRows`, `OneLocalBoost`, `NoPhantomVotes`, `VotesAreCounted`; `RepliesCounted`, `MediaAccountedFor` (no upload is lost or on two statuses), `IndexMatchesText`, `HistoryIsTrue` |
| `tokens` | three tokens, one code, two backup codes, two workers, six scenes, one token without a hash | `CacheIsCurrent`, `SuspensionStopsRequests`, `OneTimeCredentials`, `RevocationSettles` |
| `permissions` | an author and a viewer, each local or remote, three changes, two handlers | `DecisionsAgree`, `BlockEndsAccess`, `PushedIsListed` (what is notified, pushed or streamed), `NotifiedOnce` |

The type invariants of `InvitationLedger`, `EmailVerification`, `Relationships`,
`Interactions` and `Tokens` are theorems and not part of a run.

Runs that show where the code and its documentation disagree:

| run | disagreement |
|---|---|
| `reg_lost_use` | a rejection that read the row before the sign-up assigned its claim deletes the claim with the row: the use is neither refunded nor spent |
| `email_attempts` | the repair after a refused message writes back the attempts it had read, and forgets guesses counted since |
| `rel_accept` | a Follow that was interrupted between its row and its answer ends at the duplicate row when it is delivered again: the follower is never sent the Accept |

Two smaller ones are in the models without a run: an activation whose guarded update
misses still inserts the follows between inviter and applicant (`MissActivation`;
the text of the sign-up page says they follow after activation), and a removed
follower whom another request removed in between is counted down a second time
(`RemoveSeenFollow`; the comment on `removeFollower` says the counters change only
with the relationship).

### Bounds

Two accounts, links, requests or consumers are enough for every race the hazards
name, because each is between two requests about one row. Caps and thresholds of 1
and 2 put every operation at, below and above its limit. `ScoreBound`,
`MaxAttempts`, `MaxChallenges`, `MaxTime`, `MaxMessages`, `MaxRows`, `MaxCount`,
`MaxCrashes`, `MaxDecisions`, `MaxChanges`, `MaxNoted` and `MaxCopies` bound what
would grow: they appear as guards and are named where they are declared.
`MaxAttempts` is 2 where two requests retry (5 in the code) and
`FederationRetries` 1 (5 in the deployment): each attempt is like the one before.
`MaxTime` passes one window, its end and the expiry of a challenge; a cooldown shorter
than the window lets a message come in the window, after it and too early. In `Interactions`
a third account lets one boost, favour or vote meet another while a second account
has done so before; its status is deleted in the scenes of favourites, boosts and
replies, not in that of votes, for which it is one guard. In `Authoring` two replies
compete for a hashtag, two uploads let a request claim one and fail at the other, and
two texts let a reply be edited twice at the same time: an edit brings a text the
reply has not had. In the scene with uploads every request brings some and texts name
nothing, and replies are deleted in a scene without edits: an edit of a deleted reply is
the guard of `UpdateText`, which no property is about. In `Tokens` three tokens let one
be revoked, one be issued during the revocation and one be kept; one of them has no
hash. The revocation of one session by its id has a scene of its own, beside the
resolver and sign-ins: it meets the other requests no differently than `POST
/oauth/revoke` does. Three changes of rows reach a boundary after a follow and its
request, and a pair of boundaries after a follow; the later statements of a follow, a
Block and a clean-up are not counted; two may fall before or between the steps of a
notification or a fan-out, which are not run side by side: they only read the rows and
do not meet. Follows of one pair that are at the same point are taken for one, since
they do the same next, and a Block from the inbox does not begin while an earlier one of
the same pair is deleting. Scenes restrict which kinds of requests a behaviour has, so
that every pair that shares state still runs together. Symmetry is used for identities
that no property names and never with a liveness property. Deadlock is checked for the
ledger; elsewhere the work is bounded, so those runs may stop and say so.

### Fairness

`RequestsEnd` assumes weak fairness of the steps of a request that was started
(`FairSpec` of `InvitationLedger`), because the runtime runs a handler to its end.
`RevocationSettles` assumes the same of `Tokens` and that KV deletes an entry when
its time has passed (`expirationTtl`). Nothing obliges anyone to send a request, so no
other action gets fairness. There is no schedule that expires claims: sweeps run
inside requests, so nothing promises that an expired claim comes back, and no
property says so.

## Proofs

Every invariant and action property that a passing run checks, and the refinement of
`CreditBank`, is also proved: for all sets of accounts, links, requests, workers,
replies or messages, and for all settings, amounts, limits and bounds. The theorems rest
only on the assumptions that the modules name on their constants. Four are worth knowing:
`Relationships`, `Interactions` and `Authoring` count rows and tasks, so their accounts
and workers are finite; of the two bounds of `Permissions`, `MaxNoted` is at most
`MaxChanges`; the constants of the consumer agree with the settings of the queues
(`ConfigAssumption`); and `MessagesLeaveATrace` is proved under `~CrashesOnLastAttempt`,
the setting of the run.

| theorem | statement | module |
|---|---|---|
| `TypeCorrect` | `Spec => []TypeOK` | `RegistrationProofs` |
| `BooksBalance` | `Spec => []AuditReconciles` | `RegistrationProofs` |
| `UsesConserved` | `Spec => []UseConservation` | `RegistrationProofs` |
| `RefundsNeverBlocked` | `Spec => []RefundNeverBlocked` | `RegistrationProofs` |
| `CapHolds` | `Spec => OwnershipGrowsOnlyUnderCap` | `RegistrationProofs` |
| `UsesMove` | `Spec => ClaimStepsMoveOneUse` | `RegistrationProofs` |
| `TiersPaidOnce` | `Spec => AwardsOnlyNewTiers` | `RegistrationProofs` |
| `LedgerIsBank` | `Spec => ImplementsBank` | `RegistrationProofs` |
| `AllDecisionsAgree` | `Spec => []DecisionsAgree` | `PermissionsProofs` |
| `BlocksHold` | `Spec => []BlockEndsAccess` | `PermissionsProofs` |
| `EmailTyped` | `Spec => []TypeOK` | `EmailVerificationProofs` |
| `LinksWork` | `Spec => []MailedLinkWorks` | `EmailVerificationProofs` |
| `ActivationIsFinal` | `Spec => ActiveIsFinal` | `EmailVerificationProofs` |
| `TokensTyped` | `Spec => []TypeOK` | `TokensProofs` |
| `CacheFollowsRows` | `Spec => []CacheIsCurrent` | `TokensProofs` |
| `SuspensionHolds` | `Spec => []SuspensionStopsRequests` | `TokensProofs` |
| `RelationshipsTyped` | `Spec => []TypeOK` | `RelationshipsProofs` |
| `BlocksSever` | `Spec => []BlockedPairsDoNotFollow` | `RelationshipsProofs` |
| `ConsentIsAsked` | `Spec => FollowsByConsent` | `RelationshipsProofs` |
| `CountersAreTrue` | `Spec => []CountersMatchRows` | `RelationshipsProofs` |
| `RegistrationTyped` | `RegSpec => []RegTypeOK` (with the types of the ledger) | `RegistrationProofs` |
| `UsesFollowRegistrations` | `RegSpec => []ClaimFollowsRegistration` | `RegistrationProofs` |
| `InviterPaysForMembers` | `RegSpec => []SpentMeansActive` | `RegistrationProofs` |
| `NoStaleDeletion` | `RegSpec => ActivationNotOverwritten` | `RegistrationProofs` |
| `LedgerIsRespected` | `RegSpec => LedgerSpec` | `RegistrationProofs` |
| `PermissionsTyped` | `Spec => []TypeOK` | `PermissionsProofs` |
| `NotifiedAtMostOnce` | `Spec => []NotifiedOnce` | `PermissionsProofs` |
| `PushedWhatIsListed` | `Spec => []PushedIsListed` | `PermissionsProofs` |
| `CredentialsAreOneTime` | `Spec => []OneTimeCredentials` | `TokensProofs` |
| `MessagesLimited` | `Spec => []MailsLimited` | `EmailVerificationProofs` |
| `GuessesLimited` | `Spec => []GuessesBoundedUntilRefused` | `EmailVerificationProofs` |
| `InteractionsTyped` | `Spec => []TypeOK` | `InteractionsProofs` |
| `CountersAreRows` | `Spec => []CountersMatchRows` | `InteractionsProofs` |
| `BoostsOnce` | `Spec => []OneLocalBoost` | `InteractionsProofs` |
| `VotesAreCast` | `Spec => []NoPhantomVotes` | `InteractionsProofs` |
| `VotesAddUp` | `Spec => []VotesAreCounted` | `InteractionsProofs` |
| `AuthoringTyped` | `AuthoringSpec => []AuthoringTypeOK` | `AuthoringProofs` |
| `InteractionsUndisturbed` | the four properties of `Interactions`, of `AuthoringSpec` | `AuthoringProofs` |
| `HistoryOfEdits` | `AuthoringSpec => []HistoryIsTrue` | `AuthoringProofs` |
| `UploadsAccountedFor` | `AuthoringSpec => []MediaAccountedFor` | `AuthoringProofs` |
| `RepliesAreRows` | `AuthoringSpec => []RepliesCounted` | `AuthoringProofs` |
| `TextIsIndexed` | `AuthoringSpec => []IndexMatchesText` | `AuthoringProofs` |
| `DeadLettersTyped` | `Spec => []TypeOK` | `DeadLettersProofs` |
| `ReplaysAreSent` | `Spec => []ReplayedWereSent` | `DeadLettersProofs` |
| `MessagesLeaveATrace` | `~CrashesOnLastAttempt` implies `Spec => []NothingLost` | `DeadLettersProofs` |

`RegistrationProofs` has two parts, the ledger alone and the registrations that use it;
the theorems of the first part are about `InvitationLedger`'s own `Spec` and use nothing
of `Registration`.

The arguments, ledger first:

- Types. Beyond types `TypeOK` says that no balance, link counter or level is
  negative and no daily counter exceeds its limit. It is not inductive alone: a
  step that settles a claim goes through the link of the claim to an account, so
  it needs that a claim that is out has a link and that this link has an owner.
  That is `KeysResolve`, the foreign keys of the schema; the inductive invariant
  is `TypeOK /\ KeysResolve`.
- Books. Every action that changes a balance, score or level adds the same amount
  to the sum of its rows; for `CommitContribution` this rests on `SeenIsCurrent`,
  the compare-and-set.
- Uses. `UseConservation` needs `UnusedOnlyWhenRevoked`: only a link with an owner
  is revoked, and nothing counts as unused before that. Without it a second
  revocation could overwrite what the first returned, and an identity that is not
  issued yet could carry a remainder. The steps change the set `AwayFrom(i)` by at
  most one claim, and the lemmas `AwayTaken`, `AwayReturns` and `AwayStaysAway`
  count it. `RefundNeverBlocked` follows: a claim that is out is in `AwayFrom` of
  its link, so the link holds fewer uses than it was issued with.
- Ownership. What an account owns is a sum of its balance and two cardinalities.
  `ReservedRises`, `ReservedFalls`, `ReservedIssued` and `ReservedRevoked` count
  the units on links, `PendingTaken`, `PendingEnds` and `PendingSame` the claims;
  the steps of a claim then cancel out, and for the steps that only change
  balances (`BalanceMoves`) the guard of each operation is what keeps the sum
  under the cap: `AwardType`, `ShareType` and `GrantType` say it of the three
  formulas. `AwardReached` says that an award pays only tiers the score reached.
- Bank. `MapsToSame`, `MapsToExchange`, `MapsToSpend`, `MapsToRegulate` and
  `MapsToReset` say, account by account, when a step of the ledger is a step of the
  bank; the lemmas after them bring each action under one. Steps that only change
  balances are regulated because `GrowsUnderCap`, proved for the cap, says so. A link
  is issued exactly: `UnusedOnlyWhenRevoked` is what excludes a revoked identity.
- Registration. `RegInv` is the types, cut into the rows (`RowsOK`), the jobs that have
  read a row (`JobsOK`) and the life of a claim (`StagesOK`), and `Bound`: a use is out
  with exactly the pending registrations that were invited, and a spent one has an
  active row that was invited. The hard step is the sign-up that sets back a row which
  was activated before it was initialized: such a row was not invited yet, because
  `invited` is set only by the step that assigns the claim, while the sign-up is still
  in its early phases. `ActivationNotOverwritten` and `LedgerSpec` go action by action.
- Permissions. The inductive invariant `FactsInv` adds three parts to the types.
  `SettledApart`: the follows and requests that are left across a block whose deletions
  are over are in `overtaken`. `ComingApart`: so are the follows on their way there.
  `TearingApart`: so is, while a Block from the inbox is deleting, what came back behind
  its deletions. The first is what is wanted; an insertion rests on the second, and the last
  deletion, or an interruption, on the third (`InsertFollowKeeps`, `TearDownKeeps`,
  `CutBlockKeeps`, `BatchKeeps` for the batches). `DecisionsAgree` needs only the types,
  for instance that nobody blocks himself and that only remote accounts have a domain;
  `BlockEndsAccess` needs `SettledApart`, since for private statuses the decision looks
  only at the follow. The handlers have two more. `QueueInv` counts: the notification has
  been inserted once or one delivery is about to insert it, unless two had looked before
  either inserted, and every row has a delivery and every push a row (`OneHandler`,
  `CountHandlers`). `SeenInv` follows a handler: what it looked for holds as long as it
  is fresh (`FanOutKeepsSeen` for the six phases of a fan-out, `OutdateKeepsSeen` for the
  changes of rows); `DeliveredIsListed` and `StreamedIsListed` compare that with the SQL
  of the lists.
- E-mail. A link that was mailed works because three repairs and a lapse only unlink
  challenges that nobody needs. The invariant says so challenge by challenge: each
  request issues its own (`Apart`), nobody has seen it before it is stored (`Fresh`)
  or mailed it before it is sent (`Unmailed`), a challenge is replaced by one request
  only (`Covered`), and the link of a mail is there or its challenge is `Gone`, that
  is, neither in the row nor remembered by a request that could set it back
  (`LinksKept`). `ActiveIsFinal` needs `Known`: a request that stores or undoes has
  seen a row that was not active, and compares.
- Limits of e-mail. `LimitInv` is about the claims of deliveries as much as about the
  messages: the limits row counts at least those of its window that are queued or still
  may be (`Counts`), what a request would put back on a refusal counts every claim before
  its own (`Returns`), and no two claims are of one moment, which is why the guard of the
  repair recognizes its own. `GuessInv` adds to the comparisons made those still under
  way: together they are within the attempts the row has counted (`Accounted`), as long
  as no refused message set an older count back, and no attempt is spent on a challenge
  before it is stored (`Unspent`).
- Tokens. `Current` says of an entry that its row is revoked and has no hash, or that its
  row is active or the token is on a list of entries to delete, and that its role is the row's, or it is on such a list, or
  the request that changed the role has yet to list. The first part is what makes the
  second hold, since only active tokens are listed. `Passed` carries the moment the
  account was found usable from the query or recheck to the answer. For credentials,
  `OneRedeemer` says that a code has one redeemer at most, a token or a request about to
  insert it, and that this one deleted the row; `OffTheList` says that a request which
  writes the list of backup codes had its code on it, and that a code once accepted is
  off the list until an older list is written.
- Relationships. `Severed` says of two accounts of a block that whatever may still
  become a follow (a task past its check, a request) met the block and is named in
  `overtaken`, and that a follow is named or has a Block that will delete it
  (`YetToDelete`). `WorkerKeeps` and `TaskKeeps` reduce a statement of a task to what
  it does to rows; only the two steps that place a block and the one that lifts one
  argue about `overtaken`. `FollowsByConsent` needs `Sane`: an Accept in flight has
  seen a request, and an incoming Follow is for a local account.
- Counters of relationships. `Even` is a balance per account and side: the counter and
  the rises still to be made are the rows and the falls still to be made. A statement
  turns one term of it into another, and `Balances`, `Pays` and `Turns` say so once for
  all of them. It holds until a removal finds its row gone and counts anyway, which
  `drifted` remembers.
- Counters of interactions. `FavCount`, `BoostCount` and `PostCount` are such balances of
  favourites, boosts and posts; `SingleBoost` is `OneLocalBoost` without counting: the
  statement that inserts a local boost asks that there is none. `PollCount` is the
  balance of the poll while no write-back overwrote another. `NoPhantomVotes` holds even then: every task that remembers a tally
  remembers one no larger than the rows, its own vote included once it is inserted
  (`Covered`), so that writing it back shows no vote that nobody cast.
- Authoring. Steps of a reply keep the four properties of `Interactions` because of its
  variables they write only the number of interruptions (`InvWhileWriting`). The history: what an edit has read is what was said then
  (`Saw`), and what was said is shown, still to be written, or among the exceptions
  (`Recorded`). Uploads: what a request has claimed is on its status, and nothing else is
  there before the row is (`Claims`); an upload is on a status of its owner, or on one that
  a request of his is still writing or was interrupted at (`Held`). Replies: the balance
  again, for the parent and for each writer. The index: of a reply that is clear of overlapping and unfinished edits one request at most is at work, and the table
  holds what its stage says, from the terms it cleared to those it has added
  (`Prepared`, `Progress`, `Engages`, `Indexed`).
- Dead letters. `Inv` says that consumers hold messages apart, and that a message is
  returned with attempts left unless the queue has another behind it (`Holding`); with
  this nothing but an acknowledgement, or a death in the last delivery, makes a message
  disappear. Two countings do the rest. `Parking`: the messages of a body that are done
  with are no more than its rows, unless it was processed or given up. `Replaying`: the
  rows that say replayed, or are about to, are no more than the copies sent; a round sends
  one for each row, because the order of sending is a bijection. If all messages of a body
  were gone and all its rows replayed, the first message and its copies would be at most
  the rows, and these at most the copies: `NothingLost` follows.

Only model-checked: `RequestsEnd` and `RevocationSettles`, since the prover does not
handle fairness, and the three runs that end in a counterexample, which is what they are
for.

## Not modelled

- All components listed as `not_modelled` in `PROJECT.json`, each with its reason:
  the web client, documents and cryptography, media, ranking, mail and administration
  without state of their own.
- Registration: sessions, tickets and cookies; user-name rules; the initial setup;
  closed registration mode; accounts from before registrations had states; the text of
  mails.
- Relationships: domain blocks of a user (they are in `Permissions`), moves and the
  follows they cause, mutes, pins, lists and notes, suspension and moving as facts of
  the permission checks, and the Accept that authorizing queues after its batch.
- Interactions and authoring: statuses that are not replies (they differ in no step
  that is modelled), conversations, the poll that is created after its status, custom
  emojis, preview cards, the upload list inside a snapshot, Update of a remote status or
  poll, pins, bookmarks, emoji reactions, quotes, and the removal of an account, which
  leaves the counters of others alone.
- Tokens: applications and their secrets, scopes, client credentials, passwords, the
  `mfa:` key, TOTP and WebAuthn.
- Permissions: boosts and quotes in a fan-out, the sockets behind a stream, roles and
  moderation rights, scopes, reports, lists, endorsements, media, the visibility of new statuses, quote approval by URI; memorial accounts
  (nothing sets the flag). The counters, and the statements of a follow and a block that
  move them, are in `Relationships`.

## Plan

In this order:

1. Refinement: an abstract queue that delivers at least once and never loses, which
   `DeadLetters` implements; an abstract credential that is free, spent or revoked, which
   `Tokens` implements.
2. Finality of an administrator's decision in `DeadLetters`, and what a delivery
   handler does with a deferred message.
3. Moves of accounts and the follows they cause, after `Relationships`.
4. Quotes and their approval, after `Authoring`, with the fan-out of boosts and
   quotes; Update of a remote status.
5. The sockets of a stream across hibernation.
