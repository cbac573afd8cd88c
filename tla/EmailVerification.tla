--------------------------- MODULE EmailVerification ---------------------------
(***************************************************************************)
(* The e-mail challenge of one pending registration:                       *)
(* startEmailVerification, verifyRegistrationCode, confirmRegistrationLink *)
(* and the lapse in getRegistrationStatus, services/registration.ts.       *)
(*                                                                         *)
(* A challenge is one number for the link token and the code that are      *)
(* issued together.  Every statement sent to D1, every KV call and the     *)
(* hand-over to the mail queue is a step; op[r] is what request r          *)
(* remembers between them.                                                 *)
(***************************************************************************)
EXTENDS Integers, FiniteSets

CONSTANTS
  Requests,         \* requests about this registration at the same time
  MaxAttempts,      \* MAX_EMAIL_VERIFICATION_ATTEMPTS
  MaxSends,         \* MAX_EMAIL_DELIVERIES_PER_WINDOW
  Cooldown, Window, Ttl,   \* the three durations, in ticks of the clock
  MaxChallenges,    \* bound: challenges issued
  MaxTime           \* bound: the clock

ASSUME LimitAssumption ==
  /\ MaxAttempts \in Nat \ {0} /\ MaxSends \in Nat \ {0}
  /\ Cooldown \in Nat \ {0} /\ Window \in Nat \ {0} /\ Ttl \in Nat \ {0}
  /\ MaxChallenges \in Nat /\ MaxTime \in Nat

VARIABLES
  now,
  row,              \* the columns of the users row
  limit,            \* the row of registration_email_delivery_limits
  links,            \* challenges with an email_confirm: key in KV
  issued,           \* challenges issued so far
  mails,            \* the messages queued
  guesses,          \* how often the code of a challenge was compared
  op                \* what a request remembers

vars == <<now, row, limit, links, issued, mails, guesses, op>>

Challenges == 1 .. MaxChallenges
Times == 0 .. MaxTime

Rows == [state : {"awaiting_confirmation", "email_verification", "active"},
         challenge : {0} \cup Challenges, expires : 0 .. MaxTime + Ttl,
         attempts : 0 .. MaxAttempts]

Blank(s) == [state |-> s, challenge |-> 0, expires |-> 0, attempts |-> 0]

\* count 0: the address has no row.
Limits == [start : Times, count : 0 .. MaxSends, last : Times]
NoLimit == [start |-> 0, count |-> 0, last |-> 0]

Phases == {"idle", "read", "claim", "store", "put", "send", "drop", "undo",
           "guess", "compare", "activate", "lapse", "unlink"}

Ops == [phase : Phases, at : Times, challenge : {0} \cup Challenges,
        seen : Rows, previous : Limits, undo : SUBSET {"row", "link", "limit"}]

Idle == [phase |-> "idle", at |-> 0, challenge |-> 0,
         seen |-> Blank("awaiting_confirmation"), previous |-> NoLimit, undo |-> {}]

Init ==
  /\ now = 0
  /\ row = Blank("awaiting_confirmation")
  /\ limit = NoLimit
  /\ links = {}
  /\ issued = 0
  /\ mails = {}
  /\ guesses = [c \in Challenges |-> 0]
  /\ op = [r \in Requests |-> Idle]

Set(r, o) == op' = [op EXCEPT ![r] = o]
Go(r, phase) == Set(r, [op[r] EXCEPT !.phase = phase])

-----------------------------------------------------------------------------
(* startEmailVerification *)

ReadRegistration(r) ==
  /\ op[r] = Idle /\ row.state # "active" /\ issued < MaxChallenges
  /\ issued' = issued + 1
  /\ Set(r, [Idle EXCEPT !.phase = "read", !.at = now, !.challenge = issued + 1,
                         !.seen = row])
  /\ UNCHANGED <<now, row, limit, links, mails, guesses>>

ReadLimit(r) ==
  /\ op[r].phase = "read"
  /\ Set(r, [op[r] EXCEPT !.phase = "claim", !.previous = limit])
  /\ UNCHANGED <<now, row, limit, links, issued, mails, guesses>>

\* The upsert of claimEmailVerificationDelivery, at time t.
FirstOfWindow(t) == limit.count = 0 \/ limit.start + Window <= t

Deliverable(t) ==
  FirstOfWindow(t) \/ (limit.count < MaxSends /\ limit.last + Cooldown <= t)

ClaimDelivery(r) ==
  LET t == op[r].at IN
  /\ op[r].phase = "claim"
  /\ IF Deliverable(t)
     THEN /\ limit' = IF FirstOfWindow(t)
                      THEN [start |-> t, count |-> 1, last |-> t]
                      ELSE [limit EXCEPT !.count = @ + 1, !.last = t]
          /\ Go(r, "store")
     ELSE Set(r, Idle) /\ UNCHANGED limit
  /\ UNCHANGED <<now, row, links, issued, mails, guesses>>

\* The columns that the UPDATE compares: attempts is not among them.
SameChallenge(a, b) ==
  a.state = b.state /\ a.challenge = b.challenge /\ a.expires = b.expires

StoreChallenge(r) ==
  LET o == op[r] IN
  /\ o.phase = "store"
  /\ IF SameChallenge(row, o.seen)
     THEN /\ row' = [state |-> "email_verification", challenge |-> o.challenge,
                     expires |-> o.at + Ttl,
                     attempts |-> IF row.state = "email_verification" /\ row.expires > o.at
                                  THEN row.attempts ELSE 0]
          /\ Go(r, "put")
     ELSE Set(r, Idle) /\ UNCHANGED row
  /\ UNCHANGED <<now, limit, links, issued, mails, guesses>>

PutLink(r) ==
  /\ op[r].phase = "put" /\ Go(r, "send")
  /\ links' = links \cup {op[r].challenge}
  /\ UNCHANGED <<now, row, limit, issued, mails, guesses>>

QueueMail(r) ==
  /\ op[r].phase = "send" /\ Go(r, "drop")
  /\ mails' = mails \cup {[challenge |-> op[r].challenge, at |-> op[r].at]}
  /\ UNCHANGED <<now, row, limit, links, issued, guesses>>

DropOldLink(r) ==
  /\ op[r].phase = "drop" /\ Set(r, Idle)
  /\ links' = links \ {op[r].seen.challenge}
  /\ UNCHANGED <<now, row, limit, issued, mails, guesses>>

\* The queue refuses: three repairs run side by side.
RefuseMail(r) ==
  /\ op[r].phase = "send"
  /\ Set(r, [op[r] EXCEPT !.phase = "undo", !.undo = {"row", "link", "limit"}])
  /\ UNCHANGED <<now, row, limit, links, issued, mails, guesses>>

Repair(r, what) ==
  /\ op[r].phase = "undo" /\ what \in op[r].undo
  /\ Set(r, IF op[r].undo = {what} THEN Idle ELSE [op[r] EXCEPT !.undo = @ \ {what}])

RestorableUnguarded(r) == row.state # "awaiting_confirmation"   \* a mistake

\* Only a row that still holds the challenge of this request is set back.
StillMine(r) == row.state = "email_verification" /\ row.challenge = op[r].challenge

RestoreRow(r) ==
  /\ Repair(r, "row")
  /\ row' = IF StillMine(r) THEN op[r].seen ELSE row
  /\ UNCHANGED <<now, limit, links, issued, mails, guesses>>

DropNewLink(r) ==
  /\ Repair(r, "link")
  /\ links' = links \ {op[r].challenge}
  /\ UNCHANGED <<now, row, limit, issued, mails, guesses>>

AnyLimit(r) == TRUE   \* a mistake: a later claim is overwritten

LimitStillMine(r) == limit.count > 0 /\ limit.last = op[r].at

RestoreLimit(r) ==
  /\ Repair(r, "limit")
  /\ limit' = IF LimitStillMine(r) THEN op[r].previous ELSE limit
  /\ UNCHANGED <<now, row, links, issued, mails, guesses>>

\* An await throws: nothing is repaired.
Abandon(r) ==
  /\ op[r].phase \in {"claim", "store", "put", "send", "drop", "undo", "unlink"}
  /\ Set(r, Idle)
  /\ UNCHANGED <<now, row, limit, links, issued, mails, guesses>>

-----------------------------------------------------------------------------
(* verifyRegistrationCode and confirmRegistrationLink *)

Unexpired == row.expires > now

ReadCode(r) ==
  /\ op[r] = Idle /\ row.state = "email_verification" /\ Unexpired
  /\ row.attempts < MaxAttempts
  /\ Set(r, [Idle EXCEPT !.phase = "guess", !.challenge = row.challenge, !.seen = row])
  /\ UNCHANGED <<now, row, limit, links, issued, mails, guesses>>

AttemptFreeUnchecked(r) ==   \* a mistake: the attempts of the read row are trusted
  op[r].seen.attempts < MaxAttempts /\ SameChallenge(row, op[r].seen) /\ Unexpired

AttemptFree(r) ==
  row.attempts < MaxAttempts /\ SameChallenge(row, op[r].seen) /\ Unexpired

\* One of the attempts is claimed before the code is compared.
ClaimAttempt(r) ==
  /\ op[r].phase = "guess"
  /\ IF AttemptFree(r)
     THEN row' = [row EXCEPT !.attempts = @ + 1] /\ Go(r, "compare")
     ELSE Set(r, Idle) /\ UNCHANGED row
  /\ UNCHANGED <<now, limit, links, issued, mails, guesses>>

CompareCode(r, right) ==
  /\ op[r].phase = "compare"
  /\ guesses' = [guesses EXCEPT ![op[r].challenge] = @ + 1]
  /\ IF right THEN Go(r, "activate") ELSE Set(r, Idle)
  /\ UNCHANGED <<now, row, limit, links, issued, mails>>

\* The link of a message is opened: its KV entry is there and the row agrees.
FollowLink(r, c) ==
  /\ op[r] = Idle /\ c \in links /\ \E m \in mails : m.challenge = c
  /\ row.state = "email_verification" /\ row.challenge = c /\ Unexpired
  /\ Set(r, [Idle EXCEPT !.phase = "activate", !.challenge = c])
  /\ UNCHANGED <<now, row, limit, links, issued, mails, guesses>>

\* activateRegistration expects the code hash or the token that was presented.
Activate(r) ==
  /\ op[r].phase = "activate"
  /\ IF StillMine(r)
     THEN row' = Blank("active") /\ Go(r, "unlink")
     ELSE row' = row /\ Set(r, Idle)
  /\ UNCHANGED <<now, limit, links, issued, mails, guesses>>

-----------------------------------------------------------------------------
(* getRegistrationStatus *)

ReadStatus(r) ==
  /\ op[r] = Idle /\ row.state = "email_verification" /\ ~Unexpired
  /\ Set(r, [Idle EXCEPT !.phase = "lapse", !.challenge = row.challenge])
  /\ UNCHANGED <<now, row, limit, links, issued, mails, guesses>>

LapseRow(r) ==
  /\ op[r].phase = "lapse" /\ Go(r, "unlink")
  /\ row' = IF row.state = "email_verification" /\ ~Unexpired
             THEN Blank("awaiting_confirmation") ELSE row
  /\ UNCHANGED <<now, limit, links, issued, mails, guesses>>

LinkOfRow(r) == row.challenge   \* a mistake: the row holds another challenge by now

LinkSeen(r) == op[r].challenge

\* The KV entry of a challenge that is over is deleted.
Unlink(r) ==
  /\ op[r].phase = "unlink" /\ Set(r, Idle)
  /\ links' = links \ {LinkSeen(r)}
  /\ UNCHANGED <<now, row, limit, issued, mails, guesses>>

\* Assumption: the clock does not move while a request is between reading the
\* limit and claiming its delivery.
Tick ==
  /\ now < MaxTime /\ \A r \in Requests : op[r].phase \notin {"read", "claim"}
  /\ now' = now + 1
  /\ UNCHANGED <<row, limit, links, issued, mails, guesses, op>>

-----------------------------------------------------------------------------
(* The specification *)

IssueStep(r) ==
  \/ ReadRegistration(r) \/ ReadLimit(r) \/ ClaimDelivery(r) \/ StoreChallenge(r)
  \/ PutLink(r) \/ QueueMail(r) \/ DropOldLink(r)
  \/ RefuseMail(r) \/ RestoreRow(r) \/ DropNewLink(r) \/ RestoreLimit(r) \/ Abandon(r)

VerifyStep(r) ==
  \/ ReadCode(r) \/ ClaimAttempt(r) \/ \E right \in BOOLEAN : CompareCode(r, right)
  \/ \E c \in Challenges : FollowLink(r, c)
  \/ Activate(r)

StatusStep(r) == ReadStatus(r) \/ LapseRow(r) \/ Unlink(r)

Next == Tick \/ \E r \in Requests : IssueStep(r) \/ VerifyStep(r) \/ StatusStep(r)

Spec == Init /\ [][Next]_vars

-----------------------------------------------------------------------------
(* Properties *)

\* Every variable has its type; no more than the configured attempts and
\* deliveries are ever counted.
TypeOK ==
  /\ now \in Times
  /\ row \in Rows
  /\ limit \in Limits
  /\ links \subseteq Challenges
  /\ issued \in 0 .. MaxChallenges
  /\ mails \subseteq [challenge : Challenges, at : Times]
  /\ guesses \in [Challenges -> Nat]
  /\ op \in [Requests -> Ops]

\* "Parallel guesses can ... consume at most the configured number of attempts
\* in total": no code is compared more often.
GuessesBounded == \A c \in Challenges : guesses[c] <= MaxAttempts

\* The same as long as no later message was refused: parallel guesses, lapses and
\* challenges that keep the count of their predecessor add no attempts.
GuessesBoundedUntilRefused ==
  \A c \in Challenges :
    (\A d \in c + 1 .. issued : \E m \in mails : m.challenge = d)
      => guesses[c] <= MaxAttempts

\* The link in a queued message works until it expires, as long as its challenge
\* is the one in the row: no repair, lapse or later challenge takes it away.
MailedLinkWorks ==
  \A m \in mails : row.challenge = m.challenge /\ Unexpired => m.challenge \in links

\* The messages of a window are a cooldown apart and no more than its limit, and no
\* two messages were claimed at one moment, however many deliveries fail and are
\* given back.  The first message of a window may follow the last of the window
\* before at once: the code looks at the cooldown only within a window.
MailsLimited ==
  /\ \A m, n \in mails : m # n =>
       /\ m.at # n.at
       /\ m.at >= limit.start /\ n.at > m.at => m.at + Cooldown <= n.at
  /\ limit.count > 0 =>
       Cardinality({m \in mails : m.at >= limit.start}) <= limit.count
  /\ limit.count = 0 => mails = {}

\* Nothing that was in flight takes an activation back.
ActiveIsFinal == [][row.state = "active" => row'.state = "active"]_vars
================================================================================
