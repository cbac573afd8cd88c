------------------------ MODULE EmailVerificationProofs ------------------------
(***************************************************************************)
(* Proofs about EmailVerification, for any number of requests, limits and  *)
(* durations: the types, that an activation is final, that the link in a   *)
(* queued message works, and that the deliveries and the guesses stay      *)
(* within their limits.                                                    *)
(***************************************************************************)
EXTENDS EmailVerification, FiniteSetTheorems, TLAPS

\* What a request is about, told from what it remembers.
Issuing(o) == o.phase \in {"read", "claim", "store", "put", "send", "drop", "undo"}
Before(o)  == o.phase \in {"read", "claim", "store"}
Unsent(o)  == o.phase \in {"read", "claim", "store", "put", "send", "undo"}
Ending(o)  == o.phase \in {"lapse", "unlink"}

\* It has replaced the challenge it saw, and may still set it back or drop its link.
Stored(o)  == o.phase \in {"put", "send", "drop"} \/ (o.phase = "undo" /\ "row" \in o.undo)

\* Challenges are numbered as they are issued, and an active registration gets none.
Known ==
  /\ row.challenge <= issued
  /\ row.state = "active" => row.expires = 0
  /\ \A m \in mails : m.challenge <= issued
  /\ \A r \in Requests :
       /\ op[r].challenge <= issued /\ op[r].seen.challenge <= issued
       /\ Issuing(op[r]) => op[r].challenge >= 1 /\ op[r].seen.state # "active"

\* Two requests issue different challenges.
Apart ==
  \A r, q \in Requests :
    r # q /\ Issuing(op[r]) /\ Issuing(op[q]) => op[r].challenge # op[q].challenge

\* Nobody has seen a challenge that is not stored yet.
Fresh ==
  \A r \in Requests : Before(op[r]) =>
    /\ row.challenge # op[r].challenge
    /\ \A q \in Requests :
         /\ op[q].seen.challenge # op[r].challenge
         /\ q # r => op[q].challenge # op[r].challenge

Unmailed ==
  \A r \in Requests : Unsent(op[r]) => \A m \in mails : m.challenge # op[r].challenge

\* A challenge is replaced by one request only, and is in the row no more.
Covered ==
  \A r \in Requests : Stored(op[r]) /\ op[r].seen.challenge # 0 =>
    /\ row.challenge # op[r].seen.challenge
    /\ \A q \in Requests :
         q # r /\ Stored(op[q]) => op[q].seen.challenge # op[r].seen.challenge

\* The row will not hold challenge c unexpired, even if a request sets it back.
Gone(c) ==
  \/ c = 0
  \/ row.state = "active"
  \/ /\ row.challenge = c => row.expires <= now
     /\ \A q \in Requests :
          Stored(op[q]) /\ op[q].seen.challenge = c => op[q].seen.expires <= now

Safe(c) == c \in links \/ Gone(c)

\* What MailedLinkWorks rests on: the link of a message that was queued, or is
\* about to be, is there or not needed, and only such links are unlinked.
LinksKept ==
  /\ \A m \in mails : Safe(m.challenge)
  /\ \A r \in Requests : /\ op[r].phase = "send" => Safe(op[r].challenge)
                         /\ Ending(op[r]) => Gone(op[r].challenge)

Inv == TypeOK /\ Known /\ Apart /\ Fresh /\ Unmailed /\ Covered /\ LinksKept

-----------------------------------------------------------------------------
(* Records. *)

LEMMA BlankFacts ==
  /\ \A s \in {"awaiting_confirmation", "email_verification", "active"} :
       /\ Blank(s) \in Rows /\ Blank(s).state = s
       /\ Blank(s).challenge = 0 /\ Blank(s).expires = 0
  /\ NoLimit \in Limits
  /\ Idle \in Ops /\ Idle.phase = "idle" /\ Idle.challenge = 0 /\ Idle.seen.challenge = 0
<1>1. 0 \in 0 .. MaxTime + Ttl /\ 0 \in 0 .. MaxAttempts /\ 0 \in 0 .. MaxSends
      /\ 0 \in 0 .. MaxTime
  BY LimitAssumption
<1>2. \A s \in {"awaiting_confirmation", "email_verification", "active"} :
        /\ Blank(s) \in Rows /\ Blank(s).state = s
        /\ Blank(s).challenge = 0 /\ Blank(s).expires = 0
  BY <1>1 DEF Blank, Rows
<1>3. NoLimit \in Limits
  BY <1>1 DEF NoLimit, Limits, Times
<1>4. Idle.phase = "idle" /\ Idle.challenge = 0 /\ Idle.seen.challenge = 0
  BY <1>2 DEF Idle
<1>5. Idle \in Ops
  BY <1>1, <1>2, <1>3 DEF Idle, Ops, Phases, Times
<1> QED
  BY <1>2, <1>3, <1>4, <1>5

\* One request moves, the others remember what they did.
LEMMA SetOp ==
  ASSUME TypeOK, NEW r \in Requests, NEW o \in Ops, Set(r, o)
  PROVE  /\ op' \in [Requests -> Ops]
         /\ op'[r] = o
         /\ \A q \in Requests : q # r => op'[q] = op[q]
BY DEF TypeOK, Set

LEMMA PhaseOfOp ==
  ASSUME TypeOK, NEW r \in Requests, NEW phase \in Phases
  PROVE  LET o == [op[r] EXCEPT !.phase = phase] IN
         /\ o \in Ops /\ o.phase = phase
         /\ o.challenge = op[r].challenge /\ o.seen = op[r].seen /\ o.undo = op[r].undo
         /\ o.at = op[r].at
<1>1. op[r] \in Ops
  BY DEF TypeOK
<1> QED
  BY <1>1 DEF Ops

\* The fields that the proofs compare are numbers.
LEMMA Numbers ==
  ASSUME TypeOK
  PROVE  /\ now \in Nat /\ issued \in Nat /\ row.challenge \in Nat /\ row.expires \in Nat
         /\ \A m \in mails : m.challenge \in Nat /\ m.challenge >= 1
         /\ \A q \in Requests : /\ op[q].challenge \in Nat /\ op[q].seen.challenge \in Nat
                                 /\ op[q].seen.expires \in Nat /\ op[q].seen \in Rows
                                 /\ op[q] \in Ops
<1>1. now \in Nat /\ issued \in Nat
  BY LimitAssumption DEF TypeOK, Times
<1>2. \A x \in Rows : x.challenge \in Nat /\ x.expires \in Nat
  BY LimitAssumption DEF Rows, Challenges
<1>3. \A o \in Ops : o.challenge \in Nat /\ o.seen \in Rows
  BY LimitAssumption DEF Ops, Challenges
<1>4. \A m \in mails : m.challenge \in Nat /\ m.challenge >= 1
  BY LimitAssumption DEF TypeOK, Challenges
<1>5. row \in Rows /\ \A q \in Requests : op[q] \in Ops
  BY DEF TypeOK
<1> QED
  BY <1>1, <1>2, <1>3, <1>4, <1>5

LEMMA InitInv == Init => Inv
<1> SUFFICES ASSUME Init
             PROVE  Inv
  OBVIOUS
<1>1. /\ row \in Rows /\ row.state = "awaiting_confirmation"
      /\ row.challenge = 0 /\ row.expires = 0
  BY BlankFacts DEF Init
<1>2. \A r \in Requests : op[r] = Idle
  BY DEF Init
<1>3. TypeOK
  <2>1. now \in Times /\ issued \in 0 .. MaxChallenges
    BY LimitAssumption DEF Init, Times
  <2>2. limit \in Limits /\ op \in [Requests -> Ops]
    BY BlankFacts DEF Init
  <2>3. guesses \in [Challenges -> Nat] /\ links = {} /\ mails = {}
    BY DEF Init
  <2> QED
    BY <1>1, <2>1, <2>2, <2>3 DEF TypeOK
<1>4. \A r \in Requests : /\ ~Issuing(op[r]) /\ ~Before(op[r]) /\ ~Stored(op[r])
                          /\ ~Unsent(op[r]) /\ ~Ending(op[r]) /\ op[r].phase # "send"
  BY <1>2, BlankFacts DEF Issuing, Before, Stored, Unsent, Ending
<1>5. Known
  <2>1. \A r \in Requests : op[r].challenge = 0 /\ op[r].seen.challenge = 0
    BY <1>2, BlankFacts
  <2> QED
    BY <1>1, <1>4, <2>1 DEF Init, Known
<1>6. Apart /\ Fresh /\ Unmailed /\ Covered /\ LinksKept
  BY <1>4 DEF Init, Apart, Fresh, Unmailed, Covered, LinksKept
<1> QED
  BY <1>3, <1>5, <1>6 DEF Inv

-----------------------------------------------------------------------------
(* Steps that leave the row alone. *)

\* Request r goes on, or begins with what the row holds, and stores nothing.
LEMMA KeepsRow ==
  ASSUME Inv, NEW r \in Requests, NEW o \in Ops, Set(r, o),
         UNCHANGED <<now, row, issued>>,
         \A m \in mails' : m.challenge <= issued,
         Issuing(o) => Issuing(op[r]) /\ o.challenge = op[r].challenge /\ o.seen = op[r].seen,
         Before(o) => Before(op[r]),
         Stored(o) => Stored(op[r]),
         o.challenge \in {0, row.challenge, op[r].challenge},
         o.seen.challenge \in {0, row.challenge, op[r].seen.challenge}
  PROVE  /\ op' \in [Requests -> Ops] /\ op'[r] = o
         /\ \A q \in Requests : q # r => op'[q] = op[q]
         /\ Known' /\ Apart' /\ Fresh' /\ Covered'
         /\ \A c \in Nat : Gone(c) => Gone(c)'
<1>1. /\ op' \in [Requests -> Ops] /\ op'[r] = o
      /\ \A q \in Requests : q # r => op'[q] = op[q]
  BY SetOp DEF Inv
<1>2. Before(o) => Issuing(o)
  BY DEF Before, Issuing
<1>3. Stored(o) => Issuing(o)
  BY DEF Stored, Issuing
<1>4. \A q \in Requests : Before(op[q]) => Issuing(op[q])
  BY DEF Before, Issuing
<1>5. Known'
  BY <1>1, Numbers DEF Inv, Known
<1>6. Apart'
  BY <1>1 DEF Inv, Apart
<1>7. Fresh'
  <2> SUFFICES ASSUME NEW p \in Requests, Before(op[p])',
                      NEW q \in Requests
               PROVE  /\ row'.challenge # op'[p].challenge
                      /\ op'[q].seen.challenge # op'[p].challenge
                      /\ q # p => op'[q].challenge # op'[p].challenge
    BY DEF Fresh
  <2>1. Before(op[p]) /\ op'[p].challenge = op[p].challenge /\ op[p].challenge >= 1
    BY <1>1, <1>2, <1>4 DEF Inv, Known, Before
  <2>2. op[q].seen.challenge # op[p].challenge /\ row.challenge # op[p].challenge
        /\ op[r].seen.challenge # op[p].challenge
    BY <2>1 DEF Inv, Fresh
  <2>3. q # p => op[q].challenge # op[p].challenge
    BY <2>1 DEF Inv, Fresh
  <2>4. CASE q = r
    BY <1>1, <2>1, <2>2, <2>3, <2>4, Numbers DEF Inv
  <2>5. CASE q # r
    BY <1>1, <2>1, <2>2, <2>3, <2>5
  <2> QED
    BY <2>4, <2>5
<1>8. Covered'
  BY <1>1, <1>3 DEF Inv, Covered, Stored
<1>9. \A c \in Nat : Gone(c) => Gone(c)'
  BY <1>1, <1>3 DEF Gone, Stored
<1> QED
  BY <1>1, <1>5, <1>6, <1>7, <1>8, <1>9

\* A request goes on, and neither links nor messages change.
LEMMA QuietKeeps ==
  ASSUME Inv, NEW r \in Requests, NEW o \in Ops, Set(r, o),
         UNCHANGED <<now, row, issued, links, mails>>,
         limit' \in Limits, guesses' \in [Challenges -> Nat],
         Issuing(o) => Issuing(op[r]) /\ o.challenge = op[r].challenge /\ o.seen = op[r].seen,
         Before(o) => Before(op[r]),
         Stored(o) => Stored(op[r]),
         Unsent(o) => Unsent(op[r]),
         o.phase = "send" => op[r].phase = "send",
         Ending(o) => Gone(o.challenge),
         o.challenge \in {0, row.challenge, op[r].challenge},
         o.seen.challenge \in {0, row.challenge, op[r].seen.challenge}
  PROVE  Inv'
<1>1. \A m \in mails' : m.challenge <= issued
  BY DEF Inv, Known
<1>2. /\ op' \in [Requests -> Ops] /\ op'[r] = o
      /\ \A q \in Requests : q # r => op'[q] = op[q]
      /\ Known' /\ Apart' /\ Fresh' /\ Covered'
      /\ \A c \in Nat : Gone(c) => Gone(c)'
  BY <1>1, KeepsRow
<1>3. TypeOK'
  BY <1>2 DEF Inv, TypeOK
<1>4. Unmailed'
  <2>1. Unsent(o) => Issuing(o)
    BY DEF Unsent, Issuing
  <2> QED
    BY <1>2, <2>1 DEF Inv, Unmailed
<1>5. LinksKept'
  <2>1. \A c \in Nat : Safe(c) => Safe(c)'
    BY <1>2 DEF Safe
  <2>2. o.challenge \in Nat /\ (o.phase = "send" => Issuing(o))
    BY <1>2, Numbers DEF Inv, Issuing, Ops, Challenges
  <2> QED
    BY <1>2, <2>1, <2>2, Numbers DEF Inv, LinksKept
<1> QED
  BY <1>2, <1>3, <1>4, <1>5 DEF Inv

\* What the phases of a request are.
LEMMA PhaseFacts ==
  ASSUME NEW o
  PROVE  /\ o.phase \in {"idle", "guess", "compare", "activate"} =>
              ~Issuing(o) /\ ~Before(o) /\ ~Stored(o) /\ ~Unsent(o) /\ ~Ending(o)
         /\ o.phase \in {"lapse", "unlink"} =>
              ~Issuing(o) /\ ~Before(o) /\ ~Stored(o) /\ ~Unsent(o) /\ Ending(o)
         /\ o.phase \in {"read", "claim", "store"} =>
              Issuing(o) /\ Before(o) /\ ~Stored(o) /\ Unsent(o) /\ ~Ending(o)
         /\ o.phase \in {"put", "send"} =>
              Issuing(o) /\ ~Before(o) /\ Stored(o) /\ Unsent(o) /\ ~Ending(o)
         /\ o.phase = "drop" =>
              Issuing(o) /\ ~Before(o) /\ Stored(o) /\ ~Unsent(o) /\ ~Ending(o)
         /\ o.phase = "undo" =>
              /\ Issuing(o) /\ ~Before(o) /\ Unsent(o) /\ ~Ending(o)
              /\ Stored(o) <=> "row" \in o.undo
BY DEF Issuing, Before, Stored, Unsent, Ending

LEMMA StopKeeps ==
  ASSUME Inv, NEW r \in Requests, Set(r, Idle),
         UNCHANGED <<now, row, issued, links, mails>>,
         limit' \in Limits, guesses' \in [Challenges -> Nat]
  PROVE  Inv'
BY QuietKeeps, BlankFacts, PhaseFacts

LEMMA ReadLimitKeeps ==
  ASSUME Inv, NEW r \in Requests, ReadLimit(r)
  PROVE  Inv'
<1> DEFINE o == [op[r] EXCEPT !.phase = "claim", !.previous = limit]
<1>1. op[r].phase = "read" /\ Set(r, o) /\ UNCHANGED <<now, row, limit, links, issued, mails, guesses>>
  BY DEF ReadLimit
<1>2. op[r] \in Ops /\ limit \in Limits /\ guesses \in [Challenges -> Nat]
  BY DEF Inv, TypeOK
<1>3. /\ o \in Ops /\ o.phase = "claim" /\ o.challenge = op[r].challenge /\ o.seen = op[r].seen
  BY <1>2 DEF Ops, Phases
<1> HIDE DEF o
<1> QED
  BY <1>1, <1>2, <1>3, QuietKeeps, PhaseFacts

LEMMA ClaimDeliveryKeeps ==
  ASSUME Inv, NEW r \in Requests, ClaimDelivery(r)
  PROVE  Inv'
<1> DEFINE t == op[r].at
           o == [op[r] EXCEPT !.phase = "store"]
<1>1. op[r].phase = "claim" /\ UNCHANGED <<now, row, links, issued, mails, guesses>>
  BY DEF ClaimDelivery
<1>2. t \in Times /\ limit \in Limits /\ guesses \in [Challenges -> Nat]
  BY DEF Inv, TypeOK, Ops
<1>3. CASE Deliverable(t)
  <2>1. Go(r, "store") /\ limit' = IF FirstOfWindow(t)
                                    THEN [start |-> t, count |-> 1, last |-> t]
                                    ELSE [limit EXCEPT !.count = @ + 1, !.last = t]
    BY <1>3 DEF ClaimDelivery
  <2>2. limit' \in Limits
    <3>1. CASE FirstOfWindow(t)
      <4>1. 1 \in 0 .. MaxSends
        BY LimitAssumption
      <4> QED
        BY <1>2, <2>1, <3>1, <4>1 DEF Limits
    <3>2. CASE ~FirstOfWindow(t)
      <4>1. limit.count \in 0 .. MaxSends /\ limit.count < MaxSends
        BY <1>2, <1>3, <3>2 DEF Deliverable, Limits
      <4>2. limit.count + 1 \in 0 .. MaxSends
        BY <4>1, LimitAssumption
      <4> QED
        BY <1>2, <2>1, <3>2, <4>2 DEF Limits
    <3> QED
      BY <3>1, <3>2
  <2>3. Set(r, o) /\ "store" \in Phases
    BY <2>1 DEF Go, Phases
  <2>4. o \in Ops /\ o.phase = "store" /\ o.challenge = op[r].challenge /\ o.seen = op[r].seen
    BY <2>3, PhaseOfOp DEF Inv
  <2> HIDE DEF o
  <2> QED
    BY <1>1, <1>2, <2>2, <2>3, <2>4, QuietKeeps, PhaseFacts
<1>4. CASE ~Deliverable(t)
  <2>1. Set(r, Idle) /\ UNCHANGED limit
    BY <1>4 DEF ClaimDelivery
  <2> QED
    BY <1>1, <1>2, <2>1, StopKeeps
<1> QED
  BY <1>3, <1>4

LEMMA RefuseMailKeeps ==
  ASSUME Inv, NEW r \in Requests, RefuseMail(r)
  PROVE  Inv'
<1> DEFINE o == [op[r] EXCEPT !.phase = "undo", !.undo = {"row", "link", "limit"}]
<1>1. op[r].phase = "send" /\ Set(r, o) /\ UNCHANGED <<now, row, limit, links, issued, mails, guesses>>
  BY DEF RefuseMail
<1>2. op[r] \in Ops /\ limit \in Limits /\ guesses \in [Challenges -> Nat]
  BY DEF Inv, TypeOK
<1>3. o \in Ops /\ o.phase = "undo" /\ o.challenge = op[r].challenge /\ o.seen = op[r].seen
  BY <1>2 DEF Ops, Phases
<1> HIDE DEF o
<1> QED
  BY <1>1, <1>2, <1>3, QuietKeeps, PhaseFacts

\* A request that repairs has one repair less to do.
LEMMA RepairOp ==
  ASSUME Inv, NEW r \in Requests, NEW what, Repair(r, what)
  PROVE  /\ op[r].phase = "undo" /\ what \in op[r].undo
         /\ \E o \in Ops :
              /\ Set(r, o)
              /\ \/ o = Idle
                 \/ /\ o.phase = "undo" /\ o.challenge = op[r].challenge
                    /\ o.seen = op[r].seen /\ o.undo = op[r].undo \ {what}
<1>1. op[r].phase = "undo" /\ what \in op[r].undo
  BY DEF Repair
<1>2. CASE op[r].undo = {what}
  <2>1. Set(r, Idle)
    BY <1>2 DEF Repair
  <2> QED
    BY <1>1, <2>1, BlankFacts
<1>3. CASE op[r].undo # {what}
  <2> DEFINE o == [op[r] EXCEPT !.undo = @ \ {what}]
  <2>1. Set(r, o)
    BY <1>3 DEF Repair
  <2>2. op[r] \in Ops
    BY DEF Inv, TypeOK
  <2>3. /\ o \in Ops /\ o.phase = "undo" /\ o.challenge = op[r].challenge
        /\ o.seen = op[r].seen /\ o.undo = op[r].undo \ {what}
    BY <1>1, <2>2 DEF Ops
  <2> HIDE DEF o
  <2> QED
    BY <1>1, <2>1, <2>3
<1> QED
  BY <1>2, <1>3

LEMMA RestoreLimitKeeps ==
  ASSUME Inv, NEW r \in Requests, RestoreLimit(r)
  PROVE  Inv'
<1>1. Repair(r, "limit") /\ UNCHANGED <<now, row, links, issued, mails, guesses>>
  BY DEF RestoreLimit
<1>2. limit' \in Limits /\ guesses' \in [Challenges -> Nat]
  BY DEF RestoreLimit, Inv, TypeOK, Ops
<1>3. op[r].phase = "undo"
  BY <1>1, RepairOp
<1>4. PICK o \in Ops :
        /\ Set(r, o)
        /\ \/ o = Idle
           \/ /\ o.phase = "undo" /\ o.challenge = op[r].challenge
              /\ o.seen = op[r].seen /\ o.undo = op[r].undo \ {"limit"}
  BY <1>1, RepairOp
<1>5. CASE o = Idle
  BY <1>1, <1>2, <1>4, <1>5, StopKeeps
<1>6. CASE /\ o.phase = "undo" /\ o.challenge = op[r].challenge
           /\ o.seen = op[r].seen /\ o.undo = op[r].undo \ {"limit"}
  BY <1>1, <1>2, <1>3, <1>4, <1>6, QuietKeeps, PhaseFacts
<1> QED
  BY <1>4, <1>5, <1>6

LEMMA AbandonKeeps ==
  ASSUME Inv, NEW r \in Requests, Abandon(r)
  PROVE  Inv'
BY StopKeeps DEF Abandon, Inv, TypeOK

LEMMA ReadCodeKeeps ==
  ASSUME Inv, NEW r \in Requests, ReadCode(r)
  PROVE  Inv'
<1> DEFINE o == [Idle EXCEPT !.phase = "guess", !.challenge = row.challenge, !.seen = row]
<1>1. Set(r, o) /\ UNCHANGED <<now, row, limit, links, issued, mails, guesses>>
  BY DEF ReadCode
<1>2. row \in Rows /\ limit \in Limits /\ guesses \in [Challenges -> Nat]
  BY DEF Inv, TypeOK
<1>3. o \in Ops /\ o.phase = "guess" /\ o.challenge = row.challenge /\ o.seen = row
  <2>1. Idle \in Ops /\ row.challenge \in {0} \cup Challenges
    BY <1>2, BlankFacts DEF Rows
  <2> QED
    BY <1>2, <2>1 DEF Ops, Phases
<1> HIDE DEF o
<1> QED
  BY <1>1, <1>2, <1>3, QuietKeeps, PhaseFacts

LEMMA CompareCodeKeeps ==
  ASSUME Inv, NEW r \in Requests, NEW right \in BOOLEAN, CompareCode(r, right)
  PROVE  Inv'
<1> DEFINE o == [op[r] EXCEPT !.phase = "activate"]
<1>1. /\ op[r].phase = "compare" /\ UNCHANGED <<now, row, limit, links, issued, mails>>
      /\ guesses' = [guesses EXCEPT ![op[r].challenge] = guesses[op[r].challenge] + 1]
      /\ Set(r, o) \/ Set(r, Idle)
  BY DEF CompareCode, Go
<1>2. limit' \in Limits
  BY <1>1 DEF Inv, TypeOK
<1>3. guesses' \in [Challenges -> Nat]
  <2>1. guesses \in [Challenges -> Nat]
    BY DEF Inv, TypeOK
  <2>2. \A c \in Challenges : guesses[c] \in Nat /\ guesses[c] + 1 \in Nat
    BY <2>1
  <2> QED
    BY <1>1, <2>1, <2>2
<1>4. o \in Ops /\ o.phase = "activate" /\ o.challenge = op[r].challenge /\ o.seen = op[r].seen
  <2>1. "activate" \in Phases
    BY DEF Phases
  <2> QED
    BY <2>1, PhaseOfOp DEF Inv
<1> HIDE DEF o
<1>5. CASE Set(r, o)
  BY <1>1, <1>2, <1>3, <1>4, <1>5, QuietKeeps, PhaseFacts
<1>6. CASE Set(r, Idle)
  BY <1>1, <1>2, <1>3, <1>6, StopKeeps
<1> QED
  BY <1>1, <1>5, <1>6

LEMMA FollowLinkKeeps ==
  ASSUME Inv, NEW r \in Requests, NEW c \in Challenges, FollowLink(r, c)
  PROVE  Inv'
<1> DEFINE o == [Idle EXCEPT !.phase = "activate", !.challenge = c]
<1>1. /\ Set(r, o) /\ row.challenge = c
      /\ UNCHANGED <<now, row, limit, links, issued, mails, guesses>>
  BY DEF FollowLink
<1>2. limit \in Limits /\ guesses \in [Challenges -> Nat]
  BY DEF Inv, TypeOK
<1>3. o \in Ops /\ o.phase = "activate" /\ o.challenge = c /\ o.seen.challenge = 0
  BY BlankFacts DEF Ops, Phases
<1> HIDE DEF o
<1> QED
  BY <1>1, <1>2, <1>3, QuietKeeps, PhaseFacts

\* The challenge that has expired is in no request that could set it back.
LEMMA ReadStatusKeeps ==
  ASSUME Inv, NEW r \in Requests, ReadStatus(r)
  PROVE  Inv'
<1> DEFINE o == [Idle EXCEPT !.phase = "lapse", !.challenge = row.challenge]
<1>1. /\ Set(r, o) /\ ~Unexpired
      /\ UNCHANGED <<now, row, limit, links, issued, mails, guesses>>
  BY DEF ReadStatus
<1>2. limit \in Limits /\ guesses \in [Challenges -> Nat] /\ row.challenge \in {0} \cup Challenges
  BY DEF Inv, TypeOK, Rows
<1>3. o \in Ops /\ o.phase = "lapse" /\ o.challenge = row.challenge /\ o.seen.challenge = 0
  BY <1>2, BlankFacts DEF Ops, Phases
<1>4. Gone(row.challenge)
  <2>1. row.expires <= now
    BY <1>1, Numbers DEF Unexpired, Inv
  <2>2. \A q \in Requests : ~(Stored(op[q]) /\ op[q].seen.challenge = row.challenge)
                           \/ row.challenge = 0
    BY DEF Inv, Covered
  <2> QED
    BY <2>1, <2>2 DEF Gone
<1> HIDE DEF o
<1> QED
  BY <1>1, <1>2, <1>3, <1>4, QuietKeeps, PhaseFacts

-----------------------------------------------------------------------------
(* Steps that change links and messages. *)

LEMMA PutLinkKeeps ==
  ASSUME Inv, NEW r \in Requests, PutLink(r)
  PROVE  Inv'
<1> DEFINE o == [op[r] EXCEPT !.phase = "send"]
<1>1. /\ op[r].phase = "put" /\ Set(r, o) /\ links' = links \cup {op[r].challenge}
      /\ UNCHANGED <<now, row, limit, issued, mails, guesses>>
  BY DEF PutLink, Go
<1>2. o \in Ops /\ o.phase = "send" /\ o.challenge = op[r].challenge /\ o.seen = op[r].seen
  <2>1. "send" \in Phases
    BY DEF Phases
  <2> QED
    BY <2>1, PhaseOfOp DEF Inv
<1> HIDE DEF o
<1>3. \A m \in mails' : m.challenge <= issued
  BY <1>1 DEF Inv, Known
<1>4. /\ op' \in [Requests -> Ops] /\ op'[r] = o
      /\ \A q \in Requests : q # r => op'[q] = op[q]
      /\ Known' /\ Apart' /\ Fresh' /\ Covered'
      /\ \A c \in Nat : Gone(c) => Gone(c)'
  BY <1>1, <1>2, <1>3, KeepsRow, PhaseFacts
<1>5. op[r].challenge \in Challenges
  <2>1. op[r].challenge \in {0} \cup Challenges /\ op[r].challenge >= 1
    BY <1>1, PhaseFacts DEF Inv, TypeOK, Ops, Known
  <2> QED
    BY <2>1
<1>6. TypeOK'
  BY <1>1, <1>4, <1>5 DEF Inv, TypeOK
<1>7. Unmailed'
  BY <1>1, <1>2, <1>4, PhaseFacts DEF Inv, Unmailed
<1>8. LinksKept'
  <2>1. \A c \in Nat : Safe(c) => Safe(c)'
    BY <1>1, <1>4 DEF Safe
  <2>2. Safe(op[r].challenge)'
    <3>1. op'[r].challenge \in links'
      BY <1>1, <1>2, <1>4
    <3> QED
      BY <3>1 DEF Safe
  <2>3. ~Ending(o)
    BY <1>2, PhaseFacts
  <2> QED
    BY <1>1, <1>2, <1>4, <2>1, <2>2, <2>3, Numbers DEF Inv, LinksKept
<1> QED
  BY <1>4, <1>6, <1>7, <1>8 DEF Inv

LEMMA QueueMailKeeps ==
  ASSUME Inv, NEW r \in Requests, QueueMail(r)
  PROVE  Inv'
<1> DEFINE o == [op[r] EXCEPT !.phase = "drop"]
           n == [challenge |-> op[r].challenge, at |-> op[r].at]
<1>1. /\ op[r].phase = "send" /\ Set(r, o) /\ mails' = mails \cup {n}
      /\ UNCHANGED <<now, row, limit, links, issued, guesses>>
  BY DEF QueueMail, Go
<1>2. o \in Ops /\ o.phase = "drop" /\ o.challenge = op[r].challenge /\ o.seen = op[r].seen
  <2>1. "drop" \in Phases
    BY DEF Phases
  <2> QED
    BY <2>1, PhaseOfOp DEF Inv
<1>3. n \in [challenge : Challenges, at : Times] /\ n.challenge = op[r].challenge
  <2>1. /\ op[r].challenge \in {0} \cup Challenges /\ op[r].challenge >= 1
        /\ op[r].at \in Times
    BY <1>1, PhaseFacts DEF Inv, TypeOK, Ops, Known
  <2> QED
    BY <2>1
<1> HIDE DEF o, n
<1>4. \A m \in mails' : m.challenge <= issued
  BY <1>1, <1>3 DEF Inv, Known
<1>5. /\ op' \in [Requests -> Ops] /\ op'[r] = o
      /\ \A q \in Requests : q # r => op'[q] = op[q]
      /\ Known' /\ Apart' /\ Fresh' /\ Covered'
      /\ \A c \in Nat : Gone(c) => Gone(c)'
  BY <1>1, <1>2, <1>4, KeepsRow, PhaseFacts
<1>6. TypeOK'
  BY <1>1, <1>3, <1>5 DEF Inv, TypeOK
<1>7. Unmailed'
  <2>1. \A q \in Requests : Unsent(op[q]) => Issuing(op[q])
    BY DEF Unsent, Issuing
  <2>2. Issuing(op[r]) /\ ~Unsent(o)
    BY <1>1, <1>2, PhaseFacts
  <2>3. \A q \in Requests : q # r /\ Unsent(op[q]) => op[q].challenge # n.challenge
    BY <1>3, <2>1, <2>2 DEF Inv, Apart
  <2> QED
    BY <1>1, <1>5, <2>2, <2>3 DEF Inv, Unmailed
<1>8. LinksKept'
  <2>1. \A c \in Nat : Safe(c) => Safe(c)'
    BY <1>1, <1>5 DEF Safe
  <2>2. Safe(n.challenge) /\ n.challenge \in Nat
    BY <1>1, <1>3, Numbers DEF Inv, LinksKept
  <2>3. ~Ending(o) /\ o.phase # "send"
    BY <1>2, PhaseFacts
  <2>4. \A m \in mails' : m.challenge \in Nat /\ Safe(m.challenge)
    BY <1>1, <2>2, Numbers DEF Inv, LinksKept
  <2>5. \A m \in mails' : Safe(m.challenge)'
    BY <2>1, <2>4
  <2> QED
    BY <1>5, <2>1, <2>3, <2>5, Numbers DEF Inv, LinksKept
<1> QED
  BY <1>5, <1>6, <1>7, <1>8 DEF Inv

\* A link is deleted at the end of a request: all that is left to show is that
\* no message needs it.
LEMMA DeleteLinkKeeps ==
  ASSUME Inv, NEW r \in Requests, NEW o \in Ops, Set(r, o), NEW d \in Nat,
         links' = links \ {d},
         UNCHANGED <<now, row, limit, issued, mails, guesses>>,
         \/ o = Idle
         \/ /\ o.phase = "undo" /\ op[r].phase = "undo"
            /\ o.challenge = op[r].challenge /\ o.seen = op[r].seen
            /\ o.undo \subseteq op[r].undo,
         \/ Gone(d)'
         \/ /\ \A m \in mails : m.challenge # d
            /\ \A q \in Requests : q # r /\ op[q].phase = "send" => op[q].challenge # d
  PROVE  Inv'
<1>1. \A m \in mails' : m.challenge <= issued
  BY DEF Inv, Known
<1>2. /\ op' \in [Requests -> Ops] /\ op'[r] = o
      /\ \A q \in Requests : q # r => op'[q] = op[q]
      /\ Known' /\ Apart' /\ Fresh' /\ Covered'
      /\ \A c \in Nat : Gone(c) => Gone(c)'
  BY <1>1, KeepsRow, PhaseFacts, BlankFacts
<1>3. TypeOK'
  BY <1>2 DEF Inv, TypeOK
<1>4. ~Ending(o) /\ o.phase # "send" /\ (Unsent(o) => Unsent(op[r]) /\ o.challenge = op[r].challenge)
  BY PhaseFacts, BlankFacts
<1>5. Unmailed'
  BY <1>2, <1>4 DEF Inv, Unmailed
<1>6. \A c \in Nat : Safe(c) /\ (c # d \/ Gone(d)') => Safe(c)'
  BY <1>2 DEF Safe
<1>7. LinksKept'
  BY <1>2, <1>4, <1>6, Numbers DEF Inv, LinksKept
<1> QED
  BY <1>2, <1>3, <1>5, <1>7 DEF Inv

\* The challenge that was replaced is not set back any more.
LEMMA DropOldLinkKeeps ==
  ASSUME Inv, NEW r \in Requests, DropOldLink(r)
  PROVE  Inv'
<1>1. PICK d : d = op[r].seen.challenge
  OBVIOUS
<1>2. /\ op[r].phase = "drop" /\ Set(r, Idle) /\ links' = links \ {d}
      /\ UNCHANGED <<now, row, limit, issued, mails, guesses>>
  BY <1>1 DEF DropOldLink
<1>3. d \in Nat /\ Stored(op[r])
  BY <1>1, <1>2, Numbers, PhaseFacts DEF Inv
<1>4. /\ op'[r] = Idle /\ ~Stored(Idle)
      /\ \A q \in Requests : q # r => op'[q] = op[q]
  BY <1>2, SetOp, BlankFacts, PhaseFacts DEF Inv
<1>5. Gone(d)'
  <2>1. CASE d = 0
    BY <2>1 DEF Gone
  <2>2. CASE d # 0
    <3>1. row'.challenge # d
      BY <1>1, <1>2, <1>3, <2>2 DEF Inv, Covered
    <3>2. \A q \in Requests : Stored(op'[q]) => op'[q].seen.challenge # d
      BY <1>1, <1>3, <1>4, <2>2 DEF Inv, Covered
    <3> QED
      BY <3>1, <3>2 DEF Gone, Stored
  <2> QED
    BY <2>1, <2>2
<1>6. Idle \in Ops
  BY BlankFacts
<1> QED
  BY <1>2, <1>3, <1>5, <1>6, DeleteLinkKeeps

LEMMA DropNewLinkKeeps ==
  ASSUME Inv, NEW r \in Requests, DropNewLink(r)
  PROVE  Inv'
<1>1. PICK d : d = op[r].challenge
  OBVIOUS
<1>2. /\ Repair(r, "link") /\ links' = links \ {d}
      /\ UNCHANGED <<now, row, limit, issued, mails, guesses>>
  BY <1>1 DEF DropNewLink
<1>3. op[r].phase = "undo"
  BY <1>2, RepairOp
<1>4. PICK o \in Ops :
        /\ Set(r, o)
        /\ \/ o = Idle
           \/ /\ o.phase = "undo" /\ o.challenge = op[r].challenge
              /\ o.seen = op[r].seen /\ o.undo = op[r].undo \ {"link"}
  BY <1>2, RepairOp
<1>5. \A m \in mails : m.challenge # d
  BY <1>1, <1>3, PhaseFacts DEF Inv, Unmailed
<1>6. \A q \in Requests : q # r /\ op[q].phase = "send" => op[q].challenge # d
  BY <1>1, <1>3, PhaseFacts DEF Inv, Apart
<1>7. d \in Nat
  BY <1>1, Numbers DEF Inv
<1> QED
  BY <1>2, <1>3, <1>4, <1>5, <1>6, <1>7, DeleteLinkKeeps

LEMMA UnlinkKeeps ==
  ASSUME Inv, NEW r \in Requests, Unlink(r)
  PROVE  Inv'
<1>1. PICK d : d = op[r].challenge
  OBVIOUS
<1>2. /\ op[r].phase = "unlink" /\ Set(r, Idle) /\ links' = links \ {d}
      /\ UNCHANGED <<now, row, limit, issued, mails, guesses>>
  BY <1>1 DEF Unlink, LinkSeen
<1>3. d \in Nat /\ Gone(d)
  BY <1>1, <1>2, Numbers, PhaseFacts DEF Inv, LinksKept
<1>4. \A m \in mails' : m.challenge <= issued
  BY <1>2 DEF Inv, Known
<1>5. Gone(d)'
  BY <1>2, <1>3, <1>4, KeepsRow, BlankFacts, PhaseFacts
<1>6. Idle \in Ops
  BY BlankFacts
<1> QED
  BY <1>2, <1>3, <1>5, <1>6, DeleteLinkKeeps

-----------------------------------------------------------------------------
(* Steps that change the row. *)

\* The row gets another state, challenge or count, and links and messages stay.
\* What is left to show is what the proofs below are about: which challenge the
\* row holds then, and that no challenge comes back.
LEMMA RowKeeps ==
  ASSUME Inv, NEW r \in Requests, NEW o \in Ops, Set(r, o), row' \in Rows,
         UNCHANGED <<now, limit, links, issued, mails, guesses>>,
         ~Before(o),
         Issuing(o) => Issuing(op[r]),
         Unsent(o) => Unsent(op[r]),
         o.phase = "send" => op[r].phase = "send",
         o = Idle \/ (o.challenge = op[r].challenge /\ o.seen = op[r].seen),
         row'.challenge <= issued, row'.state = "active" => row'.expires = 0,
         \A q \in Requests : q # r /\ Before(op[q]) => row'.challenge # op[q].challenge,
         Covered',
         \A c \in Nat :
           /\ Gone(c)
           /\ (\E m \in mails : m.challenge = c)
                \/ (\E q \in Requests \ {r} : op[q].phase = "send" /\ op[q].challenge = c)
                \/ (\E q \in Requests : Ending(op[q]) /\ op[q].challenge = c)
                \/ (op[r].phase = "send" /\ op[r].challenge = c)
           => Gone(c)',
         Ending(o) => Ending(op[r]) \/ Gone(o.challenge)'
  PROVE  Inv'
<1>1. /\ op' \in [Requests -> Ops] /\ op'[r] = o
      /\ \A q \in Requests : q # r => op'[q] = op[q]
  BY SetOp DEF Inv
<1>2. TypeOK'
  BY <1>1 DEF Inv, TypeOK
<1>3. Known'
  <2>1. /\ o.challenge <= issued /\ o.seen.challenge <= issued
        /\ Issuing(o) => o.challenge >= 1 /\ o.seen.state # "active"
    BY BlankFacts, PhaseFacts, Numbers DEF Inv, Known
  <2> QED
    BY <1>1, <2>1 DEF Inv, Known
<1>4. Apart'
  BY <1>1, BlankFacts, PhaseFacts DEF Inv, Apart
<1>5. Fresh'
  <2> SUFFICES ASSUME NEW p \in Requests, Before(op[p])', NEW q \in Requests
               PROVE  /\ row'.challenge # op'[p].challenge
                      /\ op'[q].seen.challenge # op'[p].challenge
                      /\ q # p => op'[q].challenge # op'[p].challenge
    BY DEF Fresh
  <2>1. p # r /\ op'[p] = op[p] /\ Before(op[p])
    BY <1>1 DEF Before
  <2>2. Issuing(op[p]) /\ op[p].challenge >= 1
    BY <2>1 DEF Before, Issuing, Inv, Known
  <2>3. op[q].seen.challenge # op[p].challenge /\ (q # p => op[q].challenge # op[p].challenge)
    BY <2>1 DEF Inv, Fresh
  <2>4. CASE q = r
    BY <1>1, <2>1, <2>2, <2>3, <2>4, BlankFacts, Numbers DEF Inv
  <2>5. CASE q # r
    BY <1>1, <2>1, <2>3, <2>5
  <2> QED
    BY <2>4, <2>5
<1>6. Unmailed'
  BY <1>1, BlankFacts, PhaseFacts DEF Inv, Unmailed
<1>7. LinksKept'
  <2>1. \A m \in mails : Safe(m.challenge)'
    BY Numbers DEF Inv, LinksKept, Safe
  <2>2. \A q \in Requests : \A c \in Nat :
           op'[q].phase = "send" /\ op'[q].challenge = c => Safe(c)'
    <3> SUFFICES ASSUME NEW q \in Requests, NEW c \in Nat,
                        op'[q].phase = "send", op'[q].challenge = c
                 PROVE  Safe(c)'
      OBVIOUS
    <3>1. op[q].phase = "send" /\ c = op[q].challenge
      BY <1>1, BlankFacts
    <3>2. Safe(c)
      BY <3>1 DEF Inv, LinksKept
    <3> QED
      BY <3>1, <3>2 DEF Safe
  <2>3. \A q \in Requests : \A c \in Nat :
           Ending(op'[q]) /\ op'[q].challenge = c => Gone(c)'
    <3> SUFFICES ASSUME NEW q \in Requests, NEW c \in Nat,
                        Ending(op'[q]), op'[q].challenge = c
                 PROVE  Gone(c)'
      OBVIOUS
    <3>1. CASE Ending(op[q]) /\ op[q].challenge = c
      <4>1. Gone(c)
        BY <3>1 DEF Inv, LinksKept
      <4> QED
        BY <3>1, <4>1
    <3>2. CASE q # r
      BY <1>1, <3>1, <3>2
    <3>3. CASE q = r
      <4>1. ~Ending(Idle)
        BY BlankFacts, PhaseFacts
      <4>2. o.challenge = op[r].challenge /\ Ending(o) /\ o.challenge = c
        BY <1>1, <3>3, <4>1
      <4>3. CASE Ending(op[r])
        BY <3>1, <3>3, <4>2, <4>3
      <4>4. CASE Gone(o.challenge)'
        BY <4>2, <4>4
      <4> QED
        BY <4>2, <4>3, <4>4
    <3> QED
      BY <3>2, <3>3
  <2>4. \A q \in Requests : op'[q].challenge \in Nat
    BY <1>1 DEF Ops, Challenges
  <2> QED
    BY <2>1, <2>2, <2>3, <2>4 DEF LinksKept, Ending
<1> QED
  BY <1>2, <1>3, <1>4, <1>5, <1>6, <1>7 DEF Inv

\* The row is what the request has seen, so nobody else has replaced that
\* challenge, and nobody knows the new one.
LEMMA StoreChallengeKeeps ==
  ASSUME Inv, NEW r \in Requests, StoreChallenge(r)
  PROVE  Inv'
<1>1. op[r].phase = "store" /\ UNCHANGED <<now, limit, links, issued, mails, guesses>>
  BY DEF StoreChallenge
<1>2. CASE ~SameChallenge(row, op[r].seen)
  BY <1>1, <1>2, StopKeeps DEF StoreChallenge, Inv, TypeOK
<1>3. CASE SameChallenge(row, op[r].seen)
  <2> DEFINE o == [op[r] EXCEPT !.phase = "put"]
             n == [state |-> "email_verification", challenge |-> op[r].challenge,
                   expires |-> op[r].at + Ttl,
                   attempts |-> IF row.state = "email_verification" /\ row.expires > op[r].at
                                THEN row.attempts ELSE 0]
  <2>1. Set(r, o) /\ row' = n
    BY <1>3 DEF StoreChallenge, Go
  <2>2. o \in Ops /\ o.phase = "put" /\ o.challenge = op[r].challenge /\ o.seen = op[r].seen
    <3>1. "put" \in Phases
      BY DEF Phases
    <3> QED
      BY <3>1, PhaseOfOp DEF Inv
  <2>3. /\ n \in Rows /\ n.challenge = op[r].challenge /\ n.state = "email_verification"
    <3>1. op[r].at \in Times /\ op[r].challenge \in {0} \cup Challenges
          /\ row.attempts \in 0 .. MaxAttempts
      BY DEF Inv, TypeOK, Ops, Rows
    <3>2. op[r].at + Ttl \in 0 .. MaxTime + Ttl
      BY <3>1, LimitAssumption DEF Times
    <3>3. 0 \in 0 .. MaxAttempts
      BY LimitAssumption
    <3> QED
      BY <3>1, <3>2, <3>3 DEF Rows
  <2> HIDE DEF o, n
  <2>4. /\ row.challenge = op[r].seen.challenge /\ row.expires = op[r].seen.expires
        /\ row.state # "active"
    BY <1>1, <1>3, PhaseFacts DEF SameChallenge, Inv, Known
  <2>5. /\ Issuing(op[r]) /\ Before(op[r]) /\ Unsent(op[r]) /\ ~Ending(op[r])
        /\ ~Before(o) /\ ~Ending(o) /\ o.phase # "send" /\ Stored(o)
    BY <1>1, <2>2, PhaseFacts
  <2>6. \A q \in Requests : /\ op[q].seen.challenge # op[r].challenge
                            /\ q # r => op[q].challenge # op[r].challenge
    BY <2>5 DEF Inv, Fresh
  <2>7. /\ op'[r] = o
        /\ \A q \in Requests : q # r => op'[q] = op[q]
    BY <2>1, <2>2, SetOp DEF Inv
  <2>8. Covered'
    <3>1. \A q \in Requests : q # r /\ Stored(op[q]) /\ op[q].seen.challenge # 0
                              => op[q].seen.challenge # op[r].seen.challenge
      BY <2>4 DEF Inv, Covered
    <3>2. \A q \in Requests : Stored(op'[q]) => q = r \/ Stored(op[q])
      BY <2>7
    <3>3. \A q \in Requests : row'.challenge # op'[q].seen.challenge
      BY <2>1, <2>2, <2>3, <2>6, <2>7
    <3>4. \A p, q \in Requests : /\ p # q /\ Stored(op'[p]) /\ Stored(op'[q])
                                 /\ op'[p].seen.challenge # 0
                                 => op'[q].seen.challenge # op'[p].seen.challenge
      BY <2>2, <2>7, <3>1, <3>2 DEF Inv, Covered
    <3> QED
      BY <3>3, <3>4 DEF Covered, Stored
  <2>9. ASSUME NEW c \in Nat, Gone(c), c # op[r].challenge
        PROVE  Gone(c)'
    <3>1. CASE c = 0
      BY <3>1 DEF Gone
    <3>2. CASE c # 0
      <4>1. /\ row.challenge = c => row.expires <= now
            /\ \A q \in Requests :
                 Stored(op[q]) /\ op[q].seen.challenge = c => op[q].seen.expires <= now
        BY <2>4, <2>9, <3>2 DEF Gone
      <4>2. \A q \in Requests :
              Stored(op'[q]) /\ op'[q].seen.challenge = c => op'[q].seen.expires <= now
        BY <2>2, <2>4, <2>7, <4>1
      <4>3. row'.challenge # c
        BY <2>1, <2>3, <2>9
      <4> QED
        BY <1>1, <4>2, <4>3 DEF Gone, Stored
    <3> QED
      BY <3>1, <3>2
  <2>10. \A m \in mails : m.challenge # op[r].challenge
    BY <2>5 DEF Inv, Unmailed
  <2>11. row' \in Rows /\ row'.challenge <= issued /\ row'.state # "active"
    BY <2>1, <2>3 DEF Inv, Known
  <2>12. \A q \in Requests : q # r /\ Before(op[q]) => row'.challenge # op[q].challenge
    BY <2>1, <2>3, <2>6
  <2>13. Issuing(op[r]) /\ Unsent(op[r]) /\ op[r].phase # "send"
    BY <1>1, <2>5
  <2> QED
    BY <1>1, <2>1, <2>2, <2>5, <2>6, <2>8, <2>9, <2>10, <2>11, <2>12, <2>13, RowKeeps
<1> QED
  BY <1>2, <1>3

LEMMA RestoreRowKeeps ==
  ASSUME Inv, NEW r \in Requests, RestoreRow(r)
  PROVE  Inv'
<1>1. /\ Repair(r, "row") /\ UNCHANGED <<now, limit, links, issued, mails, guesses>>
      /\ row' = IF StillMine(r) THEN op[r].seen ELSE row
  BY DEF RestoreRow
<1>2. op[r].phase = "undo" /\ Stored(op[r])
  BY <1>1, RepairOp DEF Stored
<1>3. PICK o \in Ops :
        /\ Set(r, o)
        /\ \/ o = Idle
           \/ /\ o.phase = "undo" /\ o.challenge = op[r].challenge
              /\ o.seen = op[r].seen /\ o.undo = op[r].undo \ {"row"}
  BY <1>1, RepairOp
<1>4. ~Stored(o) /\ ~Before(o) /\ ~Ending(o) /\ o.phase # "send"
  BY <1>3, BlankFacts, PhaseFacts
<1>5. /\ op'[r] = o
      /\ \A q \in Requests : q # r => op'[q] = op[q]
  BY <1>3, SetOp DEF Inv
<1>6. Issuing(op[r]) /\ Unsent(op[r]) /\ op[r].seen.state # "active"
  BY <1>2, PhaseFacts DEF Inv, Known
<1>7. CASE ~StillMine(r)
  <2>1. row' = row
    BY <1>1, <1>7
  <2>2. limit' \in Limits /\ guesses' \in [Challenges -> Nat]
    BY <1>1 DEF Inv, TypeOK
  <2>3. CASE o = Idle
    BY <1>1, <1>3, <2>1, <2>2, <2>3, StopKeeps
  <2>4. CASE o # Idle
    BY <1>1, <1>2, <1>3, <1>4, <1>6, <2>1, <2>2, <2>4, QuietKeeps
  <2> QED
    BY <2>3, <2>4
<1>8. CASE StillMine(r)
  <2>1. row' = op[r].seen /\ row.state # "active"
    BY <1>1, <1>8 DEF StillMine
  <2>2. row' \in Rows /\ row'.challenge <= issued /\ row'.state # "active"
    BY <1>6, <2>1, Numbers DEF Inv, Known
  <2>3. \A q \in Requests : Before(op[q]) => row'.challenge # op[q].challenge
    BY <2>1 DEF Inv, Fresh
  <2>4. Covered'
    <3>1. \A q \in Requests : Stored(op'[q]) => q # r /\ Stored(op[q]) /\ op'[q] = op[q]
      BY <1>4, <1>5
    <3>2. \A q \in Requests : Stored(op'[q]) /\ op'[q].seen.challenge # 0
            => op'[q].seen.challenge # row'.challenge
      BY <1>2, <2>1, <3>1 DEF Inv, Covered
    <3>3. \A p, q \in Requests : /\ p # q /\ Stored(op'[p]) /\ Stored(op'[q])
                                 /\ op'[p].seen.challenge # 0
                                 => op'[q].seen.challenge # op'[p].seen.challenge
      BY <3>1 DEF Inv, Covered
    <3> QED
      BY <3>2, <3>3 DEF Covered, Stored
  <2>5. ASSUME NEW c \in Nat, Gone(c)
        PROVE  Gone(c)'
    <3>1. CASE c = 0
      BY <3>1 DEF Gone
    <3>2. CASE c # 0
      <4>1. \A q \in Requests :
              Stored(op[q]) /\ op[q].seen.challenge = c => op[q].seen.expires <= now
        BY <2>1, <2>5, <3>2 DEF Gone
      <4>2. row'.challenge = c => row'.expires <= now
        BY <1>2, <2>1, <4>1
      <4>3. \A q \in Requests :
              Stored(op'[q]) /\ op'[q].seen.challenge = c => op'[q].seen.expires <= now
        BY <1>4, <1>5, <4>1
      <4> QED
        BY <1>1, <4>2, <4>3 DEF Gone, Stored
    <3> QED
      BY <3>1, <3>2
  <2> QED
    BY <1>1, <1>3, <1>4, <1>6, <2>2, <2>3, <2>4, <2>5, RowKeeps
<1> QED
  BY <1>7, <1>8

\* A step of a request that issues nothing: the row keeps its challenge or loses it.
LEMMA VerifyKeeps ==
  ASSUME Inv, NEW r \in Requests, NEW o \in Ops, Set(r, o), row' \in Rows,
         UNCHANGED <<now, limit, links, issued, mails, guesses>>,
         op[r].phase \in {"guess", "activate", "lapse"},
         o.phase \in {"compare", "unlink"},
         o.challenge = op[r].challenge, o.seen = op[r].seen,
         \/ row'.state = row.state /\ row'.challenge = row.challenge /\ row'.expires = row.expires
         \/ /\ row'.challenge = 0 /\ row'.expires = 0
            /\ row.state = "active" => row'.state = "active",
         o.phase = "unlink" => op[r].phase = "lapse" \/ row'.state = "active"
  PROVE  Inv'
<1>1. /\ ~Issuing(op[r]) /\ ~Before(op[r]) /\ ~Stored(op[r])
      /\ ~Issuing(o) /\ ~Before(o) /\ ~Stored(o) /\ ~Unsent(o) /\ o.phase # "send"
  BY PhaseFacts
<1>2. /\ op'[r] = o
      /\ \A q \in Requests : q # r => op'[q] = op[q]
  BY SetOp DEF Inv
<1>3. \A q \in Requests : Stored(op'[q]) => q # r /\ Stored(op[q]) /\ op'[q] = op[q]
  BY <1>1, <1>2
<1>4. row'.challenge \in {0, row.challenge} /\ row'.challenge <= issued
  BY Numbers DEF Inv, Known
<1>5. row'.state = "active" => row'.expires = 0
  BY DEF Inv, Known
<1>6. \A q \in Requests : Before(op[q]) => row'.challenge # op[q].challenge
  <2>1. \A q \in Requests : Before(op[q]) => op[q].challenge >= 1
    BY DEF Before, Issuing, Inv, Known
  <2> QED
    BY <1>4, <2>1 DEF Inv, Fresh
<1>7. Covered'
  <2>1. \A q \in Requests : Stored(op'[q]) /\ op'[q].seen.challenge # 0
          => op'[q].seen.challenge # row'.challenge
    BY <1>3, <1>4 DEF Inv, Covered
  <2>2. \A p, q \in Requests : /\ p # q /\ Stored(op'[p]) /\ Stored(op'[q])
                               /\ op'[p].seen.challenge # 0
                               => op'[q].seen.challenge # op'[p].seen.challenge
    BY <1>3 DEF Inv, Covered
  <2> QED
    BY <2>1, <2>2 DEF Covered, Stored
<1>8. ASSUME NEW c \in Nat, Gone(c)
      PROVE  Gone(c)'
  <2>1. CASE c = 0
    BY <2>1 DEF Gone
  <2>2. CASE row.state = "active"
    BY <2>2 DEF Gone
  <2>3. CASE c # 0 /\ row.state # "active"
    <3>1. /\ row.challenge = c => row.expires <= now
          /\ \A q \in Requests :
               Stored(op[q]) /\ op[q].seen.challenge = c => op[q].seen.expires <= now
      BY <1>8, <2>3 DEF Gone
    <3>2. row'.challenge = c => row'.expires <= now
      BY <2>3, <3>1
    <3>3. \A q \in Requests :
            Stored(op'[q]) /\ op'[q].seen.challenge = c => op'[q].seen.expires <= now
      BY <1>3, <3>1
    <3> QED
      BY <3>2, <3>3 DEF Gone, Stored
  <2> QED
    BY <2>1, <2>2, <2>3
<1>9. Ending(o) => Ending(op[r]) \/ Gone(o.challenge)'
  BY DEF Ending, Gone
<1> QED
  BY <1>1, <1>4, <1>5, <1>6, <1>7, <1>8, <1>9, RowKeeps

LEMMA ClaimAttemptKeeps ==
  ASSUME Inv, NEW r \in Requests, ClaimAttempt(r)
  PROVE  Inv'
<1>1. op[r].phase = "guess" /\ UNCHANGED <<now, limit, links, issued, mails, guesses>>
  BY DEF ClaimAttempt
<1>2. CASE ~AttemptFree(r)
  BY <1>1, <1>2, StopKeeps DEF ClaimAttempt, Inv, TypeOK
<1>3. CASE AttemptFree(r)
  <2> DEFINE o == [op[r] EXCEPT !.phase = "compare"]
  <2>1. Set(r, o) /\ row' = [row EXCEPT !.attempts = row.attempts + 1]
    BY <1>3 DEF ClaimAttempt, Go
  <2>2. o \in Ops /\ o.phase = "compare" /\ o.challenge = op[r].challenge /\ o.seen = op[r].seen
    <3>1. "compare" \in Phases
      BY DEF Phases
    <3> QED
      BY <3>1, PhaseOfOp DEF Inv
  <2>3. /\ row' \in Rows /\ row'.state = row.state
        /\ row'.challenge = row.challenge /\ row'.expires = row.expires
    <3>1. row \in Rows
      BY DEF Inv, TypeOK
    <3>2. row.attempts \in 0 .. MaxAttempts /\ row.attempts < MaxAttempts
      BY <1>3, <3>1 DEF AttemptFree, Rows
    <3>3. row.attempts + 1 \in 0 .. MaxAttempts
      BY <3>2, LimitAssumption
    <3> QED
      BY <2>1, <3>1, <3>3 DEF Rows
  <2> HIDE DEF o
  <2> QED
    BY <1>1, <2>1, <2>2, <2>3, VerifyKeeps
<1> QED
  BY <1>2, <1>3

LEMMA ActivateKeeps ==
  ASSUME Inv, NEW r \in Requests, Activate(r)
  PROVE  Inv'
<1>1. op[r].phase = "activate" /\ UNCHANGED <<now, limit, links, issued, mails, guesses>>
  BY DEF Activate
<1>2. CASE ~StillMine(r)
  BY <1>1, <1>2, StopKeeps DEF Activate, Inv, TypeOK
<1>3. CASE StillMine(r)
  <2> DEFINE o == [op[r] EXCEPT !.phase = "unlink"]
  <2>1. Set(r, o) /\ row' = Blank("active")
    BY <1>3 DEF Activate, Go
  <2>2. o \in Ops /\ o.phase = "unlink" /\ o.challenge = op[r].challenge /\ o.seen = op[r].seen
    <3>1. "unlink" \in Phases
      BY DEF Phases
    <3> QED
      BY <3>1, PhaseOfOp DEF Inv
  <2>3. row' \in Rows /\ row'.state = "active" /\ row'.challenge = 0 /\ row'.expires = 0
    BY <2>1, BlankFacts
  <2> HIDE DEF o
  <2> QED
    BY <1>1, <2>1, <2>2, <2>3, VerifyKeeps
<1> QED
  BY <1>2, <1>3

LEMMA LapseRowKeeps ==
  ASSUME Inv, NEW r \in Requests, LapseRow(r)
  PROVE  Inv'
<1> DEFINE o == [op[r] EXCEPT !.phase = "unlink"]
<1>1. /\ op[r].phase = "lapse" /\ Set(r, o)
      /\ UNCHANGED <<now, limit, links, issued, mails, guesses>>
      /\ row' = row \/ (row.state # "active" /\ row' = Blank("awaiting_confirmation"))
  BY DEF LapseRow, Go
<1>2. o \in Ops /\ o.phase = "unlink" /\ o.challenge = op[r].challenge /\ o.seen = op[r].seen
  <2>1. "unlink" \in Phases
    BY DEF Phases
  <2> QED
    BY <2>1, PhaseOfOp DEF Inv
<1> HIDE DEF o
<1>3. CASE row' = row
  BY <1>1, <1>2, <1>3, VerifyKeeps DEF Inv, TypeOK
<1>4. CASE row.state # "active" /\ row' = Blank("awaiting_confirmation")
  <2>1. row' \in Rows /\ row'.challenge = 0 /\ row'.expires = 0
    BY <1>4, BlankFacts
  <2> QED
    BY <1>1, <1>2, <1>4, <2>1, VerifyKeeps
<1> QED
  BY <1>1, <1>3, <1>4

-----------------------------------------------------------------------------
(* A challenge is issued, and the clock. *)

LEMMA ReadRegistrationKeeps ==
  ASSUME Inv, NEW r \in Requests, ReadRegistration(r)
  PROVE  Inv'
<1> DEFINE o == [Idle EXCEPT !.phase = "read", !.at = now, !.challenge = issued + 1, !.seen = row]
<1>1. /\ op[r] = Idle /\ row.state # "active" /\ issued < MaxChallenges /\ issued' = issued + 1
      /\ Set(r, o) /\ UNCHANGED <<now, row, limit, links, mails, guesses>>
  BY DEF ReadRegistration
<1>2. issued + 1 \in Challenges /\ issued' \in 0 .. MaxChallenges /\ issued \in Nat
  BY <1>1, LimitAssumption DEF Inv, TypeOK, Challenges
<1>3. o \in Ops /\ o.phase = "read" /\ o.challenge = issued + 1 /\ o.seen = row
  <2>1. row \in Rows /\ now \in Times
    BY DEF Inv, TypeOK
  <2> QED
    BY <1>2, <2>1, BlankFacts DEF Ops, Phases
<1> HIDE DEF o
<1>4. /\ op' \in [Requests -> Ops] /\ op'[r] = o
      /\ \A q \in Requests : q # r => op'[q] = op[q]
  BY <1>1, <1>3, SetOp DEF Inv
<1>5. /\ ~Stored(o) /\ ~Ending(o) /\ o.phase # "send" /\ Before(o) /\ Issuing(o)
  BY <1>3, PhaseFacts
<1>6. TypeOK'
  BY <1>1, <1>2, <1>4 DEF Inv, TypeOK
<1>7. Known'
  BY <1>1, <1>2, <1>3, <1>4, Numbers DEF Inv, Known
<1>8. Apart' /\ Unmailed'
  <2>1. \A q \in Requests : op[q].challenge # issued + 1
    BY <1>2, Numbers DEF Inv, Known
  <2>2. \A m \in mails : m.challenge # issued + 1
    BY <1>2, Numbers DEF Inv, Known
  <2>3. Apart'
    BY <1>3, <1>4, <2>1 DEF Inv, Apart
  <2>4. Unmailed'
    BY <1>1, <1>3, <1>4, <2>2 DEF Inv, Unmailed
  <2> QED
    BY <2>3, <2>4
<1>9. Fresh'
  <2>1. /\ row.challenge # issued + 1
        /\ \A q \in Requests : op[q].challenge # issued + 1 /\ op[q].seen.challenge # issued + 1
    BY <1>2, Numbers DEF Inv, Known
  <2> SUFFICES ASSUME NEW p \in Requests, Before(op'[p]), NEW q \in Requests
               PROVE  /\ row'.challenge # op'[p].challenge
                      /\ op'[q].seen.challenge # op'[p].challenge
                      /\ q # p => op'[q].challenge # op'[p].challenge
    BY DEF Fresh, Before
  <2>2. CASE p = r
    BY <1>1, <1>3, <1>4, <2>1, <2>2
  <2>3. CASE p # r
    <3>1. /\ row.challenge # op[p].challenge /\ op[q].seen.challenge # op[p].challenge
          /\ q # p => op[q].challenge # op[p].challenge
      BY <1>4, <2>3 DEF Inv, Fresh
    <3> QED
      BY <1>1, <1>3, <1>4, <2>1, <2>3, <3>1
  <2> QED
    BY <2>2, <2>3
<1>10. \A q \in Requests : Stored(op'[q]) => q # r /\ Stored(op[q]) /\ op'[q] = op[q]
  BY <1>4, <1>5
<1>11. Covered'
  <2>1. \A q \in Requests : Stored(op'[q]) /\ op'[q].seen.challenge # 0
          => op'[q].seen.challenge # row'.challenge
    BY <1>1, <1>10 DEF Inv, Covered
  <2>2. \A p, q \in Requests : /\ p # q /\ Stored(op'[p]) /\ Stored(op'[q])
                               /\ op'[p].seen.challenge # 0
                               => op'[q].seen.challenge # op'[p].seen.challenge
    BY <1>10 DEF Inv, Covered
  <2> QED
    BY <2>1, <2>2 DEF Covered, Stored
<1>12. \A c \in Nat : (Gone(c) => Gone(c)') /\ (Safe(c) => Safe(c)')
  <2>1. \A c \in Nat : Gone(c) => Gone(c)'
    BY <1>1, <1>4, <1>5 DEF Gone, Stored
  <2> QED
    BY <1>1, <2>1 DEF Safe
<1>13. LinksKept'
  BY <1>1, <1>4, <1>5, <1>12, Numbers DEF Inv, LinksKept, Ending
<1> QED
  BY <1>6, <1>7, <1>8, <1>9, <1>11, <1>13 DEF Inv

LEMMA TickKeeps ==
  ASSUME Inv, Tick
  PROVE  Inv'
<1>1. /\ now < MaxTime /\ now' = now + 1
      /\ UNCHANGED <<row, limit, links, issued, mails, guesses, op>>
  BY DEF Tick
<1>2. TypeOK'
  BY <1>1, LimitAssumption DEF Inv, TypeOK, Times
<1>3. Known' /\ Apart' /\ Fresh' /\ Unmailed' /\ Covered'
  BY <1>1 DEF Inv, Known, Apart, Fresh, Unmailed, Covered, Issuing, Before, Unsent, Stored
<1>4. \A c \in Nat : (Gone(c) => Gone(c)') /\ (Safe(c) => Safe(c)')
  <2>1. \A c \in Nat : Gone(c) => Gone(c)'
    BY <1>1, Numbers DEF Inv, Gone, Stored
  <2> QED
    BY <1>1, <2>1 DEF Safe
<1>5. LinksKept'
  BY <1>1, <1>4, Numbers DEF Inv, LinksKept, Ending
<1> QED
  BY <1>2, <1>3, <1>5 DEF Inv

-----------------------------------------------------------------------------
(* Every step, and the theorems. *)

LEMMA NextInv == Inv /\ [Next]_vars => Inv'
<1> SUFFICES ASSUME Inv, [Next]_vars
             PROVE  Inv'
  OBVIOUS
<1>1. ASSUME NEW r \in Requests, IssueStep(r)
      PROVE  Inv'
  BY <1>1, ReadRegistrationKeeps, ReadLimitKeeps, ClaimDeliveryKeeps, StoreChallengeKeeps,
     PutLinkKeeps, QueueMailKeeps, DropOldLinkKeeps, RefuseMailKeeps, RestoreRowKeeps,
     DropNewLinkKeeps, RestoreLimitKeeps, AbandonKeeps DEF IssueStep
<1>2. ASSUME NEW r \in Requests, VerifyStep(r)
      PROVE  Inv'
  BY <1>2, ReadCodeKeeps, ClaimAttemptKeeps, CompareCodeKeeps, FollowLinkKeeps,
     ActivateKeeps DEF VerifyStep
<1>3. ASSUME NEW r \in Requests, StatusStep(r)
      PROVE  Inv'
  BY <1>3, ReadStatusKeeps, LapseRowKeeps, UnlinkKeeps DEF StatusStep
<1>4. CASE Tick
  BY <1>4, TickKeeps
<1>5. CASE UNCHANGED vars
  <2>1. TypeOK'
    BY <1>5 DEF Inv, TypeOK, vars
  <2>2. Known' /\ Apart' /\ Fresh' /\ Unmailed' /\ Covered'
    BY <1>5 DEF Inv, Known, Apart, Fresh, Unmailed, Covered,
                Issuing, Before, Unsent, Stored, vars
  <2>3. LinksKept'
    BY <1>5 DEF Inv, LinksKept, Safe, Gone, Ending, Stored, vars
  <2> QED
    BY <2>1, <2>2, <2>3 DEF Inv
<1> QED
  BY <1>1, <1>2, <1>3, <1>4, <1>5 DEF Next

LEMMA SpecInv == Spec => []Inv
<1>1. Init => Inv
  BY InitInv
<1>2. Inv /\ [Next]_vars => Inv'
  BY NextInv
<1> QED
  BY <1>1, <1>2, PTL DEF Spec

\* The columns, the limits row, the challenges and what requests remember are of
\* their types: attempts and deliveries never count past their limits.
THEOREM EmailTyped == Spec => []TypeOK
<1>1. Inv => TypeOK
  BY DEF Inv
<1> QED
  BY <1>1, SpecInv, PTL

\* However requests, refused messages and lapses interleave, the link of a queued
\* message stays in KV as long as the row holds its challenge unexpired.
THEOREM LinksWork == Spec => []MailedLinkWorks
<1>1. Inv => MailedLinkWorks
  <2> SUFFICES ASSUME Inv, NEW m \in mails, row.challenge = m.challenge, row.expires > now
               PROVE  m.challenge \in links
    BY DEF MailedLinkWorks, Unexpired
  <2>1. /\ m.challenge \in Nat /\ m.challenge >= 1
        /\ row.expires \in Nat /\ now \in Nat
    BY Numbers DEF Inv
  <2>2. row.state # "active"
    BY <2>1 DEF Inv, Known
  <2>3. ~Gone(m.challenge)
    BY <2>1, <2>2 DEF Gone
  <2> QED
    BY <2>3 DEF Inv, LinksKept, Safe
<1> QED
  BY <1>1, SpecInv, PTL

LEMMA ActiveStays ==
  ASSUME Inv, [Next]_vars, row.state = "active"
  PROVE  row'.state = "active"
<1>1. ASSUME NEW r \in Requests, StoreChallenge(r)
      PROVE  row' = row
  <2>1. op[r].seen.state # "active"
    BY <1>1, PhaseFacts DEF StoreChallenge, Inv, Known
  <2> QED
    BY <1>1, <2>1 DEF StoreChallenge, SameChallenge
<1>2. ASSUME NEW r \in Requests, RestoreRow(r)
      PROVE  row' = row
  BY <1>2 DEF RestoreRow, StillMine
<1>3. ASSUME NEW r \in Requests, ClaimAttempt(r)
      PROVE  row'.state = "active"
  <2>1. row \in Rows
    BY DEF Inv, TypeOK
  <2>2. row' = row \/ row' = [row EXCEPT !.attempts = row.attempts + 1]
    BY <1>3 DEF ClaimAttempt
  <2> QED
    BY <2>1, <2>2 DEF Rows
<1>4. ASSUME NEW r \in Requests, Activate(r) \/ LapseRow(r)
      PROVE  row' = row
  BY <1>4 DEF Activate, LapseRow, StillMine
<1>5. ASSUME NEW r \in Requests, IssueStep(r)
      PROVE  row' = row
  BY <1>1, <1>2, <1>5 DEF IssueStep, ReadRegistration, ReadLimit, ClaimDelivery, PutLink,
     QueueMail, DropOldLink, RefuseMail, DropNewLink, RestoreLimit, Abandon
<1>6. ASSUME NEW r \in Requests, VerifyStep(r) \/ StatusStep(r)
      PROVE  row' = row \/ row'.state = "active"
  BY <1>3, <1>4, <1>6 DEF VerifyStep, StatusStep, ReadCode, CompareCode, FollowLink,
     ReadStatus, Unlink
<1> QED
  BY <1>5, <1>6 DEF Next, Tick, vars

\* A step that was under way when the registration became active (a challenge to
\* store, a row to set back, a lapse) does not take the activation back.
THEOREM ActivationIsFinal == Spec => ActiveIsFinal
<1>1. Inv /\ [Next]_vars => [row.state = "active" => row'.state = "active"]_vars
  BY ActiveStays
<1> QED
  BY <1>1, SpecInv, PTL DEF Spec, ActiveIsFinal

-----------------------------------------------------------------------------
(* The limits row. *)

\* A delivery this request has claimed and may still give back, or queue.
Claimed(o) ==
  o.phase \in {"store", "put", "send"} \/ (o.phase = "undo" /\ "limit" \in o.undo)

Claimants == {r \in Requests : Claimed(op[r])}

\* When the messages were claimed that are queued or still may be.
Live == {m.at : m \in mails} \cup {op[r].at : r \in Claimants}

Below(S, t) == {a \in S : a < t}
InWindow(L, S) == {a \in S : a >= L.start}

\* A limits row L accounts for claims at the times S.  It may count more than
\* there are: a claim that was abandoned is not given back.
Counts(L, S) ==
  /\ L.count = 0 => S = {}
  /\ L.count > 0 =>
       /\ L.start <= L.last /\ L.last < L.start + Window
       /\ \A a \in S : a <= L.last
       /\ \A a, b \in S : a >= L.start /\ b > a => a + Cooldown <= b
       /\ Cardinality(InWindow(L, S)) <= L.count

\* What a request will put back accounts for every claim before its own, whatever
\* was claimed, queued or given back since it read the row.
Returns(o, t, S) ==
  /\ o.phase \in {"read", "claim"} => o.at = t
  /\ o.phase = "claim" \/ Claimed(o) => o.at <= t /\ Counts(o.previous, Below(S, o.at))

LimitInv ==
  /\ Counts(limit, Live)
  /\ \A r \in Requests : Returns(op[r], now, Live)
  /\ \A r, q \in Claimants : r # q => op[r].at # op[q].at
  /\ \A r \in Claimants : \A m \in mails : m.at # op[r].at
  /\ \A m, n \in mails : m # n => m.at # n.at

LEMMA LimitNumbers ==
  ASSUME NEW L \in Limits
  PROVE  L.start \in Nat /\ L.count \in Nat /\ L.last \in Nat
         /\ L.start \in Times /\ L.last \in Times
BY LimitAssumption DEF Limits, Times

LEMMA TimesFinite ==
  ASSUME NEW S \in SUBSET Times
  PROVE  /\ \A a \in S : a \in Nat
         /\ IsFiniteSet(S) /\ Cardinality(S) \in Nat
<1>1. IsFiniteSet(Times)
  BY LimitAssumption, FS_Interval DEF Times
<1>2. IsFiniteSet(S)
  BY <1>1, FS_Subset
<1>3. Cardinality(S) \in Nat
  BY <1>2, FS_CardinalityType
<1> QED
  BY <1>2, <1>3, LimitAssumption DEF Times

LEMMA CountsSmaller ==
  ASSUME NEW L \in Limits, NEW S \in SUBSET Times, NEW T \in SUBSET S, Counts(L, S)
  PROVE  Counts(L, T)
<1>1. /\ InWindow(L, S) \in SUBSET Times /\ InWindow(L, T) \in SUBSET InWindow(L, S)
      /\ InWindow(L, T) \in SUBSET Times
  BY DEF InWindow
<1>2. Cardinality(InWindow(L, T)) <= Cardinality(InWindow(L, S))
  BY <1>1, TimesFinite, FS_Subset
<1>3. Cardinality(InWindow(L, T)) \in Nat /\ Cardinality(InWindow(L, S)) \in Nat
  BY <1>1, TimesFinite
<1>4. L.count > 0 => Cardinality(InWindow(L, T)) <= L.count
  BY <1>2, <1>3, LimitNumbers DEF Counts
<1> QED
  BY <1>4 DEF Counts

\* The first claim of a window.
LEMMA CountsFirst ==
  ASSUME NEW t \in Times, NEW S \in SUBSET Times, \A a \in S : a < t
  PROVE  Counts([start |-> t, count |-> 1, last |-> t], S \cup {t})
<1> DEFINE L == [start |-> t, count |-> 1, last |-> t]
<1>1. L.start = t /\ L.count = 1 /\ L.last = t
  OBVIOUS
<1> HIDE DEF L
<1>2. t \in Nat /\ \A a \in S : a \in Nat
  BY TimesFinite, LimitAssumption DEF Times
<1>3. InWindow(L, S \cup {t}) = {t}
  <2>1. \A a \in S : ~(a >= t)
    BY <1>2
  <2>2. t >= t
    BY <1>2
  <2> QED
    BY <1>1, <2>1, <2>2, Zenon DEF InWindow
<1>4. Cardinality(InWindow(L, S \cup {t})) = 1
  BY <1>3, FS_Singleton
<1>5. Counts(L, S \cup {t})
  BY <1>1, <1>2, <1>4, LimitAssumption DEF Counts
<1> QED
  BY <1>5 DEF L

\* A further claim of the window, a cooldown after the last.
LEMMA CountsNext ==
  ASSUME NEW t \in Times, NEW S \in SUBSET Times, NEW L \in Limits, Counts(L, S),
         L.count > 0, L.last + Cooldown <= t, t < L.start + Window
  PROVE  Counts([L EXCEPT !.count = L.count + 1, !.last = t], S \cup {t})
<1> DEFINE K == [L EXCEPT !.count = L.count + 1, !.last = t]
<1>1. K.start = L.start /\ K.count = L.count + 1 /\ K.last = t
  BY DEF Limits
<1> HIDE DEF K
<1>2. t \in Nat /\ \A a \in S : a \in Nat
  BY TimesFinite, LimitAssumption DEF Times
<1>3. /\ L.start \in Nat /\ L.count \in Nat /\ L.last \in Nat
      /\ L.start <= L.last /\ \A a \in S : a <= L.last
  BY LimitNumbers DEF Counts
<1>4. \A a \in S : a < t /\ a + Cooldown <= t
  BY <1>2, <1>3, LimitAssumption
<1>5. Cardinality(InWindow(K, S \cup {t})) <= K.count
  <2>1. InWindow(K, S \cup {t}) = InWindow(L, S) \cup {t}
    BY <1>1, <1>2, <1>3, LimitAssumption DEF InWindow
  <2>2. InWindow(L, S) \in SUBSET Times
    BY DEF InWindow
  <2>3. t \notin InWindow(L, S)
    BY <1>2, <1>4 DEF InWindow
  <2>4. Cardinality(InWindow(L, S) \cup {t}) = Cardinality(InWindow(L, S)) + 1
    BY <2>2, <2>3, TimesFinite, FS_AddElement
  <2>5. Cardinality(InWindow(L, S)) <= L.count /\ Cardinality(InWindow(L, S)) \in Nat
    BY <2>2, TimesFinite DEF Counts
  <2> QED
    BY <1>1, <1>3, <2>1, <2>4, <2>5
<1>6. \A a, b \in S \cup {t} : a >= K.start /\ b > a => a + Cooldown <= b
  BY <1>1, <1>2, <1>4 DEF Counts
<1>7. K.start <= K.last /\ K.last < K.start + Window /\ \A a \in S \cup {t} : a <= K.last
  BY <1>1, <1>2, <1>3, <1>4, LimitAssumption
<1>8. Counts(K, S \cup {t})
  BY <1>1, <1>3, <1>5, <1>6, <1>7 DEF Counts
<1> QED
  BY <1>8 DEF K

LEMMA LiveTimes ==
  ASSUME TypeOK
  PROVE  /\ Live \in SUBSET Times
         /\ \A q \in Requests : op[q].at \in Times /\ op[q].previous \in Limits
         /\ \A m \in mails : m.at \in Times
BY DEF TypeOK, Live, Claimants, Ops

\* A request goes on with what it claimed, or forgets it.
LEMMA ClaimsFade ==
  ASSUME TypeOK, LimitInv, NEW r \in Requests, NEW o \in Ops, Set(r, o),
         UNCHANGED <<now, mails>>,
         Claimed(o) => /\ Claimed(op[r])
                       /\ o.at = op[r].at /\ o.previous = op[r].previous,
         o.phase \in {"read", "claim"} => o.at = now,
         o.phase = "claim" => Counts(o.previous, Below(Live, o.at))
  PROVE  /\ \A q \in Requests : Claimed(op'[q]) => Claimed(op[q]) /\ op'[q].at = op[q].at
         /\ Live' \in SUBSET Live /\ Live' \in SUBSET Times
         /\ \A q \in Requests : Returns(op[q], now, Live)'
         /\ \A q, p \in Claimants' : q # p => op'[q].at # op'[p].at
         /\ \A q \in Claimants' : \A m \in mails' : m.at # op'[q].at
<1>1. op'[r] = o /\ \A q \in Requests : q # r => op'[q] = op[q]
  BY SetOp
<1>2. \A q \in Requests : Claimed(op'[q]) => Claimed(op[q]) /\ op'[q].at = op[q].at
  BY <1>1
<1>3. Claimants' = {q \in Requests : Claimed(op'[q])}
  BY DEF Claimants, Claimed
<1>4. Live' = {m.at : m \in mails} \cup {op'[q].at : q \in Claimants'}
  BY DEF Live
<1>5. Live' \in SUBSET Live /\ Live \in SUBSET Times
  BY <1>2, <1>3, <1>4, LiveTimes DEF Live, Claimants
<1>6. ASSUME NEW t
      PROVE  Below(Live', t) \in SUBSET Below(Live, t) /\ Below(Live, t) \in SUBSET Times
  BY <1>5 DEF Below
<1>7. ASSUME NEW q \in Requests
      PROVE  Returns(op'[q], now, Live')
  <2>1. op'[q].phase \in {"read", "claim"} => op'[q].at = now
    BY <1>1 DEF LimitInv, Returns
  <2>2. ASSUME op'[q].phase = "claim" \/ Claimed(op'[q])
        PROVE  /\ op'[q].previous \in Limits /\ op'[q].at <= now
               /\ Counts(op'[q].previous, Below(Live, op'[q].at))
    <3>1. CASE q # r
      BY <1>1, <2>2, <3>1, LiveTimes DEF LimitInv, Returns
    <3>2. CASE q = r /\ o.phase = "claim"
      <4>1. o.previous \in Limits /\ now <= now
        BY LimitAssumption DEF Ops, TypeOK, Times
      <4> QED
        BY <1>1, <3>2, <4>1
    <3>3. CASE q = r /\ Claimed(o)
      <4>1. Claimed(op[r]) /\ o.at = op[r].at /\ o.previous = op[r].previous
        BY <3>3
      <4> QED
        BY <1>1, <3>3, <4>1, LiveTimes DEF LimitInv, Returns
    <3> QED
      BY <1>1, <2>2, <3>1, <3>2, <3>3
  <2>3. op'[q].phase = "claim" \/ Claimed(op'[q])
           => op'[q].at <= now /\ Counts(op'[q].previous, Below(Live', op'[q].at))
    BY <1>6, <2>2, CountsSmaller
  <2> QED
    BY <2>1, <2>3 DEF Returns
<1>8. \A q, p \in Claimants' : q # p => op'[q].at # op'[p].at
  BY <1>2, <1>3 DEF LimitInv, Claimants
<1>9. \A q \in Claimants' : \A m \in mails' : m.at # op'[q].at
  BY <1>2, <1>3 DEF LimitInv, Claimants
<1>10. \A q \in Requests : Returns(op[q], now, Live)'
  BY <1>7
<1> QED
  BY <1>2, <1>5, <1>8, <1>9, <1>10

LEMMA LimitKeeps ==
  ASSUME TypeOK, LimitInv, NEW r \in Requests, NEW o \in Ops, Set(r, o),
         UNCHANGED <<now, limit, mails>>,
         Claimed(o) => /\ Claimed(op[r])
                       /\ o.at = op[r].at /\ o.previous = op[r].previous,
         o.phase \in {"read", "claim"} => o.at = now,
         o.phase = "claim" => Counts(o.previous, Below(Live, o.at))
  PROVE  LimitInv'
<1>1. /\ Live' \in SUBSET Live
      /\ \A q \in Requests : Returns(op[q], now, Live)'
      /\ \A q, p \in Claimants' : q # p => op'[q].at # op'[p].at
      /\ \A q \in Claimants' : \A m \in mails' : m.at # op'[q].at
  BY ClaimsFade
<1>2. limit \in Limits /\ Live \in SUBSET Times /\ Counts(limit, Live)
  BY LiveTimes DEF TypeOK, LimitInv
<1>3. Counts(limit, Live')
  BY <1>1, <1>2, CountsSmaller
<1>4. \A m, n \in mails' : m # n => m.at # n.at
  BY DEF LimitInv
<1> QED
  BY <1>1, <1>3, <1>4 DEF LimitInv

\* What is claimed comes after all that is live, so no two claims meet at a time.
LEMMA DeliverableAfter ==
  ASSUME NEW t \in Times, NEW S \in SUBSET Times, TypeOK, Counts(limit, S), Deliverable(t)
  PROVE  \A a \in S : a < t
<1>1. t \in Nat /\ \A a \in S : a \in Nat
  BY TimesFinite, LimitAssumption DEF Times
<1>2. limit.start \in Nat /\ limit.count \in Nat /\ limit.last \in Nat
  BY LimitNumbers DEF TypeOK
<1>3. CASE limit.count = 0
  BY <1>3 DEF Counts
<1>4. CASE limit.count > 0
  <2>1. /\ limit.last < limit.start + Window /\ \A a \in S : a <= limit.last
    BY <1>4 DEF Counts
  <2>2. limit.start + Window <= t \/ limit.last + Cooldown <= t
    BY <1>4 DEF Deliverable, FirstOfWindow
  <2>3. limit.last < t
    BY <1>1, <1>2, <2>1, <2>2, LimitAssumption
  <2> QED
    BY <1>1, <1>2, <2>1, <2>3
<1> QED
  BY <1>2, <1>3, <1>4

LEMMA ClaimedLimit ==
  ASSUME TypeOK, NEW S \in SUBSET Times, Counts(limit, S), NEW t \in Times, Deliverable(t),
         limit' = IF FirstOfWindow(t)
                  THEN [start |-> t, count |-> 1, last |-> t]
                  ELSE [limit EXCEPT !.count = @ + 1, !.last = t]
  PROVE  Counts(limit, S \cup {t})'
<1>1. \A a \in S : a < t
  BY DeliverableAfter
<1>2. CASE FirstOfWindow(t)
  BY <1>1, <1>2, CountsFirst
<1>3. CASE ~FirstOfWindow(t)
  <2>1. limit.start \in Nat /\ limit.count \in Nat /\ t \in Nat /\ limit \in Limits
    BY LimitNumbers, LimitAssumption DEF TypeOK, Times
  <2>2. limit.count > 0 /\ t < limit.start + Window /\ limit.last + Cooldown <= t
    BY <1>3, <2>1, LimitAssumption DEF FirstOfWindow, Deliverable
  <2>3. limit' = [limit EXCEPT !.count = limit.count + 1, !.last = t]
    BY <1>3
  <2> QED
    BY <2>1, <2>2, <2>3, CountsNext
<1> QED
  BY <1>2, <1>3

LEMMA ClaimDeliveryLimit ==
  ASSUME TypeOK, LimitInv, NEW r \in Requests, ClaimDelivery(r)
  PROVE  LimitInv'
<1>1. /\ op[r].phase = "claim" /\ op[r].at = now /\ UNCHANGED <<now, mails>>
      /\ ~Claimed(op[r])
  BY DEF ClaimDelivery, LimitInv, Returns, Claimed
<1>2. CASE ~Deliverable(op[r].at)
  <2>1. Set(r, Idle) /\ UNCHANGED limit
    BY <1>2 DEF ClaimDelivery
  <2>2. Idle \in Ops /\ Idle.phase = "idle" /\ ~Claimed(Idle)
    BY BlankFacts DEF Claimed
  <2> QED
    BY <1>1, <2>1, <2>2, LimitKeeps
<1>3. ASSUME Deliverable(op[r].at)
      PROVE  LimitInv'
  <2> DEFINE o == [op[r] EXCEPT !.phase = "store"]
  <2>1. PICK t \in Times : t = op[r].at /\ t = now
    BY <1>1, LiveTimes
  <2>2. Set(r, o) /\ "store" \in Phases
    BY <1>3 DEF ClaimDelivery, Go, Phases
  <2>3. /\ o \in Ops /\ o.phase = "store" /\ o.at = t
    BY <2>1, <2>2, PhaseOfOp
  <2>4. o.previous = op[r].previous
    BY DEF TypeOK, Ops
  <2> HIDE DEF o
  <2>5. Claimed(o) /\ op'[r] = o /\ \A q \in Requests : q # r => op'[q] = op[q]
    BY <2>2, <2>3, SetOp DEF Claimed
  <2>6. limit' = IF FirstOfWindow(t)
                 THEN [start |-> t, count |-> 1, last |-> t]
                 ELSE [limit EXCEPT !.count = @ + 1, !.last = t]
    BY <1>3, <2>1 DEF ClaimDelivery
  <2>7. Live \in SUBSET Times /\ Counts(limit, Live) /\ Deliverable(t)
    BY <1>3, <2>1, LiveTimes DEF LimitInv
  <2>8. \A a \in Live : a < t
    BY <2>7, DeliverableAfter
  <2>9. Counts(limit', Live \cup {t})
    BY <2>6, <2>7, ClaimedLimit
  <2>10. Claimants' = Claimants \cup {r}
    BY <1>1, <2>5 DEF Claimants, Claimed
  <2>11. r \notin Claimants /\ \A q \in Claimants : q \in Requests /\ op'[q] = op[q]
    BY <1>1, <2>5 DEF Claimants
  <2>12. Live' = Live \cup {t}
    BY <1>1, <2>3, <2>5, <2>10, <2>11 DEF Live
  <2>13. Counts(limit', Live')
    BY <2>9, <2>12
  <2>14. ASSUME NEW u \in Times, u <= t
         PROVE  Below(Live', u) = Below(Live, u)
    <3>1. ~(t < u)
      BY <2>14, LimitAssumption DEF Times
    <3> QED
      BY <2>12, <3>1 DEF Below
  <2>15. ASSUME NEW q \in Requests
         PROVE  Returns(op'[q], now, Live')
    <3>1. CASE q = r
      <4>1. Counts(op[r].previous, Below(Live, t)) /\ t <= now
        BY <1>1, <2>1 DEF LimitInv, Returns
      <4>2. Below(Live', t) = Below(Live, t)
        BY <2>1, <2>14, <4>1
      <4> QED
        BY <2>3, <2>4, <2>5, <3>1, <4>1, <4>2 DEF Returns
    <3>2. CASE q # r
      <4>1. Returns(op[q], now, Live) /\ op[q].at \in Times /\ op'[q] = op[q]
        BY <2>5, <3>2, LiveTimes DEF LimitInv
      <4>2. op[q].phase = "claim" \/ Claimed(op[q])
               => Below(Live', op[q].at) = Below(Live, op[q].at)
        BY <2>1, <2>14, <4>1 DEF Returns
      <4> QED
        BY <4>1, <4>2 DEF Returns
    <3> QED
      BY <3>1, <3>2
  <2>16. \A q \in Claimants : op[q].at \in Live /\ op[q].at # t
    BY <2>1, <2>8, LimitAssumption DEF Live, Times
  <2>17. \A m \in mails : m.at \in Live /\ m.at # t
    BY <2>1, <2>8, LimitAssumption DEF Live, Times
  <2>18. \A q, p \in Claimants' : q # p => op'[q].at # op'[p].at
    BY <2>3, <2>5, <2>10, <2>11, <2>16 DEF LimitInv
  <2>19. \A q \in Claimants' : \A m \in mails' : m.at # op'[q].at
    BY <1>1, <2>3, <2>5, <2>10, <2>11, <2>17 DEF LimitInv
  <2>20. \A m, n \in mails' : m # n => m.at # n.at
    BY <1>1 DEF LimitInv
  <2>21. \A q \in Requests : Returns(op[q], now, Live)'
    BY <1>1, <2>15
  <2> QED
    BY <2>13, <2>18, <2>19, <2>20, <2>21 DEF LimitInv
<1> QED
  BY <1>2, <1>3

LEMMA QueueMailLimit ==
  ASSUME TypeOK, LimitInv, NEW r \in Requests, QueueMail(r)
  PROVE  LimitInv'
<1> DEFINE o == [op[r] EXCEPT !.phase = "drop"]
           n == [challenge |-> op[r].challenge, at |-> op[r].at]
<1>1. /\ op[r].phase = "send" /\ Set(r, o) /\ mails' = mails \cup {n}
      /\ UNCHANGED <<now, limit>> /\ "drop" \in Phases
  BY DEF QueueMail, Go, Phases
<1>2. o \in Ops /\ o.phase = "drop"
  BY <1>1, PhaseOfOp
<1>3. n.at = op[r].at
  OBVIOUS
<1> HIDE DEF o, n
<1>4. /\ op'[r] = o /\ \A q \in Requests : q # r => op'[q] = op[q]
      /\ ~Claimed(o) /\ Claimed(op[r])
  BY <1>1, <1>2, SetOp DEF Claimed
<1>5. /\ Claimants' = Claimants \ {r} /\ r \in Claimants
      /\ \A q \in Claimants' : op'[q] = op[q] /\ q \in Claimants
  BY <1>4 DEF Claimants, Claimed
<1>6. Live' = {m.at : m \in mails'} \cup {op'[q].at : q \in Claimants'}
  BY DEF Live
<1>7. Live' = Live
  <2>1. \A a \in Live : a \in Live'
    <3> SUFFICES ASSUME NEW a \in Live
                 PROVE  a \in Live'
      OBVIOUS
    <3>1. CASE \E m \in mails : a = m.at
      BY <1>1, <1>6, <3>1
    <3>2. CASE \E q \in Claimants : a = op[q].at
      <4>1. PICK q \in Claimants : a = op[q].at
        BY <3>2
      <4>2. CASE q = r
        <5>1. n \in mails' /\ a = n.at
          BY <1>1, <1>3, <4>1, <4>2
        <5> QED
          BY <1>6, <5>1
      <4>3. CASE q # r
        <5>1. q \in Claimants' /\ a = op'[q].at
          BY <1>5, <4>1, <4>3
        <5> QED
          BY <1>6, <5>1
      <4> QED
        BY <4>2, <4>3
    <3> QED
      BY <3>1, <3>2 DEF Live
  <2>2. \A a \in Live' : a \in Live
    BY <1>1, <1>3, <1>5, <1>6 DEF Live
  <2> QED
    BY <2>1, <2>2
<1>8. Counts(limit', Live')
  BY <1>1, <1>7 DEF LimitInv
<1>9. \A q \in Requests : Returns(op'[q], now, Live')
  BY <1>2, <1>4, <1>7 DEF LimitInv, Returns
<1>10. \A q, p \in Claimants' : q # p => op'[q].at # op'[p].at
  BY <1>5 DEF LimitInv
<1>11. \A q \in Claimants' : \A m \in mails' : m.at # op'[q].at
  BY <1>1, <1>3, <1>5 DEF LimitInv
<1>12. \A m, k \in mails' : m # k => m.at # k.at
  BY <1>1, <1>3, <1>5 DEF LimitInv
<1>13. \A q \in Requests : Returns(op[q], now, Live)'
  BY <1>1, <1>9
<1> QED
  BY <1>8, <1>10, <1>11, <1>12, <1>13 DEF LimitInv

\* A request that has given its claim back claims nothing any more.
LEMMA RepairLimit ==
  ASSUME TypeOK, NEW r \in Requests, NEW what, Repair(r, what)
  PROVE  \E o \in Ops :
           /\ Set(r, o) /\ o.phase \notin {"read", "claim"}
           /\ Claimed(o) => /\ what # "limit" /\ Claimed(op[r])
                            /\ o.at = op[r].at /\ o.previous = op[r].previous
<1>1. op[r].phase = "undo" /\ what \in op[r].undo
  BY DEF Repair
<1>2. CASE op[r].undo = {what}
  <2>1. Set(r, Idle)
    BY <1>2 DEF Repair
  <2>2. Idle \in Ops /\ Idle.phase = "idle" /\ ~Claimed(Idle)
    BY BlankFacts DEF Claimed
  <2> QED
    BY <2>1, <2>2
<1>3. CASE op[r].undo # {what}
  <2> DEFINE o == [op[r] EXCEPT !.undo = @ \ {what}]
  <2>1. Set(r, o)
    BY <1>3 DEF Repair
  <2>2. op[r] \in Ops
    BY DEF TypeOK
  <2>3. /\ o \in Ops /\ o.phase = "undo" /\ o.undo = op[r].undo \ {what}
        /\ o.at = op[r].at /\ o.previous = op[r].previous
    BY <1>1, <2>2 DEF Ops
  <2> HIDE DEF o
  <2> QED
    BY <1>1, <2>1, <2>3 DEF Claimed
<1> QED
  BY <1>2, <1>3

\* The limits row is set back only while this claim is its last, so every live
\* claim that remains is older, and the row that was read accounts for those.
LEMMA RestoreLimitLimit ==
  ASSUME TypeOK, LimitInv, NEW r \in Requests, RestoreLimit(r)
  PROVE  LimitInv'
<1>1. /\ Repair(r, "limit") /\ UNCHANGED <<now, mails>>
      /\ limit' = IF LimitStillMine(r) THEN op[r].previous ELSE limit
  BY DEF RestoreLimit
<1>2. PICK o \in Ops : Set(r, o) /\ o.phase \notin {"read", "claim"} /\ ~Claimed(o)
  BY <1>1, RepairLimit
<1>3. CASE ~LimitStillMine(r)
  BY <1>1, <1>2, <1>3, LimitKeeps
<1>4. CASE LimitStillMine(r)
  <2>1. /\ \A q \in Requests : Claimed(op'[q]) => Claimed(op[q]) /\ op'[q].at = op[q].at
        /\ Live' \in SUBSET Live /\ Live' \in SUBSET Times
        /\ \A q \in Requests : Returns(op[q], now, Live)'
        /\ \A q, p \in Claimants' : q # p => op'[q].at # op'[p].at
        /\ \A q \in Claimants' : \A m \in mails' : m.at # op'[q].at
    BY <1>1, <1>2, ClaimsFade
  <2>2. op'[r] = o /\ \A q \in Requests : q # r => op'[q] = op[q]
    BY <1>2, SetOp
  <2>3. Claimed(op[r]) /\ r \in Claimants
    BY <1>1 DEF Repair, Claimed, Claimants
  <2>4. limit.count > 0 /\ limit.last = op[r].at /\ \A a \in Live : a <= op[r].at
    BY <1>4 DEF LimitStillMine, LimitInv, Counts
  <2>5. op[r].at \in Times /\ op[r].previous \in Limits /\ Live \in SUBSET Times
    BY LiveTimes
  <2>6. Counts(op[r].previous, Below(Live, op[r].at))
    BY <2>3 DEF LimitInv, Returns
  <2>7. Claimants' = {q \in Requests : Claimed(op'[q])}
    BY DEF Claimants, Claimed
  <2>8. Live' = {m.at : m \in mails} \cup {op'[q].at : q \in Claimants'}
    BY <1>1 DEF Live
  <2>9. \A a \in Live' : a # op[r].at
    <3>1. \A m \in mails : m.at # op[r].at
      BY <2>3 DEF LimitInv
    <3>2. \A q \in Claimants' : q # r /\ q \in Claimants /\ op'[q].at = op[q].at
      BY <1>2, <2>1, <2>2, <2>7 DEF Claimants
    <3>3. \A q \in Claimants' : op'[q].at # op[r].at
      BY <2>3, <3>2 DEF LimitInv
    <3> QED
      BY <2>8, <3>1, <3>3
  <2>10. Live' \in SUBSET Below(Live, op[r].at) /\ Below(Live, op[r].at) \in SUBSET Times
    <3>1. \A a \in Live' : a \in Live /\ a < op[r].at
      BY <2>1, <2>4, <2>5, <2>9, TimesFinite
    <3> QED
      BY <2>5, <3>1 DEF Below
  <2>11. Counts(op[r].previous, Live')
    BY <2>5, <2>6, <2>10, CountsSmaller
  <2>12. Counts(limit', Live')
    BY <1>1, <1>4, <2>11
  <2>13. \A m, n \in mails' : m # n => m.at # n.at
    BY <1>1 DEF LimitInv
  <2> QED
    BY <2>1, <2>12, <2>13 DEF LimitInv
<1> QED
  BY <1>3, <1>4

LEMMA IdleUnclaimed == Idle \in Ops /\ Idle.phase = "idle" /\ ~Claimed(Idle)
BY BlankFacts DEF Claimed

\* The steps that claim nothing and queue nothing.
LEMMA UnclaimedLimit ==
  ASSUME TypeOK, LimitInv, NEW r \in Requests,
         \/ Set(r, Idle)
         \/ \E phase \in Phases \ {"read", "claim", "store", "put", "send", "undo"} :
              \E c \in {0} \cup Challenges, x \in Rows :
                Set(r, [Idle EXCEPT !.phase = phase, !.challenge = c, !.seen = x])
         \/ \E phase \in Phases \ {"read", "claim", "store", "put", "send", "undo"} :
              Go(r, phase),
         UNCHANGED <<now, limit, mails>>
  PROVE  LimitInv'
<1>1. ASSUME NEW o \in Ops, Set(r, o),
             o.phase \notin {"read", "claim", "store", "put", "send", "undo"}
      PROVE  LimitInv'
  <2>1. ~Claimed(o)
    BY <1>1 DEF Claimed
  <2> QED
    BY <1>1, <2>1, LimitKeeps
<1>2. CASE Set(r, Idle)
  BY <1>1, <1>2, IdleUnclaimed
<1>3. ASSUME NEW phase \in Phases \ {"read", "claim", "store", "put", "send", "undo"},
             NEW c \in {0} \cup Challenges, NEW x \in Rows,
             Set(r, [Idle EXCEPT !.phase = phase, !.challenge = c, !.seen = x])
      PROVE  LimitInv'
  <2> DEFINE o == [Idle EXCEPT !.phase = phase, !.challenge = c, !.seen = x]
  <2>1. o \in Ops /\ o.phase = phase /\ Set(r, o)
    BY <1>3, IdleUnclaimed DEF Ops
  <2> HIDE DEF o
  <2> QED
    BY <1>1, <2>1
<1>4. ASSUME NEW phase \in Phases \ {"read", "claim", "store", "put", "send", "undo"},
             Go(r, phase)
      PROVE  LimitInv'
  <2> DEFINE o == [op[r] EXCEPT !.phase = phase]
  <2>1. o \in Ops /\ o.phase = phase /\ Set(r, o)
    BY <1>4, PhaseOfOp DEF Go
  <2> HIDE DEF o
  <2> QED
    BY <1>1, <2>1
<1> QED
  BY <1>2, <1>3, <1>4

LEMMA ReadRegistrationLimit ==
  ASSUME TypeOK, LimitInv, NEW r \in Requests, ReadRegistration(r)
  PROVE  LimitInv'
<1> DEFINE o == [Idle EXCEPT !.phase = "read", !.at = now, !.challenge = issued + 1,
                             !.seen = row]
<1>1. Set(r, o) /\ UNCHANGED <<now, limit, mails>> /\ issued < MaxChallenges
  BY DEF ReadRegistration
<1>2. issued + 1 \in Challenges
  BY <1>1, LimitAssumption DEF TypeOK, Challenges
<1>3. o \in Ops /\ o.phase = "read" /\ o.at = now
  BY <1>2, BlankFacts DEF TypeOK, Ops, Phases
<1> HIDE DEF o
<1>4. ~Claimed(o)
  BY <1>3 DEF Claimed
<1> QED
  BY <1>1, <1>3, <1>4, LimitKeeps

LEMMA ReadLimitLimit ==
  ASSUME TypeOK, LimitInv, NEW r \in Requests, ReadLimit(r)
  PROVE  LimitInv'
<1> DEFINE o == [op[r] EXCEPT !.phase = "claim", !.previous = limit]
<1>1. op[r].phase = "read" /\ Set(r, o) /\ UNCHANGED <<now, limit, mails>>
  BY DEF ReadLimit
<1>2. o \in Ops /\ o.phase = "claim" /\ o.previous = limit /\ o.at = op[r].at
  BY DEF TypeOK, Ops, Phases
<1> HIDE DEF o
<1>3. o.at = now /\ ~Claimed(o)
  BY <1>1, <1>2 DEF LimitInv, Returns, Claimed
<1>4. Below(Live, o.at) \in SUBSET Live /\ Live \in SUBSET Times /\ limit \in Limits
      /\ Counts(limit, Live)
  BY LiveTimes DEF Below, TypeOK, LimitInv
<1>5. Counts(o.previous, Below(Live, o.at))
  BY <1>2, <1>4, CountsSmaller
<1> QED
  BY <1>1, <1>2, <1>3, <1>5, LimitKeeps

\* The claim goes along with the request.
LEMMA CarriedLimit ==
  ASSUME TypeOK, LimitInv, NEW r \in Requests,
         \/ op[r].phase = "store" /\ Go(r, "put")
         \/ op[r].phase = "put" /\ Go(r, "send")
         \/ RefuseMail(r),
         UNCHANGED <<now, limit, mails>>
  PROVE  LimitInv'
<1>1. ASSUME NEW phase \in {"put", "send"}, op[r].phase \in {"store", "put"}, Go(r, phase)
      PROVE  LimitInv'
  <2> DEFINE o == [op[r] EXCEPT !.phase = phase]
  <2> phase \in Phases
    BY <1>1 DEF Phases
  <2>1. o \in Ops /\ o.phase = phase /\ o.at = op[r].at /\ Set(r, o)
    BY <1>1, PhaseOfOp DEF Go
  <2>2. o.previous = op[r].previous
    BY DEF TypeOK, Ops
  <2> HIDE DEF o
  <2>3. Claimed(op[r])
    BY <1>1 DEF Claimed
  <2> QED
    BY <1>1, <2>1, <2>2, <2>3, LimitKeeps
<1>2. CASE RefuseMail(r)
  <2> DEFINE o == [op[r] EXCEPT !.phase = "undo", !.undo = {"row", "link", "limit"}]
  <2>1. op[r].phase = "send" /\ Set(r, o)
    BY <1>2 DEF RefuseMail
  <2>2. o \in Ops /\ o.phase = "undo" /\ o.at = op[r].at /\ o.previous = op[r].previous
    BY DEF TypeOK, Ops, Phases
  <2> HIDE DEF o
  <2>3. Claimed(op[r])
    BY <2>1 DEF Claimed
  <2> QED
    BY <2>1, <2>2, <2>3, LimitKeeps
<1> QED
  BY <1>1, <1>2

LEMMA RepairingLimit ==
  ASSUME TypeOK, LimitInv, NEW r \in Requests, NEW what, Repair(r, what),
         UNCHANGED <<now, limit, mails>>
  PROVE  LimitInv'
<1>1. PICK o \in Ops :
        /\ Set(r, o) /\ o.phase \notin {"read", "claim"}
        /\ Claimed(o) => /\ Claimed(op[r])
                         /\ o.at = op[r].at /\ o.previous = op[r].previous
  BY RepairLimit
<1> QED
  BY <1>1, LimitKeeps

LEMMA TickLimit ==
  ASSUME TypeOK, LimitInv, Tick
  PROVE  LimitInv'
<1>1. /\ now' = now + 1 /\ UNCHANGED <<limit, mails, op>>
      /\ \A r \in Requests : op[r].phase \notin {"read", "claim"}
  BY DEF Tick
<1>2. Claimants' = Claimants
  BY <1>1 DEF Claimants, Claimed
<1>3. Live' = Live
  BY <1>1, <1>2 DEF Live
<1>4. \A r \in Requests : Returns(op[r], now', Live)
  <2>1. now \in Nat /\ \A r \in Requests : op[r].at \in Nat
    BY LiveTimes, LimitAssumption DEF TypeOK, Times
  <2> QED
    BY <1>1, <2>1 DEF LimitInv, Returns
<1>5. \A r \in Requests : Returns(op[r], now, Live)'
  BY <1>1, <1>3, <1>4
<1> QED
  BY <1>1, <1>2, <1>3, <1>5 DEF LimitInv

LEMMA NextLimit == TypeOK /\ LimitInv /\ [Next]_vars => LimitInv'
<1> SUFFICES ASSUME TypeOK, LimitInv, [Next]_vars
             PROVE  LimitInv'
  OBVIOUS
<1> DEFINE Quiet == Phases \ {"read", "claim", "store", "put", "send", "undo"}
<1>1. {"idle", "drop", "guess", "compare", "activate", "lapse", "unlink"} \subseteq Quiet
  BY DEF Phases
<1>2. 0 \in {0} \cup Challenges /\ row.challenge \in {0} \cup Challenges
      /\ row \in Rows /\ Idle.seen \in Rows
  BY IdleUnclaimed DEF TypeOK, Rows, Ops
<1> HIDE DEF Quiet
<1>3. ASSUME NEW r \in Requests, StoreChallenge(r) \/ PutLink(r) \/ RefuseMail(r)
      PROVE  LimitInv'
  BY <1>3, CarriedLimit, UnclaimedLimit DEF StoreChallenge, PutLink, RefuseMail
<1>4. ASSUME NEW r \in Requests, RestoreRow(r) \/ DropNewLink(r)
      PROVE  LimitInv'
  BY <1>4, RepairingLimit DEF RestoreRow, DropNewLink
<1>5. ASSUME NEW r \in Requests, DropOldLink(r) \/ Abandon(r) \/ Unlink(r)
      PROVE  LimitInv'
  BY <1>5, UnclaimedLimit DEF DropOldLink, Abandon, Unlink
<1>6. ASSUME NEW r \in Requests, IssueStep(r)
      PROVE  LimitInv'
  BY <1>3, <1>4, <1>5, <1>6, ReadRegistrationLimit, ReadLimitLimit, ClaimDeliveryLimit,
     QueueMailLimit, RestoreLimitLimit DEF IssueStep
<1>7. ASSUME NEW r \in Requests, ReadCode(r)
      PROVE  LimitInv'
  <2>1. Set(r, [Idle EXCEPT !.phase = "guess", !.challenge = row.challenge, !.seen = row])
        /\ UNCHANGED <<now, limit, mails>> /\ "guess" \in Quiet
    BY <1>1, <1>7 DEF ReadCode
  <2> QED
    BY <1>2, <2>1, UnclaimedLimit DEF Quiet
<1>8. ASSUME NEW r \in Requests,
             ClaimAttempt(r) \/ (\E right \in BOOLEAN : CompareCode(r, right))
               \/ Activate(r) \/ LapseRow(r)
      PROVE  LimitInv'
  <2>1. Set(r, Idle) \/ Go(r, "compare") \/ Go(r, "activate") \/ Go(r, "unlink")
    BY <1>8 DEF ClaimAttempt, CompareCode, Activate, LapseRow
  <2>2. UNCHANGED <<now, limit, mails>>
    BY <1>8 DEF ClaimAttempt, CompareCode, Activate, LapseRow
  <2> QED
    BY <1>1, <2>1, <2>2, UnclaimedLimit DEF Quiet
<1>9. ASSUME NEW r \in Requests, NEW c \in Challenges, FollowLink(r, c)
      PROVE  LimitInv'
  <2> DEFINE o == [Idle EXCEPT !.phase = "activate", !.challenge = c]
  <2>1. Set(r, o) /\ UNCHANGED <<now, limit, mails>>
    BY <1>9 DEF FollowLink
  <2>2. o \in Ops /\ o.phase = "activate"
    BY IdleUnclaimed DEF Ops, Phases
  <2> HIDE DEF o
  <2>3. ~Claimed(o)
    BY <2>2 DEF Claimed
  <2> QED
    BY <2>1, <2>2, <2>3, LimitKeeps
<1>10. ASSUME NEW r \in Requests, ReadStatus(r)
       PROVE  LimitInv'
  <2> DEFINE o == [Idle EXCEPT !.phase = "lapse", !.challenge = row.challenge]
  <2>1. Set(r, o) /\ UNCHANGED <<now, limit, mails>>
    BY <1>10 DEF ReadStatus
  <2>2. o \in Ops /\ o.phase = "lapse"
    BY <1>2, IdleUnclaimed DEF Ops, Phases
  <2> HIDE DEF o
  <2>3. ~Claimed(o)
    BY <2>2 DEF Claimed
  <2> QED
    BY <2>1, <2>2, <2>3, LimitKeeps
<1>11. ASSUME NEW r \in Requests, VerifyStep(r) \/ StatusStep(r)
       PROVE  LimitInv'
  BY <1>5, <1>7, <1>8, <1>9, <1>10, <1>11 DEF VerifyStep, StatusStep
<1>12. CASE UNCHANGED vars
  BY <1>12 DEF vars, LimitInv, Live, Claimants, Claimed
<1> QED
  BY <1>6, <1>11, <1>12, TickLimit DEF Next

LEMMA InitLimit == Init => LimitInv
<1> SUFFICES ASSUME Init
             PROVE  LimitInv
  OBVIOUS
<1>1. /\ \A r \in Requests : op[r] = Idle
      /\ limit.count = 0 /\ ~(limit.count > 0) /\ mails = {}
  BY DEF Init, NoLimit
<1>2. Claimants = {}
  BY <1>1, IdleUnclaimed DEF Claimants
<1>3. Live = {}
  BY <1>1, <1>2 DEF Live
<1>4. Counts(limit, Live)
  BY <1>1, <1>3 DEF Counts
<1>5. \A r \in Requests : Returns(op[r], now, Live)
  BY <1>1, IdleUnclaimed DEF Returns
<1> QED
  BY <1>1, <1>2, <1>4, <1>5 DEF LimitInv

\* However claims, refused messages and repairs interleave, the messages of the
\* current window are a cooldown apart and no more than its row counts, and no two
\* messages of the address were claimed at the same time.
THEOREM MessagesLimited == Spec => []MailsLimited
<1>1. TypeOK /\ LimitInv => MailsLimited
  <2> SUFFICES ASSUME TypeOK, LimitInv
               PROVE  MailsLimited
    OBVIOUS
  <2>1. Live \in SUBSET Times /\ Counts(limit, Live) /\ limit \in Limits
        /\ \A m \in mails : m.at \in Live
    BY LiveTimes DEF LimitInv, TypeOK, Live
  <2>2. limit.count \in Nat
    BY <2>1, LimitNumbers
  <2>3. limit.count = 0 => mails = {}
    BY <2>1 DEF Counts
  <2>4. \A m, n \in mails : m # n =>
          m.at # n.at /\ (m.at >= limit.start /\ n.at > m.at => m.at + Cooldown <= n.at)
    BY <2>1, <2>2, <2>3 DEF LimitInv, Counts
  <2>5. ASSUME limit.count > 0
        PROVE  Cardinality({m \in mails : m.at >= limit.start}) <= limit.count
    <3> DEFINE M == {m \in mails : m.at >= limit.start}
               W == InWindow(limit, Live)
               f == [m \in M |-> m.at]
    <3>1. \A m \in M : m \in mails /\ f[m] = m.at /\ m.at \in W
      BY <2>1 DEF InWindow
    <3>2. f \in Injection(M, W)
      <4>1. f \in [M -> W]
        BY <3>1
      <4>2. \A m, n \in M : f[m] = f[n] => m = n
        BY <3>1, <2>4
      <4> QED
        BY <4>1, <4>2 DEF Injection, IsInjective
    <3>3. W \in SUBSET Times
      BY <2>1 DEF InWindow
    <3> HIDE DEF W, f
    <3>4. IsFiniteSet(W) /\ Cardinality(W) \in Nat
      BY <3>3, TimesFinite
    <3>5. IsFiniteSet(M) /\ Cardinality(M) <= Cardinality(W)
      BY <3>2, <3>4, FS_Injection
    <3>6. Cardinality(M) \in Nat
      BY <3>5, FS_CardinalityType
    <3>7. Cardinality(W) <= limit.count
      BY <2>1, <2>5 DEF Counts, W
    <3> QED
      BY <2>2, <3>4, <3>5, <3>6, <3>7
  <2> QED
    BY <2>3, <2>4, <2>5 DEF MailsLimited
<1>2. Init => TypeOK /\ LimitInv
  BY InitInv, InitLimit DEF Inv
<1>3. Inv => TypeOK
  BY DEF Inv
<1>4. TypeOK /\ LimitInv /\ [Next]_vars => LimitInv'
  BY NextLimit
<1> QED
  BY <1>1, <1>2, <1>3, <1>4, SpecInv, PTL DEF Spec

-----------------------------------------------------------------------------
(* The attempts. *)

\* Its message may still be queued.
Pending(o) == o.phase \in {"read", "claim", "store", "put", "send"}

Sent(d) == \/ \E m \in mails : m.challenge = d
           \/ \E q \in Requests : Pending(op[q]) /\ op[q].challenge = d

\* No message after challenge c was refused so far.
Fine(c) == \A d \in c + 1 .. issued : Sent(d)

\* An attempt is spent when it is claimed: its comparison follows.
Comparing(c) == {q \in Requests : op[q].phase = "compare" /\ op[q].challenge = c}
Spent(c) == guesses[c] + Cardinality(Comparing(c))

\* The row counts every attempt its challenge has spent, unless a refused message
\* set an older count back.
Accounted ==
  \A c \in Challenges : Fine(c) =>
    /\ Spent(c) <= MaxAttempts
    /\ row.challenge = c => Spent(c) <= row.attempts

Unspent ==
  /\ \A c \in Challenges : IsFiniteSet(Comparing(c)) /\ (c > issued => guesses[c] = 0)
  /\ \A q \in Requests :
       /\ Issuing(op[q]) => op[q].seen.challenge < op[q].challenge
       /\ op[q].phase = "guess" => op[q].challenge = op[q].seen.challenge
       /\ Before(op[q]) => guesses[op[q].challenge] = 0

GuessInv == Accounted /\ Unspent

LEMMA SpentType ==
  ASSUME TypeOK, Unspent, NEW c \in Challenges
  PROVE  /\ Spent(c) \in Nat /\ guesses[c] \in Nat
         /\ IsFiniteSet(Comparing(c)) /\ Cardinality(Comparing(c)) \in Nat
         /\ Spent(c) = guesses[c] + Cardinality(Comparing(c))
<1>1. IsFiniteSet(Comparing(c)) /\ guesses[c] \in Nat
  BY DEF Unspent, TypeOK
<1>2. Cardinality(Comparing(c)) \in Nat
  BY <1>1, FS_CardinalityType
<1> QED
  BY <1>1, <1>2 DEF Spent

\* A challenge whose message was not queued and cannot be any more stays unsent.
LEMMA FineBefore ==
  ASSUME TypeOK, NEW r \in Requests, NEW o \in Ops, Set(r, o),
         \A m \in mails' : m \in mails \/ (Pending(op[r]) /\ m.challenge = op[r].challenge),
         issued' \in Nat, issued <= issued',
         Pending(o) => \/ Pending(op[r]) /\ o.challenge = op[r].challenge
                       \/ o.challenge > issued
  PROVE  \A c \in Challenges : Fine(c)' => Fine(c)
<1>1. op'[r] = o /\ \A q \in Requests : q # r => op'[q] = op[q]
  BY SetOp
<1>2. ASSUME NEW d \in 1 .. issued, Sent(d)'
      PROVE  Sent(d)
  <2>1. issued \in Nat
    BY LimitAssumption DEF TypeOK
  <2>2. CASE \E m \in mails' : m.challenge = d
    BY <2>2 DEF Sent
  <2>3. CASE \E q \in Requests : Pending(op'[q]) /\ op'[q].challenge = d
    <3>1. PICK q \in Requests : Pending(op'[q]) /\ op'[q].challenge = d
      BY <2>3
    <3>2. CASE q # r
      BY <1>1, <3>1, <3>2 DEF Sent
    <3>3. CASE q = r
      <4>1. Pending(o) /\ o.challenge = d
        BY <1>1, <3>1, <3>3
      <4>2. ~(d > issued)
        BY <2>1
      <4> QED
        BY <4>1, <4>2 DEF Sent
    <3> QED
      BY <3>2, <3>3
  <2> QED
    BY <1>2, <2>2, <2>3 DEF Sent, Pending
<1> SUFFICES ASSUME NEW c \in Challenges, Fine(c)', NEW d \in c + 1 .. issued
             PROVE  Sent(d)
  BY DEF Fine
<1>3. c \in Nat /\ c >= 1 /\ issued \in Nat
  BY LimitAssumption DEF Challenges, TypeOK
<1>4. d \in 1 .. issued /\ d \in c + 1 .. issued'
  BY <1>3
<1> QED
  BY <1>2, <1>4 DEF Fine

\* A request goes on without claiming an attempt or comparing a code.  What is left
\* to show is that a challenge that comes into the row has spent nothing.
LEMMA GuessKeeps ==
  ASSUME TypeOK, GuessInv, NEW r \in Requests, NEW o \in Ops, Set(r, o),
         UNCHANGED guesses, row' \in Rows,
         \A m \in mails' : m \in mails \/ (Pending(op[r]) /\ m.challenge = op[r].challenge),
         issued' \in Nat, issued <= issued',
         Pending(o) => \/ Pending(op[r]) /\ o.challenge = op[r].challenge
                       \/ o.challenge > issued,
         o.phase # "compare", op[r].phase # "compare",
         Issuing(o) => o.seen.challenge < o.challenge,
         o.phase = "guess" => o.challenge = o.seen.challenge,
         Before(o) => guesses[o.challenge] = 0,
         \/ row' = row
         \/ \A c \in Challenges : row'.challenge = c /\ Fine(c) => Spent(c) = 0
  PROVE  GuessInv'
<1>1. op'[r] = o /\ \A q \in Requests : q # r => op'[q] = op[q]
  BY SetOp
<1>2. \A c \in Challenges : Fine(c)' => Fine(c)
  BY FineBefore
<1>3. ASSUME NEW c \in Challenges
      PROVE  Comparing(c)' = Comparing(c) /\ Spent(c)' = Spent(c)
  <2>1. Comparing(c)' = Comparing(c)
    BY <1>1 DEF Comparing
  <2> QED
    BY <2>1 DEF Spent
<1>4. Accounted'
  <2> SUFFICES ASSUME NEW c \in Challenges, Fine(c)'
               PROVE  /\ Spent(c) <= MaxAttempts
                      /\ row'.challenge = c => Spent(c) <= row'.attempts
    BY <1>3 DEF Accounted
  <2>1. Fine(c) /\ Spent(c) <= MaxAttempts /\ (row.challenge = c => Spent(c) <= row.attempts)
    BY <1>2 DEF GuessInv, Accounted
  <2>2. row'.attempts \in Nat
    BY LimitAssumption DEF Rows
  <2>3. CASE row' = row
    BY <2>1, <2>3
  <2>4. CASE row'.challenge = c /\ Spent(c) = 0
    BY <2>1, <2>2, <2>4
  <2> QED
    BY <2>1, <2>3, <2>4
<1>5. Unspent'
  <2>1. \A c \in Challenges : IsFiniteSet(Comparing(c)')
    BY <1>3 DEF GuessInv, Unspent
  <2>2. \A c \in Challenges : c > issued' => guesses'[c] = 0
    <3>1. issued \in Nat /\ \A c \in Challenges : c \in Nat
      BY LimitAssumption DEF TypeOK, Challenges
    <3> QED
      BY <3>1 DEF GuessInv, Unspent
  <2>3. \A q \in Requests :
          /\ Issuing(op'[q]) => op'[q].seen.challenge < op'[q].challenge
          /\ op'[q].phase = "guess" => op'[q].challenge = op'[q].seen.challenge
          /\ Before(op'[q]) => guesses'[op'[q].challenge] = 0
    BY <1>1 DEF GuessInv, Unspent
  <2> QED
    BY <2>1, <2>2, <2>3 DEF Unspent, Issuing, Before
<1> QED
  BY <1>4, <1>5 DEF GuessInv

\* The same with nothing but the links, the limits and the request changed.
LEMMA GuessQuiet ==
  ASSUME TypeOK, GuessInv, NEW r \in Requests, NEW o \in Ops, Set(r, o),
         UNCHANGED <<row, issued, mails, guesses>>,
         Issuing(o) => o.challenge = op[r].challenge /\ o.seen = op[r].seen,
         Issuing(o) => Issuing(op[r]),
         Before(o) => Before(op[r]),
         Pending(o) => Pending(op[r]),
         o.phase \notin {"guess", "compare"}, op[r].phase # "compare"
  PROVE  GuessInv'
<1>1. /\ Before(o) => Issuing(o)
      /\ Pending(o) => Issuing(o)
  BY DEF Before, Pending, Issuing
<1>2. row' \in Rows /\ issued' \in Nat /\ issued <= issued'
  BY LimitAssumption DEF TypeOK
<1>3. Issuing(o) => o.seen.challenge < o.challenge
  BY DEF GuessInv, Unspent
<1>4. Before(o) => guesses[o.challenge] = 0
  BY <1>1 DEF GuessInv, Unspent
<1> QED
  BY <1>1, <1>2, <1>3, <1>4, GuessKeeps

LEMMA GuessStop ==
  ASSUME TypeOK, GuessInv, NEW r \in Requests, Set(r, Idle),
         UNCHANGED <<row, issued, mails, guesses>>, op[r].phase # "compare"
  PROVE  GuessInv'
<1>1. Idle \in Ops /\ Idle.phase = "idle"
  BY BlankFacts
<1>2. ~Issuing(Idle) /\ ~Before(Idle) /\ ~Pending(Idle)
  BY <1>1 DEF Issuing, Before, Pending
<1> QED
  BY <1>1, <1>2, GuessQuiet

\* From one phase to another on the way to the message, or to the end.
LEMMA GuessGo ==
  ASSUME TypeOK, GuessInv, NEW r \in Requests, NEW phase \in Phases, Go(r, phase),
         UNCHANGED <<row, issued, mails, guesses>>,
         \/ op[r].phase = "claim" /\ phase = "store"
         \/ op[r].phase = "put" /\ phase = "send"
         \/ op[r].phase # "compare" /\ phase \in {"activate", "unlink"}
  PROVE  GuessInv'
<1> DEFINE o == [op[r] EXCEPT !.phase = phase]
<1>1. o \in Ops /\ o.phase = phase /\ o.challenge = op[r].challenge /\ o.seen = op[r].seen
      /\ Set(r, o)
  BY PhaseOfOp DEF Go
<1> HIDE DEF o
<1>2. /\ Issuing(o) => Issuing(op[r])
      /\ Before(o) => Before(op[r])
      /\ Pending(o) => Pending(op[r])
  BY <1>1 DEF Issuing, Before, Pending
<1> QED
  BY <1>1, <1>2, GuessQuiet

LEMMA ReadRegistrationGuess ==
  ASSUME Inv, GuessInv, NEW r \in Requests, ReadRegistration(r)
  PROVE  GuessInv'
<1> DEFINE o == [Idle EXCEPT !.phase = "read", !.at = now, !.challenge = issued + 1,
                             !.seen = row]
<1>1. /\ Set(r, o) /\ UNCHANGED <<row, mails, guesses>> /\ issued < MaxChallenges
      /\ issued' = issued + 1 /\ op[r] = Idle
  BY DEF ReadRegistration
<1>2. TypeOK /\ issued \in Nat /\ issued + 1 \in Challenges /\ issued + 1 > issued
  BY <1>1, LimitAssumption DEF Inv, TypeOK, Challenges
<1>3. o \in Ops /\ o.phase = "read" /\ o.challenge = issued + 1 /\ o.seen = row
  BY <1>2, BlankFacts DEF TypeOK, Ops, Phases
<1> HIDE DEF o
<1>4. row.challenge < issued + 1
  BY <1>2, Numbers DEF Inv, Known
<1>5. guesses[issued + 1] = 0
  BY <1>2 DEF GuessInv, Unspent
<1>6. op[r].phase # "compare"
  BY <1>1, BlankFacts
<1>7. row' \in Rows /\ issued' \in Nat /\ issued <= issued'
  BY <1>1, <1>2 DEF TypeOK
<1> QED
  BY <1>1, <1>2, <1>3, <1>4, <1>5, <1>6, <1>7, GuessKeeps

LEMMA ReadLimitGuess ==
  ASSUME Inv, GuessInv, NEW r \in Requests, ReadLimit(r)
  PROVE  GuessInv'
<1> DEFINE o == [op[r] EXCEPT !.phase = "claim", !.previous = limit]
<1>1. op[r].phase = "read" /\ Set(r, o) /\ UNCHANGED <<row, issued, mails, guesses>> /\ TypeOK
  BY DEF ReadLimit, Inv
<1>2. o \in Ops /\ o.phase = "claim" /\ o.challenge = op[r].challenge /\ o.seen = op[r].seen
  BY <1>1 DEF TypeOK, Ops, Phases
<1> HIDE DEF o
<1>3. Issuing(op[r]) /\ Before(op[r]) /\ Pending(op[r])
  BY <1>1 DEF Issuing, Before, Pending
<1> QED
  BY <1>1, <1>2, <1>3, GuessQuiet

\* Nobody has seen a challenge before it is in the row: nothing of it is spent.
LEMMA StoreChallengeGuess ==
  ASSUME Inv, GuessInv, NEW r \in Requests, StoreChallenge(r)
  PROVE  GuessInv'
<1>1. /\ op[r].phase = "store" /\ UNCHANGED <<issued, mails, guesses>> /\ TypeOK
      /\ row' \in Rows /\ issued \in Nat
  <2>1. row' \in Rows
    BY StoreChallengeKeeps DEF Inv, TypeOK
  <2> QED
    BY <2>1, LimitAssumption DEF StoreChallenge, Inv, TypeOK
<1>2. CASE ~SameChallenge(row, op[r].seen)
  BY <1>1, <1>2, GuessStop DEF StoreChallenge
<1>3. CASE SameChallenge(row, op[r].seen)
  <2> DEFINE o == [op[r] EXCEPT !.phase = "put"]
  <2>1. Set(r, o) /\ row'.challenge = op[r].challenge /\ "put" \in Phases
    BY <1>3 DEF StoreChallenge, Go, Phases
  <2>2. o \in Ops /\ o.phase = "put" /\ o.challenge = op[r].challenge /\ o.seen = op[r].seen
    BY <1>1, <2>1, PhaseOfOp
  <2> HIDE DEF o
  <2>3. /\ Issuing(op[r]) /\ Before(op[r]) /\ Pending(op[r]) /\ ~Before(o)
    BY <1>1, <2>2, PhaseFacts DEF Pending
  <2>4. o.seen.challenge < o.challenge /\ guesses[op[r].challenge] = 0
    BY <2>2, <2>3 DEF GuessInv, Unspent
  <2>5. ASSUME NEW c \in Challenges, row'.challenge = c
        PROVE  Spent(c) = 0
    <3>1. c = op[r].challenge
      BY <2>1, <2>5
    <3>2. \A q \in Requests : q # r => op[q].challenge # c
      BY <2>3, <3>1 DEF Inv, Fresh
    <3>3. Comparing(c) = {}
      BY <1>1, <3>2 DEF Comparing
    <3>4. Cardinality(Comparing(c)) = 0
      BY <3>3, FS_EmptySet
    <3> QED
      BY <2>4, <3>1, <3>4 DEF Spent
  <2>6. issued' \in Nat /\ issued <= issued'
    BY <1>1
  <2> QED
    BY <1>1, <2>1, <2>2, <2>3, <2>4, <2>5, <2>6, GuessKeeps
<1> QED
  BY <1>2, <1>3

LEMMA QueueMailGuess ==
  ASSUME Inv, GuessInv, NEW r \in Requests, QueueMail(r)
  PROVE  GuessInv'
<1> DEFINE o == [op[r] EXCEPT !.phase = "drop"]
           n == [challenge |-> op[r].challenge, at |-> op[r].at]
<1>1. /\ op[r].phase = "send" /\ Set(r, o) /\ mails' = mails \cup {n}
      /\ UNCHANGED <<row, issued, guesses>> /\ TypeOK /\ "drop" \in Phases
  BY DEF QueueMail, Go, Inv, Phases
<1>2. o \in Ops /\ o.phase = "drop" /\ o.challenge = op[r].challenge /\ o.seen = op[r].seen
  BY <1>1, PhaseOfOp
<1>3. n.challenge = op[r].challenge
  OBVIOUS
<1> HIDE DEF o, n
<1>4. /\ Issuing(op[r]) /\ Pending(op[r]) /\ ~Before(o) /\ ~Pending(o)
  BY <1>1, <1>2, PhaseFacts DEF Pending
<1>5. o.seen.challenge < o.challenge
  BY <1>2, <1>4 DEF GuessInv, Unspent
<1>6. \A m \in mails' : m \in mails \/ (Pending(op[r]) /\ m.challenge = op[r].challenge)
  BY <1>1, <1>3, <1>4
<1>7. row' \in Rows /\ issued' \in Nat /\ issued <= issued'
  BY <1>1, LimitAssumption DEF TypeOK
<1> QED
  BY <1>1, <1>2, <1>4, <1>5, <1>6, <1>7, GuessKeeps

LEMMA RefuseMailGuess ==
  ASSUME Inv, GuessInv, NEW r \in Requests, RefuseMail(r)
  PROVE  GuessInv'
<1> DEFINE o == [op[r] EXCEPT !.phase = "undo", !.undo = {"row", "link", "limit"}]
<1>1. op[r].phase = "send" /\ Set(r, o) /\ UNCHANGED <<row, issued, mails, guesses>> /\ TypeOK
  BY DEF RefuseMail, Inv
<1>2. o \in Ops /\ o.phase = "undo" /\ o.challenge = op[r].challenge /\ o.seen = op[r].seen
  BY <1>1 DEF TypeOK, Ops, Phases
<1> HIDE DEF o
<1>3. Issuing(op[r]) /\ ~Before(o) /\ ~Pending(o)
  BY <1>1, <1>2 DEF Issuing, Before, Pending
<1> QED
  BY <1>1, <1>2, <1>3, GuessQuiet

LEMMA RepairGuess ==
  ASSUME Inv, GuessInv, NEW r \in Requests, NEW what, Repair(r, what),
         UNCHANGED <<issued, mails, guesses>>, row' \in Rows,
         \/ row' = row
         \/ \A c \in Challenges : row'.challenge = c => ~Fine(c)
  PROVE  GuessInv'
<1>1. op[r].phase = "undo"
  BY RepairOp
<1>2. PICK o \in Ops :
        /\ Set(r, o)
        /\ \/ o = Idle
           \/ /\ o.phase = "undo" /\ o.challenge = op[r].challenge
              /\ o.seen = op[r].seen /\ o.undo = op[r].undo \ {what}
  BY RepairOp
<1>3. o.phase \in {"idle", "undo"} /\ (o.phase = "undo" =>
        o.challenge = op[r].challenge /\ o.seen = op[r].seen)
  BY <1>2, BlankFacts
<1>4. /\ ~Before(o) /\ ~Pending(o) /\ Issuing(op[r])
      /\ Issuing(o) => o.phase = "undo"
  BY <1>1, <1>3 DEF Before, Pending, Issuing
<1>5. Issuing(o) => o.seen.challenge < o.challenge
  BY <1>3, <1>4 DEF GuessInv, Unspent
<1>6. TypeOK /\ issued' \in Nat /\ issued <= issued'
  BY LimitAssumption DEF Inv, TypeOK
<1> QED
  BY <1>1, <1>2, <1>3, <1>4, <1>5, <1>6, GuessKeeps

\* The row is set back only by a request whose message was refused.
LEMMA RestoreRowGuess ==
  ASSUME Inv, GuessInv, NEW r \in Requests, RestoreRow(r)
  PROVE  GuessInv'
<1>1. /\ Repair(r, "row") /\ UNCHANGED <<issued, mails, guesses>>
      /\ row' = IF StillMine(r) THEN op[r].seen ELSE row
  BY DEF RestoreRow
<1>2. op[r].phase = "undo" /\ row' \in Rows
  BY <1>1, RepairOp, RestoreRowKeeps DEF Inv, TypeOK
<1>3. Issuing(op[r]) /\ Unsent(op[r])
  BY <1>2, PhaseFacts
<1>4. ~Fine(op[r].seen.challenge)
  <2>1. op[r].seen.challenge < op[r].challenge /\ op[r].challenge <= issued
    BY <1>3 DEF GuessInv, Unspent, Inv, Known
  <2>2. op[r].challenge \in op[r].seen.challenge + 1 .. issued
    BY <2>1, Numbers DEF Inv
  <2>3. \A m \in mails : m.challenge # op[r].challenge
    BY <1>3 DEF Inv, Unmailed
  <2>4. \A q \in Requests : Pending(op[q]) => op[q].challenge # op[r].challenge
    <3>1. ~Pending(op[r]) /\ \A q \in Requests : Pending(op[q]) => Issuing(op[q])
      BY <1>2 DEF Pending, Issuing
    <3> QED
      BY <1>3, <3>1 DEF Inv, Apart
  <2> QED
    BY <2>2, <2>3, <2>4 DEF Fine, Sent
<1> QED
  BY <1>1, <1>2, <1>4, RepairGuess

LEMMA ReadCodeGuess ==
  ASSUME Inv, GuessInv, NEW r \in Requests, ReadCode(r)
  PROVE  GuessInv'
<1> DEFINE o == [Idle EXCEPT !.phase = "guess", !.challenge = row.challenge, !.seen = row]
<1>1. Set(r, o) /\ op[r] = Idle /\ UNCHANGED <<row, issued, mails, guesses>> /\ TypeOK
  BY DEF ReadCode, Inv
<1>2. row.challenge \in {0} \cup Challenges /\ row \in Rows /\ "guess" \in Phases
  BY <1>1 DEF TypeOK, Rows, Phases
<1>3. o \in Ops /\ o.phase = "guess" /\ o.challenge = row.challenge /\ o.seen = row
  BY <1>2, BlankFacts DEF Ops
<1> HIDE DEF o
<1>4. ~Issuing(o) /\ ~Before(o) /\ ~Pending(o) /\ op[r].phase # "compare"
  BY <1>1, <1>3, BlankFacts DEF Issuing, Before, Pending
<1>5. row' \in Rows /\ issued' \in Nat /\ issued <= issued'
  BY <1>1, LimitAssumption DEF TypeOK
<1>6. o.phase # "compare" /\ o.challenge = o.seen.challenge
  BY <1>3
<1> QED
  BY <1>1, <1>3, <1>4, <1>5, <1>6, GuessKeeps

\* The attempt is counted in the row before the code is compared.
LEMMA ClaimAttemptGuess ==
  ASSUME Inv, GuessInv, NEW r \in Requests, ClaimAttempt(r)
  PROVE  GuessInv'
<1>1. op[r].phase = "guess" /\ UNCHANGED <<issued, mails, guesses>> /\ TypeOK /\ issued \in Nat
  BY LimitAssumption DEF ClaimAttempt, Inv, TypeOK
<1>2. CASE ~AttemptFree(r)
  BY <1>1, <1>2, GuessStop DEF ClaimAttempt
<1>3. CASE AttemptFree(r)
  <2> DEFINE o == [op[r] EXCEPT !.phase = "compare"]
  <2>1. /\ Set(r, o) /\ row' = [row EXCEPT !.attempts = row.attempts + 1]
        /\ row.attempts < MaxAttempts /\ row.challenge = op[r].seen.challenge
        /\ "compare" \in Phases
    BY <1>3 DEF ClaimAttempt, AttemptFree, SameChallenge, Go, Phases
  <2>2. o \in Ops /\ o.phase = "compare" /\ o.challenge = op[r].challenge
    BY <1>1, <2>1, PhaseOfOp
  <2> HIDE DEF o
  <2>3. op'[r] = o /\ \A q \in Requests : q # r => op'[q] = op[q]
    BY <1>1, <2>1, <2>2, SetOp
  <2>4. ~Issuing(o) /\ ~Before(o) /\ ~Pending(o)
    BY <2>2 DEF Issuing, Before, Pending
  <2>5. row' \in Rows /\ row'.challenge = row.challenge /\ row'.attempts = row.attempts + 1
        /\ row.attempts \in Nat
    <3>1. row \in Rows
      BY <1>1 DEF TypeOK
    <3>2. row.attempts + 1 \in 0 .. MaxAttempts /\ row.attempts \in Nat
      BY <2>1, <3>1, LimitAssumption DEF Rows
    <3> QED
      BY <2>1, <3>1, <3>2 DEF Rows
  <2>6. row.challenge = op[r].challenge
    BY <1>1, <2>1 DEF GuessInv, Unspent
  <2>7. \A c \in Challenges : Fine(c)' => Fine(c)
    BY <1>1, <2>1, <2>2, <2>4, FineBefore
  <2>8. ASSUME NEW c \in Challenges, c # row.challenge
        PROVE  Comparing(c)' = Comparing(c) /\ Spent(c)' = Spent(c)
    <3>1. Comparing(c)' = Comparing(c)
      BY <1>1, <2>2, <2>3, <2>6, <2>8 DEF Comparing
    <3> QED
      BY <1>1, <3>1 DEF Spent
  <2>9. ASSUME NEW c \in Challenges, c = row.challenge
        PROVE  IsFiniteSet(Comparing(c)') /\ Spent(c)' = Spent(c) + 1
    <3>1. Comparing(c)' = Comparing(c) \cup {r} /\ r \notin Comparing(c)
      BY <1>1, <2>2, <2>3, <2>6, <2>9 DEF Comparing
    <3>2. /\ IsFiniteSet(Comparing(c)) /\ Cardinality(Comparing(c)) \in Nat
          /\ guesses[c] \in Nat /\ Spent(c) = guesses[c] + Cardinality(Comparing(c))
      BY <1>1, SpentType DEF GuessInv
    <3>3. IsFiniteSet(Comparing(c)') /\ Cardinality(Comparing(c)') = Cardinality(Comparing(c)) + 1
      BY <3>1, <3>2, FS_AddElement
    <3>4. Spent(c)' = guesses[c] + Cardinality(Comparing(c)')
      BY <1>1 DEF Spent
    <3> QED
      BY <3>2, <3>3, <3>4
  <2>10. Accounted'
    <3> SUFFICES ASSUME NEW c \in Challenges, Fine(c)'
                 PROVE  /\ Spent(c)' <= MaxAttempts
                        /\ row'.challenge = c => Spent(c)' <= row'.attempts
      BY DEF Accounted
    <3>1. /\ Spent(c) <= MaxAttempts /\ (row.challenge = c => Spent(c) <= row.attempts)
          /\ Spent(c) \in Nat
      BY <1>1, <2>7, SpentType DEF GuessInv, Accounted
    <3>2. CASE c # row.challenge
      BY <2>5, <2>8, <3>1, <3>2
    <3>3. CASE c = row.challenge
      BY <2>1, <2>5, <2>9, <3>1, <3>3, LimitAssumption
    <3> QED
      BY <3>2, <3>3
  <2>11. Unspent'
    <3>1. \A c \in Challenges : IsFiniteSet(Comparing(c)')
      BY <2>8, <2>9 DEF GuessInv, Unspent
    <3>2. \A c \in Challenges : c > issued' => guesses'[c] = 0
      BY <1>1 DEF GuessInv, Unspent
    <3>3. \A q \in Requests :
            /\ Issuing(op'[q]) => op'[q].seen.challenge < op'[q].challenge
            /\ op'[q].phase = "guess" => op'[q].challenge = op'[q].seen.challenge
            /\ Before(op'[q]) => guesses'[op'[q].challenge] = 0
      BY <1>1, <2>2, <2>3, <2>4 DEF GuessInv, Unspent
    <3> QED
      BY <3>1, <3>2, <3>3 DEF Unspent, Issuing, Before
  <2> QED
    BY <2>10, <2>11 DEF GuessInv
<1> QED
  BY <1>2, <1>3

\* The comparison uses up what was claimed.
LEMMA CompareCodeGuess ==
  ASSUME Inv, GuessInv, NEW r \in Requests, NEW right \in BOOLEAN, CompareCode(r, right)
  PROVE  GuessInv'
<1>1. /\ op[r].phase = "compare" /\ UNCHANGED <<row, issued, mails>> /\ TypeOK
      /\ guesses' = [guesses EXCEPT ![op[r].challenge] = guesses[op[r].challenge] + 1]
      /\ issued \in Nat
  BY LimitAssumption DEF CompareCode, Inv, TypeOK
<1>2. PICK o \in Ops : Set(r, o) /\ o.phase \in {"idle", "activate"}
  <2>1. CASE right
    <3>1. Set(r, [op[r] EXCEPT !.phase = "activate"]) /\ "activate" \in Phases
      BY <2>1 DEF CompareCode, Go, Phases
    <3> QED
      BY <1>1, <3>1, PhaseOfOp
  <2>2. CASE ~right
    BY <2>2, BlankFacts DEF CompareCode
  <2> QED
    BY <2>1, <2>2
<1>3. op'[r] = o /\ \A q \in Requests : q # r => op'[q] = op[q]
  BY <1>1, <1>2, SetOp
<1>4. ~Issuing(o) /\ ~Before(o) /\ ~Pending(o) /\ o.phase # "compare" /\ o.phase # "guess"
  BY <1>2 DEF Issuing, Before, Pending
<1>5. \A c \in Challenges : Fine(c)' => Fine(c)
  BY <1>1, <1>2, <1>4, FineBefore
<1>6. ASSUME NEW c \in Challenges, c # op[r].challenge
      PROVE  /\ Comparing(c)' = Comparing(c) /\ guesses'[c] = guesses[c]
             /\ Spent(c)' = Spent(c)
  <2>1. Comparing(c)' = Comparing(c)
    BY <1>1, <1>3, <1>4, <1>6 DEF Comparing
  <2>2. guesses'[c] = guesses[c]
    BY <1>1, <1>6 DEF TypeOK
  <2> QED
    BY <2>1, <2>2 DEF Spent
<1>7. ASSUME NEW c \in Challenges, c = op[r].challenge
      PROVE  IsFiniteSet(Comparing(c)') /\ Spent(c)' = Spent(c)
  <2>1. Comparing(c)' = Comparing(c) \ {r} /\ r \in Comparing(c)
    BY <1>1, <1>3, <1>4, <1>7 DEF Comparing
  <2>2. /\ IsFiniteSet(Comparing(c)) /\ Cardinality(Comparing(c)) \in Nat
        /\ guesses[c] \in Nat /\ Spent(c) = guesses[c] + Cardinality(Comparing(c))
    BY <1>1, SpentType DEF GuessInv
  <2>3. IsFiniteSet(Comparing(c)') /\ Cardinality(Comparing(c)') = Cardinality(Comparing(c)) - 1
    BY <2>1, <2>2, FS_RemoveElement
  <2>4. guesses'[c] = guesses[c] + 1
    BY <1>1, <1>7 DEF TypeOK
  <2>5. Spent(c)' = guesses'[c] + Cardinality(Comparing(c)')
    BY DEF Spent
  <2> QED
    BY <2>2, <2>3, <2>4, <2>5
<1>8. Accounted'
  BY <1>1, <1>5, <1>6, <1>7 DEF GuessInv, Accounted
<1>9. Unspent'
  <2>1. \A c \in Challenges : IsFiniteSet(Comparing(c)')
    BY <1>6, <1>7 DEF GuessInv, Unspent
  <2>2. op[r].challenge <= issued /\ op[r].challenge \in Nat
    BY Numbers DEF Inv, Known
  <2>3. \A c \in Challenges : c > issued' => guesses'[c] = 0
    <3>1. \A c \in Challenges : c > issued => c # op[r].challenge
      BY <1>1, <2>2
    <3> QED
      BY <1>1, <1>6, <3>1 DEF GuessInv, Unspent
  <2>4. ASSUME NEW q \in Requests, Before(op'[q])
        PROVE  guesses'[op'[q].challenge] = 0
    <3>1. q # r /\ op'[q] = op[q] /\ Before(op[q])
      BY <1>3, <1>4, <2>4
    <3>2. op[q].challenge # op[r].challenge /\ guesses[op[q].challenge] = 0
      BY <3>1 DEF Inv, Fresh, GuessInv, Unspent
    <3>3. op[q].challenge >= 1 /\ op[q].challenge \in {0} \cup Challenges
      BY <1>1, <3>1, PhaseFacts DEF TypeOK, Ops, Inv, Known, Before, Issuing
    <3>4. op[q].challenge \in Challenges
      BY <3>3
    <3> QED
      BY <1>6, <3>1, <3>2, <3>4
  <2>5. \A q \in Requests :
          /\ Issuing(op'[q]) => op'[q].seen.challenge < op'[q].challenge
          /\ op'[q].phase = "guess" => op'[q].challenge = op'[q].seen.challenge
    BY <1>3, <1>4 DEF GuessInv, Unspent
  <2> QED
    BY <2>1, <2>3, <2>4, <2>5 DEF Unspent, Issuing, Before
<1> QED
  BY <1>8, <1>9 DEF GuessInv

\* An activation or a lapse leaves no challenge in the row.
LEMMA EndGuess ==
  ASSUME Inv, GuessInv, NEW r \in Requests, Activate(r) \/ LapseRow(r)
  PROVE  GuessInv'
<1>1. /\ op[r].phase \in {"activate", "lapse"} /\ UNCHANGED <<issued, mails, guesses>>
      /\ Go(r, "unlink") \/ Set(r, Idle)
      /\ row' = row \/ row' = Blank("active") \/ row' = Blank("awaiting_confirmation")
  BY DEF Activate, LapseRow
<1>2. TypeOK /\ issued' \in Nat /\ issued <= issued' /\ "unlink" \in Phases
  BY <1>1, LimitAssumption DEF Inv, TypeOK, Phases
<1>3. PICK o \in Ops : Set(r, o) /\ o.phase \in {"idle", "unlink"}
  <2>1. CASE Go(r, "unlink")
    BY <1>2, <2>1, PhaseOfOp DEF Go
  <2>2. CASE Set(r, Idle)
    BY <2>2, BlankFacts
  <2> QED
    BY <1>1, <2>1, <2>2
<1>4. ~Issuing(o) /\ ~Before(o) /\ ~Pending(o) /\ o.phase # "compare" /\ o.phase # "guess"
  BY <1>3 DEF Issuing, Before, Pending
<1>5. row' = row \/ (row' \in Rows /\ row'.challenge = 0)
  BY <1>1, BlankFacts
<1>6. row' \in Rows /\ (row' = row \/ \A c \in Challenges : row'.challenge # c)
  BY <1>2, <1>5 DEF Challenges, TypeOK
<1> QED
  BY <1>1, <1>2, <1>3, <1>4, <1>6, GuessKeeps

LEMMA FollowLinkGuess ==
  ASSUME Inv, GuessInv, NEW r \in Requests, NEW c \in Challenges, FollowLink(r, c)
  PROVE  GuessInv'
<1> DEFINE o == [Idle EXCEPT !.phase = "activate", !.challenge = c]
<1>1. Set(r, o) /\ op[r] = Idle /\ UNCHANGED <<row, issued, mails, guesses>> /\ TypeOK
  BY DEF FollowLink, Inv
<1>2. o \in Ops /\ o.phase = "activate"
  BY BlankFacts DEF Ops, Phases
<1> HIDE DEF o
<1>3. ~Issuing(o) /\ ~Before(o) /\ ~Pending(o) /\ op[r].phase # "compare"
  BY <1>1, <1>2, BlankFacts DEF Issuing, Before, Pending
<1> QED
  BY <1>1, <1>2, <1>3, GuessQuiet

LEMMA ReadStatusGuess ==
  ASSUME Inv, GuessInv, NEW r \in Requests, ReadStatus(r)
  PROVE  GuessInv'
<1> DEFINE o == [Idle EXCEPT !.phase = "lapse", !.challenge = row.challenge]
<1>1. Set(r, o) /\ op[r] = Idle /\ UNCHANGED <<row, issued, mails, guesses>> /\ TypeOK
  BY DEF ReadStatus, Inv
<1>2. row.challenge \in {0} \cup Challenges /\ "lapse" \in Phases
  BY <1>1 DEF TypeOK, Rows, Phases
<1>3. o \in Ops /\ o.phase = "lapse"
  BY <1>2, BlankFacts DEF Ops
<1> HIDE DEF o
<1>4. ~Issuing(o) /\ ~Before(o) /\ ~Pending(o) /\ op[r].phase # "compare"
  BY <1>1, <1>3, BlankFacts DEF Issuing, Before, Pending
<1> QED
  BY <1>1, <1>3, <1>4, GuessQuiet

LEMMA NextGuess == Inv /\ GuessInv /\ [Next]_vars => GuessInv'
<1> SUFFICES ASSUME Inv, GuessInv, [Next]_vars
             PROVE  GuessInv'
  OBVIOUS
<1>1. TypeOK /\ {"store", "send"} \subseteq Phases
  BY DEF Inv, Phases
<1>2. ASSUME NEW r \in Requests, ClaimDelivery(r)
      PROVE  GuessInv'
  BY <1>1, <1>2, GuessGo, GuessStop DEF ClaimDelivery
<1>3. ASSUME NEW r \in Requests, PutLink(r)
      PROVE  GuessInv'
  BY <1>1, <1>3, GuessGo DEF PutLink
<1>4. ASSUME NEW r \in Requests, DropNewLink(r) \/ RestoreLimit(r)
      PROVE  GuessInv'
  <2>1. row' = row /\ row' \in Rows
    BY <1>1, <1>4 DEF DropNewLink, RestoreLimit, TypeOK
  <2> QED
    BY <1>4, <2>1, RepairGuess DEF DropNewLink, RestoreLimit
<1>5. ASSUME NEW r \in Requests, DropOldLink(r) \/ Abandon(r) \/ Unlink(r)
      PROVE  GuessInv'
  BY <1>1, <1>5, GuessStop DEF DropOldLink, Abandon, Unlink
<1>6. ASSUME NEW r \in Requests, IssueStep(r)
      PROVE  GuessInv'
  BY <1>2, <1>3, <1>4, <1>5, <1>6, ReadRegistrationGuess, ReadLimitGuess,
     StoreChallengeGuess, QueueMailGuess, RefuseMailGuess, RestoreRowGuess DEF IssueStep
<1>7. ASSUME NEW r \in Requests, VerifyStep(r) \/ StatusStep(r)
      PROVE  GuessInv'
  BY <1>5, <1>7, ReadCodeGuess, ClaimAttemptGuess, CompareCodeGuess, FollowLinkGuess,
     EndGuess, ReadStatusGuess DEF VerifyStep, StatusStep
<1>8. CASE Tick \/ UNCHANGED vars
  BY <1>8 DEF Tick, vars, GuessInv, Accounted, Unspent, Fine, Sent, Spent, Comparing,
              Pending, Issuing, Before
<1> QED
  BY <1>6, <1>7, <1>8 DEF Next

LEMMA InitGuess == Init => GuessInv
<1> SUFFICES ASSUME Init
             PROVE  GuessInv
  OBVIOUS
<1>1. /\ \A r \in Requests : /\ op[r].phase = "idle" /\ ~Issuing(op[r]) /\ ~Before(op[r])
      /\ \A c \in Challenges : guesses[c] = 0
      /\ row.challenge = 0
  BY BlankFacts DEF Init, Issuing, Before
<1>2. ASSUME NEW c \in Challenges
      PROVE  IsFiniteSet(Comparing(c)) /\ Spent(c) = 0
  <2>1. Comparing(c) = {}
    BY <1>1 DEF Comparing
  <2> QED
    BY <1>1, <2>1, FS_EmptySet DEF Spent
<1>3. \A c \in Challenges : Spent(c) <= MaxAttempts /\ row.challenge # c
  BY <1>1, <1>2, LimitAssumption DEF Challenges
<1> QED
  BY <1>1, <1>2, <1>3 DEF GuessInv, Accounted, Unspent

\* Parallel guesses, lapses and challenges that keep the count of their predecessor
\* add no attempts: as long as every later message was queued, the code of a
\* challenge is compared no more often than the limit allows.
THEOREM GuessesLimited == Spec => []GuessesBoundedUntilRefused
<1>1. Inv /\ GuessInv => GuessesBoundedUntilRefused
  <2> SUFFICES ASSUME Inv, GuessInv, NEW c \in Challenges,
                      \A d \in c + 1 .. issued : \E m \in mails : m.challenge = d
               PROVE  guesses[c] <= MaxAttempts
    BY DEF GuessesBoundedUntilRefused
  <2>1. Fine(c)
    BY DEF Fine, Sent
  <2>2. /\ Spent(c) <= MaxAttempts /\ guesses[c] \in Nat
        /\ Cardinality(Comparing(c)) \in Nat
        /\ Spent(c) = guesses[c] + Cardinality(Comparing(c))
    BY <2>1, SpentType DEF Inv, GuessInv, Accounted
  <2> QED
    BY <2>2, LimitAssumption
<1>2. Init => GuessInv
  BY InitGuess
<1>3. Inv /\ GuessInv /\ [Next]_vars => GuessInv'
  BY NextGuess
<1> QED
  BY <1>1, <1>2, <1>3, SpecInv, PTL DEF Spec

================================================================================
