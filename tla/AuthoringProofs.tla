--------------------------- MODULE AuthoringProofs ---------------------------
(***************************************************************************)
(* Proofs about Authoring, for any accounts, replies, media, texts and     *)
(* workers: the types, that the edit history is true, that every upload is *)
(* accounted for, that the counters of replies are the numbers of their    *)
(* rows and that hashtags and mentions follow the text; and that what      *)
(* InteractionsProofs shows of favourites, boosts and votes holds while    *)
(* replies are written.                                                    *)
(***************************************************************************)
EXTENDS Authoring, InteractionsProofs

WorkPhases == {"claiming", "releasing", "absent", "inserted", "counted", "read", "updated",
               "attaching", "tagging", "tagsRead", "tagged", "cleared", "mentioned",
               "found", "removed", "queued"}

MediaType ==
  /\ owner \in [Media -> Locals \cup {None}]
  /\ holder \in [Media -> Replies \cup {None}]

RowType ==
  /\ writer \in [Replies -> Actors \cup {None}]
  /\ shown \subseteq {i \in Replies : writer[i] # None}
  /\ replies \in Nat
  /\ written \in [Locals -> Nat]

TextType ==
  /\ text \in [Replies -> Texts \cup {None}]
  /\ \A i \in Replies : text[i] = None <=> writer[i] = None
  /\ terms \in [Replies -> SUBSET Terms]
  /\ known \subseteq Tags
  /\ snapshots \in [Replies -> SUBSET Texts] /\ past \in [Replies -> SUBSET Texts]

NoteType ==
  /\ miscounted \in BOOLEAN
  /\ unfinished \subseteq Replies /\ overlapped \subseteq Replies /\ skipped \subseteq Replies

WorkType == work \in [Workers -> Works \cup {NoWork}]

\* A task is of a kind its account can have and has the text it needs; the reply
\* it edits or removes is its account's.
Proper(w) == Doing(w) =>
  /\ work[w].kind \in OwnKinds => By(w) \in Locals
  /\ work[w].kind \in SentKinds => By(w) \in Remotes
  /\ work[w].kind \in {"reply", "edit", "inReply"} => work[w].text \in Texts
  /\ work[w].kind = "edit" => work[w].seen \in Texts
  /\ work[w].kind \in {"edit", "deleteReply", "inDeleteReply"} => writer[Of(w)] = By(w)

\* A createStatus has its reply to itself until it inserts the row.
Sole(w) == Doing(w) /\ work[w].kind = "reply" =>
  IF work[w].phase \in {"claiming", "releasing"}
    THEN /\ writer[Of(w)] = None
         /\ \A v \in Workers : Doing(v) /\ Of(v) = Of(w) => v = w
    ELSE writer[Of(w)] = By(w)

Typed ==
  /\ MediaType /\ RowType /\ TextType /\ NoteType /\ WorkType
  /\ \A w \in Workers : Proper(w) /\ Sole(w)

LEMMA AuthoringTypeParts ==
  AuthoringTypeOK <=> TypeOK /\ MediaType /\ RowType /\ TextType /\ NoteType /\ WorkType
BY DEF AuthoringTypeOK, MediaType, RowType, TextType, NoteType, WorkType

-----------------------------------------------------------------------------
(* What a step does to the task of its worker *)

LEMMA DoingWork ==
  ASSUME WorkType, NEW w \in Workers
  PROVE  /\ Doing(w) <=> work[w] \in Works
         /\ Doing(w) => By(w) \in Actors /\ Of(w) \in Replies /\ work[w] \in Works
BY DEF WorkType, Doing, Works, NoWork, OwnKinds, SentKinds, By, Of

\* The task goes on for the same reply, or ends.
Kept(w) ==
  /\ Doing(w) /\ work[w] \in Works
  /\ work' \in [Workers -> Works \cup {NoWork}]
  /\ \A v \in Workers : v # w => work'[v] = work[v]
  /\ work'[w] # NoWork =>
       /\ work'[w] \in Works /\ work'[w].kind = work[w].kind /\ work'[w].actor = work[w].actor
       /\ work'[w].id = work[w].id /\ work'[w].text = work[w].text
       /\ work'[w].seen = work[w].seen

\* It goes on at `phase` with everything else as it was.
To(w, phase) ==
  /\ Kept(w) /\ Doing(w)' /\ work'[w] \in Works
  /\ work'[w].kind = work[w].kind /\ By(w)' = By(w) /\ Of(w)' = Of(w)
  /\ work'[w].phase = phase
  /\ work'[w].files = work[w].files /\ work'[w].claimed = work[w].claimed
  /\ work'[w].todo = work[w].todo /\ work'[w].batch = work[w].batch
  /\ work'[w].missing = work[w].missing

LEMMA ProceedWork ==
  ASSUME WorkType, NEW w \in Workers, Doing(w), NEW phase \in WorkPhases, Proceed(w, phase)
  PROVE  To(w, phase)
<1>1. work \in [Workers -> Works \cup {NoWork}] /\ work[w] \in Works
  BY DoingWork DEF WorkType
<1>2. [work[w] EXCEPT !.phase = phase] \in Works /\ NoWork \notin Works
  BY <1>1 DEF Works, WorkPhases, NoWork, OwnKinds, SentKinds
<1>3. /\ work' \in [Workers -> Works \cup {NoWork}]
      /\ work'[w] = [work[w] EXCEPT !.phase = phase]
      /\ \A v \in Workers : v # w => work'[v] = work[v]
  BY <1>1, <1>2 DEF Proceed
<1>4. /\ work'[w].kind = work[w].kind /\ work'[w].actor = work[w].actor
      /\ work'[w].id = work[w].id /\ work'[w].text = work[w].text
      /\ work'[w].seen = work[w].seen /\ work'[w].phase = phase
      /\ work'[w].files = work[w].files /\ work'[w].claimed = work[w].claimed
      /\ work'[w].todo = work[w].todo /\ work'[w].batch = work[w].batch
      /\ work'[w].missing = work[w].missing
  BY <1>1, <1>3 DEF Works
<1> QED
  BY <1>1, <1>2, <1>3, <1>4 DEF To, Kept, Doing, By, Of

LEMMA FinishWork ==
  ASSUME WorkType, NEW w \in Workers, Doing(w), Finish(w)
  PROVE  Kept(w) /\ ~Doing(w)' /\ work'[w] = NoWork
BY DoingWork DEF WorkType, Finish, Kept, Doing

\* A claim, an attachment, a look at the hashtags.
LEMMA FilesWork ==
  ASSUME WorkType, NEW w \in Workers, Doing(w), NEW F \in SUBSET Media, NEW C \in SUBSET Media,
         work' = [work EXCEPT ![w] = [work[w] EXCEPT !.files = F, !.claimed = C]]
  PROVE  /\ Kept(w) /\ Doing(w)' /\ work'[w] \in Works
         /\ work'[w].phase = work[w].phase /\ work'[w].files = F /\ work'[w].claimed = C
<1>1. work \in [Workers -> Works \cup {NoWork}] /\ work[w] \in Works
  BY DoingWork DEF WorkType
<1>2. [work[w] EXCEPT !.files = F, !.claimed = C] \in Works /\ NoWork \notin Works
  BY <1>1 DEF Works, NoWork, OwnKinds, SentKinds
<1>3. /\ work' \in [Workers -> Works \cup {NoWork}]
      /\ work'[w] = [work[w] EXCEPT !.files = F, !.claimed = C]
      /\ \A v \in Workers : v # w => work'[v] = work[v]
  BY <1>1, <1>2
<1>4. /\ work'[w].kind = work[w].kind /\ work'[w].actor = work[w].actor
      /\ work'[w].id = work[w].id /\ work'[w].text = work[w].text
      /\ work'[w].seen = work[w].seen /\ work'[w].phase = work[w].phase
      /\ work'[w].files = F /\ work'[w].claimed = C
  BY <1>1, <1>3 DEF Works
<1> QED
  BY <1>1, <1>2, <1>3, <1>4 DEF Kept, Doing

LEMMA TagsWork ==
  ASSUME WorkType, NEW w \in Workers, Doing(w), NEW phase \in WorkPhases,
         NEW T \in SUBSET Tags, NEW B \in SUBSET Tags, NEW M \in SUBSET Tags,
         work' = [work EXCEPT ![w] =
                   [work[w] EXCEPT !.phase = phase, !.todo = T, !.batch = B, !.missing = M]]
  PROVE  /\ Kept(w) /\ Doing(w)' /\ work'[w] \in Works
         /\ work'[w].phase = phase /\ work'[w].claimed = work[w].claimed
         /\ work'[w].files = work[w].files
         /\ work'[w].todo = T /\ work'[w].batch = B /\ work'[w].missing = M
<1> DEFINE n == [work[w] EXCEPT !.phase = phase, !.todo = T, !.batch = B, !.missing = M]
<1>1. work \in [Workers -> Works \cup {NoWork}] /\ work[w] \in Works
  BY DoingWork DEF WorkType
<1>2. n \in Works /\ NoWork \notin Works
  BY <1>1 DEF Works, WorkPhases, NoWork, OwnKinds, SentKinds
<1>3. /\ work' \in [Workers -> Works \cup {NoWork}]
      /\ work'[w] = n
      /\ \A v \in Workers : v # w => work'[v] = work[v]
  BY <1>1, <1>2
<1>4. /\ n.kind = work[w].kind /\ n.actor = work[w].actor
      /\ n.id = work[w].id /\ n.text = work[w].text
      /\ n.seen = work[w].seen /\ n.phase = phase
      /\ n.files = work[w].files /\ n.claimed = work[w].claimed
      /\ n.todo = T /\ n.batch = B /\ n.missing = M
  BY <1>1 DEF Works
<1> QED
  BY <1>1, <1>2, <1>3, <1>4 DEF Kept, Doing

\* A createStatus that has not inserted its row.
Early(w) == work[w].kind = "reply" /\ work[w].phase \in {"claiming", "releasing"}

WorkStep(w) ==
  CreateStep(w) \/ EditStep(w) \/ RemoveReply(w) \/ UncountReply(w) \/ Interrupt(w) \/ Retry(w)

\* Only the insertion of its row makes a createStatus stop being early.
Onwards(w) == Kept(w) /\ (work'[w] # NoWork => (Early(w)' <=> Early(w) /\ ~InsertReply(w)))

LEMMA OnwardsTo ==
  ASSUME NEW w \in Workers, NEW phase, To(w, phase),
         Early(w) /\ ~InsertReply(w) => phase \in {"claiming", "releasing"},
         phase \in {"claiming", "releasing"} => Early(w) /\ ~InsertReply(w)
  PROVE  Onwards(w)
BY DEF To, Onwards, Early

LEMMA OnwardsFinish ==
  ASSUME WorkType, NEW w \in Workers, Doing(w), Finish(w)
  PROVE  Onwards(w)
BY FinishWork DEF Onwards

\* A task that changed neither its phase nor its kind.
LEMMA OnwardsStay ==
  ASSUME NEW w \in Workers, Kept(w), work'[w] \in Works, work'[w].phase = work[w].phase,
         ~InsertReply(w)
  PROVE  Onwards(w)
BY DEF Kept, Onwards, Early, Works, NoWork

LEMMA OnwardsLate ==
  ASSUME NEW w \in Workers, Kept(w), work'[w] # NoWork, ~Early(w),
         work'[w].phase \notin {"claiming", "releasing"}
  PROVE  Onwards(w)
BY DEF Onwards, Early

LEMMA ProceedOnwards ==
  ASSUME WorkType, NEW w \in Workers, Doing(w), NEW phase \in WorkPhases, Proceed(w, phase),
         Early(w) /\ ~InsertReply(w) => phase \in {"claiming", "releasing"},
         phase \in {"claiming", "releasing"} => Early(w) /\ ~InsertReply(w)
  PROVE  Onwards(w)
BY ProceedWork, OnwardsTo

\* NextTag as one assignment.
LEMMA NextTagWork ==
  ASSUME WorkType, NEW w \in Workers, Doing(w), NEW T \in SUBSET Tags, NextTag(w, T)
  PROVE  /\ Kept(w)
         /\ T = {} => work'[w] = NoWork
         /\ T # {} => /\ work'[w] \in Works /\ Doing(w)' /\ work'[w].phase = "tagging"
                      /\ work'[w].todo = T /\ work'[w].claimed = work[w].claimed
                      /\ work'[w].batch = {} /\ work'[w].missing = {}
<1>1. CASE T = {}
  BY <1>1, FinishWork DEF NextTag
<1>2. CASE T # {}
  <2> DEFINE n == [work[w] EXCEPT !.phase = "tagging", !.todo = T, !.batch = {}, !.missing = {}]
  <2>1. work[w] \in Works /\ work \in [Workers -> Works \cup {NoWork}] /\ NoWork \notin Works
    BY DoingWork DEF WorkType, Works, NoWork, OwnKinds, SentKinds
  <2>2. n \in Works
    BY <2>1 DEF Works
  <2>3. /\ n.kind = work[w].kind /\ n.actor = work[w].actor /\ n.id = work[w].id
        /\ n.text = work[w].text /\ n.seen = work[w].seen
        /\ n.phase = "tagging" /\ n.todo = T /\ n.claimed = work[w].claimed
        /\ n.batch = {} /\ n.missing = {}
    BY <2>1 DEF Works
  <2>4. work' = [work EXCEPT ![w] = n]
    BY <1>2, <2>1 DEF NextTag
  <2> HIDE DEF n
  <2>5. work' \in [Workers -> Works \cup {NoWork}] /\ work'[w] = n
        /\ \A v \in Workers : v # w => work'[v] = work[v]
    BY <2>1, <2>2, <2>4
  <2>6. Kept(w) /\ Doing(w)' /\ work'[w] \in Works
    BY <2>1, <2>2, <2>3, <2>5 DEF Kept, Doing
  <2> QED
    BY <1>2, <2>3, <2>5, <2>6
<1> QED
  BY <1>1, <1>2

LEMMA CreateStepWork ==
  ASSUME WorkType, NEW w \in Workers, CreateStep(w)
  PROVE  Onwards(w)
<1>1. Doing(w) /\ work[w] \in Works /\ work \in [Workers -> Works \cup {NoWork}]
  <2>1. Doing(w)
    BY DEF CreateStep, ClaimMedia, FailReply, ReleaseMedia, InsertReply, InsertInReply,
       CountInReply, ReadTags, AddTags, LinkTags, MentionLocals, MentionRemotes, In
  <2> QED
    BY <2>1, DoingWork DEF WorkType
<1>2. /\ work[w].files \in SUBSET Media /\ work[w].claimed \in SUBSET Media
      /\ work[w].todo \in SUBSET Tags /\ work[w].batch \in SUBSET Tags
      /\ work[w].missing \in SUBSET Tags
  BY <1>1 DEF Works
<1>3. CASE ClaimMedia(w)
  <2>1. Early(w) /\ ~InsertReply(w)
    BY <1>3 DEF ClaimMedia, InsertReply, Early, In
  <2>2. PICK m \in work[w].files :
          IF holder[m] = None
            THEN work' = [work EXCEPT ![w].files = @ \ {m}, ![w].claimed = @ \cup {m}]
            ELSE IF work[w].claimed = {} THEN Finish(w) ELSE Proceed(w, "releasing")
    BY <1>3 DEF ClaimMedia
  <2>3. CASE holder[m] = None
    <3> DEFINE F == work[w].files \ {m}
               C == work[w].claimed \cup {m}
    <3>1. work' = [work EXCEPT ![w] = [work[w] EXCEPT !.files = F, !.claimed = C]]
      BY <1>1, <2>2, <2>3
    <3>2. F \in SUBSET Media /\ C \in SUBSET Media
      BY <1>2
    <3> HIDE DEF F, C
    <3>3. Kept(w) /\ work'[w] \in Works /\ work'[w].phase = work[w].phase
      BY <1>1, <3>1, <3>2, FilesWork
    <3> QED
      BY <2>1, <3>3, OnwardsStay
  <2>4. CASE holder[m] # None
    BY <1>1, <2>1, <2>2, <2>4, OnwardsFinish, ProceedOnwards DEF WorkPhases
  <2> QED
    BY <2>3, <2>4
<1>4. CASE FailReply(w)
  <2>1. Early(w) /\ (Finish(w) \/ Proceed(w, "releasing"))
    BY <1>4 DEF FailReply, Early, In
  <2>2. ~InsertReply(w)
    <3>1. CASE Finish(w)
      <4>1. work'[w] = NoWork
        BY <1>1, <3>1, FinishWork
      <4>2. InsertReply(w) => work'[w] # NoWork
        BY <1>1, ProceedWork DEF InsertReply, WorkPhases, To, Works, NoWork
      <4> QED
        BY <4>1, <4>2
    <3>2. CASE Proceed(w, "releasing")
      <4>1. work'[w].phase = "releasing"
        BY <1>1, <3>2, ProceedWork DEF WorkPhases, To
      <4>2. InsertReply(w) => work'[w].phase = "tagging"
        BY <1>1, ProceedWork DEF InsertReply, WorkPhases, To
      <4> QED
        BY <4>1, <4>2
    <3> QED
      BY <2>1, <3>1, <3>2
  <2> QED
    BY <1>1, <2>1, <2>2, OnwardsFinish, ProceedOnwards DEF WorkPhases
<1>5. CASE ReleaseMedia(w) \/ MentionRemotes(w)
  BY <1>1, <1>5, OnwardsFinish DEF ReleaseMedia, MentionRemotes
<1>6. CASE InsertReply(w)
  <2>1. Proceed(w, "tagging")
    BY <1>6 DEF InsertReply
  <2> QED
    BY <1>1, <1>6, <2>1, ProceedOnwards DEF WorkPhases
<1>7. CASE InsertInReply(w)
  <2>1. ~Early(w) /\ (Proceed(w, "inserted") \/ Proceed(w, "queued"))
    BY <1>7 DEF InsertInReply, Early, In
  <2> QED
    BY <1>1, <2>1, ProceedOnwards DEF WorkPhases
<1>8. CASE CountInReply(w)
  <2>1. ~Early(w) /\ Proceed(w, "counted")
    BY <1>8 DEF CountInReply, Early, In
  <2> QED
    BY <1>1, <2>1, ProceedOnwards DEF WorkPhases
<1>9. CASE ReadTags(w)
  <2>1. ~Early(w)
    BY <1>9 DEF ReadTags, Early, In
  <2>2. PICK B \in SUBSET Tags :
          work' = [work EXCEPT ![w].phase = "tagsRead", ![w].batch = B, ![w].missing = B \ known]
    <3>1. PICK B \in IF work[w].kind = "inReply" THEN {{g} : g \in work[w].todo}
                                                 ELSE {work[w].todo} \ {{}} :
            work' = [work EXCEPT ![w].phase = "tagsRead", ![w].batch = B, ![w].missing = B \ known]
      BY <1>9 DEF ReadTags
    <3>2. B \in SUBSET Tags
      BY <1>2, <3>1
    <3> QED
      BY <3>1, <3>2
  <2>3. [work[w] EXCEPT !.phase = "tagsRead", !.batch = B, !.missing = B \ known] =
        [work[w] EXCEPT !.phase = "tagsRead", !.todo = work[w].todo, !.batch = B,
                        !.missing = B \ known]
    BY <1>1 DEF Works
  <2>4. /\ work' = [work EXCEPT ![w] =
                     [work[w] EXCEPT !.phase = "tagsRead", !.todo = work[w].todo, !.batch = B,
                                     !.missing = B \ known]]
        /\ "tagsRead" \in WorkPhases /\ B \ known \in SUBSET Tags
    BY <1>1, <2>2, <2>3 DEF WorkPhases
  <2>5. Kept(w) /\ work'[w] # NoWork /\ work'[w].phase = "tagsRead"
    BY <1>1, <1>2, <2>4, TagsWork DEF Doing
  <2> QED
    BY <2>1, <2>5, OnwardsLate
<1>10. CASE AddTags(w)
  <2>1. ~Early(w) /\ work[w].todo \ work[w].batch \in SUBSET Tags
    BY <1>2, <1>10 DEF AddTags, Early, In
  <2>2. \/ Proceed(w, "tagged") \/ Finish(w)
        \/ NextTag(w, work[w].todo \ work[w].batch)
    BY <1>10 DEF AddTags
  <2>3. CASE NextTag(w, work[w].todo \ work[w].batch)
    BY <1>1, <2>1, <2>3, NextTagWork, OnwardsLate DEF Onwards, Doing
  <2> QED
    BY <1>1, <2>1, <2>2, <2>3, OnwardsFinish, ProceedOnwards DEF WorkPhases
<1>11. CASE LinkTags(w)
  <2>1. ~Early(w) /\ work[w].todo \ work[w].batch \in SUBSET Tags
    BY <1>2, <1>11 DEF LinkTags, Early, In
  <2>2. CASE NextTag(w, work[w].todo \ work[w].batch)
    BY <1>1, <2>1, <2>2, NextTagWork, OnwardsLate DEF Onwards, Doing
  <2>3. CASE work' = [work EXCEPT ![w].phase = "tagging", ![w].todo = {},
                                  ![w].batch = {}, ![w].missing = {}]
    <3>1. /\ work' = [work EXCEPT ![w] = [work[w] EXCEPT !.phase = "tagging", !.todo = {},
                                                         !.batch = {}, !.missing = {}]]
          /\ "tagging" \in WorkPhases /\ {} \in SUBSET Tags
      BY <1>1, <2>3 DEF WorkPhases
    <3>2. Kept(w) /\ work'[w] # NoWork /\ work'[w].phase = "tagging"
      BY <1>1, <3>1, TagsWork DEF Doing
    <3> QED
      BY <2>1, <3>2, OnwardsLate
  <2> QED
    BY <1>11, <2>2, <2>3 DEF LinkTags
<1>12. CASE MentionLocals(w)
  <2>1. ~Early(w)
    BY <1>12 DEF MentionLocals, Early, In
  <2>2. Finish(w) \/ Proceed(w, "mentioned") \/ NextTag(w, work[w].todo)
    BY <1>12 DEF MentionLocals
  <2>3. CASE NextTag(w, work[w].todo)
    BY <1>1, <1>2, <2>1, <2>3, NextTagWork, OnwardsLate DEF Onwards, Doing
  <2> QED
    BY <1>1, <2>1, <2>2, <2>3, OnwardsFinish, ProceedOnwards DEF WorkPhases
<1> QED
  BY <1>3, <1>4, <1>5, <1>6, <1>7, <1>8, <1>9, <1>10, <1>11, <1>12 DEF CreateStep

LEMMA EditStepWork ==
  ASSUME WorkType, NEW w \in Workers, EditStep(w)
  PROVE  Onwards(w) /\ work[w].kind = "edit"
<1>1. Doing(w) /\ work[w] \in Works /\ work \in [Workers -> Works \cup {NoWork}]
      /\ work[w].kind = "edit"
  <2>1. Doing(w) /\ work[w].kind = "edit"
    BY DEF EditStep, UpdateText, Snapshot, AttachMedia, ClearTags, ClearMentions, In
  <2> QED
    BY <2>1, DoingWork DEF WorkType
<1>2. ~Early(w) /\ work[w].files \in SUBSET Media /\ work[w].claimed \in SUBSET Media
  BY <1>1 DEF Early, Works
<1>3. CASE Finish(w)
  BY <1>1, <1>3, OnwardsFinish
<1>4. ASSUME NEW phase \in {"updated", "attaching", "tagging", "cleared"}, Proceed(w, phase)
      PROVE  Onwards(w)
  BY <1>1, <1>2, <1>4, ProceedOnwards DEF WorkPhases
<1>5. CASE UpdateText(w) \/ Snapshot(w) \/ ClearTags(w) \/ ClearMentions(w)
  BY <1>1, <1>3, <1>4, <1>5 DEF UpdateText, Snapshot, ClearTags, ClearMentions
<1>6. CASE AttachMedia(w)
  <2>1. PICK m \in work[w].files :
          Finish(w) \/ work' = [work EXCEPT ![w].files = @ \ {m}]
    BY <1>6 DEF AttachMedia
  <2>2. CASE work' = [work EXCEPT ![w].files = @ \ {m}]
    <3>1. [work[w] EXCEPT !.files = work[w].files \ {m}] =
          [work[w] EXCEPT !.files = work[w].files \ {m}, !.claimed = work[w].claimed]
      BY <1>1 DEF Works
    <3>2. work' = [work EXCEPT ![w] = [work[w] EXCEPT !.files = work[w].files \ {m},
                                                      !.claimed = work[w].claimed]]
      BY <1>1, <2>2, <3>1
    <3>3. Kept(w) /\ work'[w] \in Works /\ work'[w].phase = work[w].phase
      BY <1>1, <1>2, <3>2, FilesWork
    <3> QED
      BY <1>1, <3>3, OnwardsStay DEF InsertReply, In
  <2> QED
    BY <1>1, <1>3, <2>1, <2>2
<1> QED
  BY <1>1, <1>5, <1>6 DEF EditStep

LEMMA WorkStepWork ==
  ASSUME WorkType, NEW w \in Workers, WorkStep(w)
  PROVE  Onwards(w)
<1>1. CASE RemoveReply(w) \/ UncountReply(w)
  <2>1. Doing(w) /\ ~Early(w) /\ (Proceed(w, "removed") \/ Finish(w))
    BY <1>1 DEF RemoveReply, UncountReply, In, Early
  <2> QED
    BY <2>1, OnwardsFinish, ProceedOnwards DEF WorkPhases
<1>2. CASE Interrupt(w)
  <2>1. Doing(w)
    BY <1>2 DEF Interrupt
  <2>2. CASE Finish(w)
    BY <2>1, <2>2, OnwardsFinish
  <2>3. CASE Proceed(w, "queued") /\ work[w].kind \in SentKinds
    BY <2>1, <2>3, ProceedOnwards DEF WorkPhases, Early, SentKinds
  <2> QED
    BY <1>2, <2>2, <2>3 DEF Interrupt
<1>3. CASE Retry(w)
  <2>1. Doing(w) /\ ~Early(w) /\ (Proceed(w, "absent") \/ Proceed(w, "found") \/ Finish(w))
    BY <1>3 DEF Retry, Early
  <2> QED
    BY <2>1, OnwardsFinish, ProceedOnwards DEF WorkPhases
<1> QED
  BY <1>1, <1>2, <1>3, CreateStepWork, EditStepWork DEF WorkStep

\* A new task.
LEMMA NewWork ==
  ASSUME WorkType, NEW w \in Workers, ~Doing(w), NEW kind, NEW a, NEW i, NEW phase, NEW t, NEW F,
         kind \in OwnKinds \cup SentKinds, a \in Actors, i \in Replies, phase \in WorkPhases,
         t \in Texts \cup {None}, F \subseteq Media, kind = "edit" => text[i] \in Texts,
         Begin(w, kind, a, i, phase, t, F)
  PROVE  /\ work' \in [Workers -> Works \cup {NoWork}]
         /\ \A v \in Workers : v # w => work'[v] = work[v]
         /\ Doing(w)' /\ work'[w] \in Works /\ work'[w].claimed = {}
         /\ work'[w].kind = kind /\ work'[w].actor = a /\ work'[w].id = i
         /\ work'[w].phase = phase /\ work'[w].text = t /\ work'[w].files = F
         /\ kind = "edit" => work'[w].seen = text[i]
<1> DEFINE seen == IF kind = "edit" THEN text[i] ELSE None
           todo == IF t = None THEN {} ELSE TermsIn(t) \cap Tags
           n    == [kind |-> kind, actor |-> a, id |-> i, text |-> t, phase |-> phase,
                    files |-> F, claimed |-> {}, seen |-> seen, todo |-> todo,
                    batch |-> {}, missing |-> {}]
<1>1. seen \in Texts \cup {None} /\ todo \in SUBSET Tags
  OBVIOUS
<1>2. work' = [work EXCEPT ![w] = n]
  BY DEF Begin
<1> HIDE DEF seen, todo
<1>3. n \in Works /\ NoWork \notin Works
  BY <1>1 DEF Works, WorkPhases, NoWork, OwnKinds, SentKinds
<1>4. /\ n.kind = kind /\ n.actor = a /\ n.id = i /\ n.phase = phase /\ n.text = t
      /\ n.files = F /\ n.claimed = {} /\ n.seen = seen /\ n.todo = todo
  OBVIOUS
<1> HIDE DEF n
<1>5. /\ work' \in [Workers -> Works \cup {NoWork}] /\ work'[w] = n
      /\ \A v \in Workers : v # w => work'[v] = work[v]
  BY <1>2, <1>3 DEF WorkType
<1> QED
  BY <1>3, <1>4, <1>5 DEF Doing, seen, todo

-----------------------------------------------------------------------------
(* Types *)

\* A step leaves the tables as they are, but for those in its own clause.
LEMMA MediaStep ==
  ASSUME Typed, NEW w \in Workers, WorkStep(w) \/ BeginWork(w)
  PROVE  MediaType'
<1>1. MediaType /\ (Doing(w) => By(w) \in Actors /\ Of(w) \in Replies)
      /\ (Doing(w) => work[w].files \in SUBSET Media)
  BY DoingWork DEF Typed, Works
<1>2. CASE UNCHANGED mediaVars
  BY <1>1, <1>2 DEF MediaType, mediaVars
<1>3. CASE ClaimMedia(w)
  BY <1>1, <1>3 DEF ClaimMedia, In, MediaType
<1>4. CASE ReleaseMedia(w)
  BY <1>1, <1>4 DEF ReleaseMedia, MediaType
<1>5. CASE AttachMedia(w)
  BY <1>1, <1>5 DEF AttachMedia, In, MediaType
<1>6. CASE BeginWork(w)
  BY <1>2, <1>6 DEF BeginWork, StartReply, StartEdit, StartInReply, StartDelete
<1>7. CASE CreateStep(w) /\ ~ClaimMedia(w) /\ ~ReleaseMedia(w)
  BY <1>2, <1>7 DEF CreateStep, FailReply, InsertReply, InsertInReply, CountInReply, ReadTags,
     AddTags, LinkTags, MentionLocals, MentionRemotes
<1>8. CASE (EditStep(w) /\ ~AttachMedia(w)) \/ RemoveReply(w) \/ UncountReply(w)
           \/ Interrupt(w) \/ Retry(w)
  BY <1>2, <1>8 DEF EditStep, UpdateText, Snapshot, ClearTags, ClearMentions, RemoveReply,
     UncountReply, Interrupt, Retry
<1> QED
  BY <1>3, <1>4, <1>5, <1>6, <1>7, <1>8 DEF WorkStep

\* Who inserts: the row is new and says what its account brought.
Inserting(w) ==
  /\ Doing(w) /\ work[w].kind \in {"reply", "inReply"} /\ writer[Of(w)] = None /\ Insert(w)

LEMMA RowEffect ==
  ASSUME Typed, NEW w \in Workers, WorkStep(w) \/ BeginWork(w)
  PROVE  \/ Inserting(w) /\ ~UpdateText(w)
         \/ UNCHANGED <<writer, shown>> /\ (UpdateText(w) \/ text' = text)
         \/ RemoveReply(w) /\ UNCHANGED <<writer, text>>
<1>1. CASE InsertReply(w)
  BY <1>1 DEF InsertReply, In, Typed, Sole, Inserting, UpdateText
<1>2. CASE InsertInReply(w)
  BY <1>2 DEF InsertInReply, In, Inserting, UpdateText
<1>3. CASE BeginWork(w)
  BY <1>3 DEF BeginWork, StartReply, StartEdit, StartInReply, StartDelete, rowVars, textVars
<1>4. CASE CreateStep(w) /\ ~InsertReply(w) /\ ~InsertInReply(w)
  BY <1>4 DEF CreateStep, ClaimMedia, ReleaseMedia, FailReply, CountInReply, ReadTags,
     AddTags, LinkTags, MentionLocals, MentionRemotes, rowVars, textVars
<1>5. CASE EditStep(w) /\ ~UpdateText(w)
  BY <1>5 DEF EditStep, Snapshot, AttachMedia, ClearTags, ClearMentions, rowVars, textVars
<1>6. CASE UpdateText(w)
  BY <1>6 DEF UpdateText, rowVars
<1>7. CASE UncountReply(w) \/ Interrupt(w) \/ Retry(w)
  BY <1>7 DEF UncountReply, Interrupt, Retry, rowVars, textVars
<1>8. CASE RemoveReply(w)
  BY <1>8 DEF RemoveReply, textVars
<1> QED
  BY <1>1, <1>2, <1>3, <1>4, <1>5, <1>6, <1>7, <1>8 DEF WorkStep

LEMMA RowStep ==
  ASSUME Typed, NEW w \in Workers, WorkStep(w) \/ BeginWork(w)
  PROVE  /\ RowType'
         /\ text' \in [Replies -> Texts \cup {None}]
         /\ \A i \in Replies : text'[i] = None <=> writer'[i] = None
         /\ \A i \in Replies : writer[i] # None => writer'[i] = writer[i]
<1>1. /\ RowType /\ TextType /\ None \notin Texts /\ None \notin Actors
      /\ (Doing(w) => By(w) \in Actors /\ Of(w) \in Replies)
  BY DoingWork, AuthoringAssumption DEF Typed
<1>2. replies' \in Nat
  <2>1. CASE InsertReply(w) \/ CountInReply(w)
    BY <1>1, <2>1 DEF InsertReply, CountInReply, RowType
  <2>2. CASE UncountReply(w)
    BY <1>1, <2>2 DEF UncountReply, RowType, Less
  <2>3. CASE BeginWork(w)
    BY <1>1, <2>3 DEF BeginWork, StartReply, StartEdit, StartInReply, StartDelete, rowVars, RowType
  <2>4. CASE CreateStep(w) /\ ~InsertReply(w) /\ ~CountInReply(w)
    BY <1>1, <2>4 DEF CreateStep, ClaimMedia, ReleaseMedia, FailReply, InsertInReply, ReadTags,
       AddTags, LinkTags, MentionLocals, MentionRemotes, rowVars, RowType
  <2>5. CASE EditStep(w) \/ RemoveReply(w) \/ Interrupt(w) \/ Retry(w)
    BY <1>1, <2>5 DEF EditStep, UpdateText, Snapshot, AttachMedia, ClearTags, ClearMentions,
       RemoveReply, Interrupt, Retry, rowVars, RowType
  <2> QED
    BY <2>1, <2>2, <2>3, <2>4, <2>5 DEF WorkStep
<1>3. written' \in [Locals -> Nat]
  <2>1. CASE InsertReply(w)
    <3>1. By(w) \in Locals /\ written' = [written EXCEPT ![By(w)] = @ + 1]
      BY <2>1 DEF InsertReply, In, Typed, Proper, OwnKinds
    <3> QED
      BY <1>1, <3>1 DEF RowType
  <2>2. CASE UncountReply(w)
    BY <1>1, <2>2 DEF UncountReply, RowType, Less
  <2>3. CASE BeginWork(w)
    BY <1>1, <2>3 DEF BeginWork, StartReply, StartEdit, StartInReply, StartDelete, rowVars, RowType
  <2>4. CASE CreateStep(w) /\ ~InsertReply(w)
    BY <1>1, <2>4 DEF CreateStep, ClaimMedia, ReleaseMedia, FailReply, InsertInReply, CountInReply,
       ReadTags, AddTags, LinkTags, MentionLocals, MentionRemotes, rowVars, RowType
  <2>5. CASE EditStep(w) \/ RemoveReply(w) \/ Interrupt(w) \/ Retry(w)
    BY <1>1, <2>5 DEF EditStep, UpdateText, Snapshot, AttachMedia, ClearTags, ClearMentions,
       RemoveReply, Interrupt, Retry, rowVars, RowType
  <2> QED
    BY <2>1, <2>2, <2>3, <2>4, <2>5 DEF WorkStep
<1>4. /\ writer' \in [Replies -> Actors \cup {None}]
      /\ shown' \subseteq {i \in Replies : writer'[i] # None}
      /\ text' \in [Replies -> Texts \cup {None}]
      /\ \A i \in Replies : text'[i] = None <=> writer'[i] = None
      /\ \A i \in Replies : writer[i] # None => writer'[i] = writer[i]
  <2>1. CASE Inserting(w)
    <3>1. work[w].text \in Texts
      BY <2>1 DEF Inserting, Typed, Proper
    <3> QED
      BY <1>1, <2>1, <3>1 DEF Inserting, Insert, RowType, TextType
  <2>2. CASE UpdateText(w) /\ UNCHANGED <<writer, shown>>
    <3>1. Doing(w) /\ work[w].text \in Texts
      BY <2>2 DEF UpdateText, In, Typed, Proper
    <3> QED
      BY <1>1, <2>2, <3>1 DEF UpdateText, RowType, TextType
  <2>3. CASE UNCHANGED <<writer, shown, text>>
    BY <1>1, <2>3 DEF RowType, TextType
  <2>4. CASE RemoveReply(w) /\ UNCHANGED <<writer, text>>
    BY <1>1, <2>4 DEF RemoveReply, RowType, TextType
  <2> QED
    BY <2>1, <2>2, <2>3, <2>4, RowEffect
<1> QED
  BY <1>2, <1>3, <1>4 DEF RowType

LEMMA TextStep ==
  ASSUME Typed, NEW w \in Workers, WorkStep(w) \/ BeginWork(w)
  PROVE  TextType'
<1>1. /\ TextType /\ (Doing(w) => By(w) \in Actors /\ Of(w) \in Replies /\ work[w] \in Works)
  BY DoingWork DEF Typed
<1>2. terms' \in [Replies -> SUBSET Terms]
  <2>1. ASSUME NEW N, Name(w, N), Doing(w), work[w].kind \in {"reply", "edit", "inReply"}
        PROVE  terms' \in [Replies -> SUBSET Terms]
    <3>1. work[w].text \in Texts
      BY <2>1 DEF Typed, Proper
    <3>2. TermsIn(work[w].text) \subseteq Terms
      BY <3>1, AuthoringAssumption DEF TermsIn
    <3>3. TermsIn(work[w].text) \cap N \subseteq Terms
      BY <3>2
    <3> HIDE DEF TermsIn
    <3> QED
      BY <1>1, <2>1, <3>3 DEF Name, TextType
  <2>2. CASE LinkTags(w) \/ MentionLocals(w) \/ MentionRemotes(w)
    BY <2>1, <2>2 DEF LinkTags, MentionLocals, MentionRemotes, In
  <2>3. ASSUME NEW N, Forget(w, N), Doing(w)
        PROVE  terms' \in [Replies -> SUBSET Terms]
    BY <1>1, <2>3 DEF Forget, TextType
  <2>4. CASE ClearTags(w) \/ ClearMentions(w)
    BY <2>3, <2>4 DEF ClearTags, ClearMentions, In
  <2>5. CASE terms' = terms
    BY <1>1, <2>5 DEF TextType
  <2>6. CASE BeginWork(w)
    BY <2>5, <2>6 DEF BeginWork, StartReply, StartEdit, StartInReply, StartDelete, textVars
  <2>7. CASE CreateStep(w) /\ ~LinkTags(w) /\ ~MentionLocals(w) /\ ~MentionRemotes(w)
    BY <2>5, <2>7 DEF CreateStep, ClaimMedia, ReleaseMedia, FailReply, InsertReply, InsertInReply,
       CountInReply, ReadTags, AddTags, textVars
  <2>8. CASE \/ EditStep(w) /\ ~ClearTags(w) /\ ~ClearMentions(w)
             \/ RemoveReply(w) \/ UncountReply(w) \/ Interrupt(w) \/ Retry(w)
    BY <2>5, <2>8 DEF EditStep, UpdateText, Snapshot, AttachMedia, RemoveReply, UncountReply,
       Interrupt, Retry, textVars
  <2> QED
    BY <2>2, <2>4, <2>6, <2>7, <2>8 DEF WorkStep
<1>3. known' \subseteq Tags
  <2>1. CASE AddTags(w)
    <3>1. work[w].missing \subseteq Tags
      BY <1>1, <2>1 DEF AddTags, In, Works
    <3> QED
      BY <1>1, <2>1, <3>1 DEF AddTags, TextType
  <2>2. CASE known' = known
    BY <1>1, <2>2 DEF TextType
  <2>3. CASE BeginWork(w)
    BY <2>2, <2>3 DEF BeginWork, StartReply, StartEdit, StartInReply, StartDelete, textVars
  <2>4. CASE CreateStep(w) /\ ~AddTags(w)
    BY <2>2, <2>4 DEF CreateStep, ClaimMedia, ReleaseMedia, FailReply, InsertReply, InsertInReply,
       CountInReply, ReadTags, LinkTags, MentionLocals, MentionRemotes, textVars
  <2>5. CASE EditStep(w) \/ RemoveReply(w) \/ UncountReply(w) \/ Interrupt(w) \/ Retry(w)
    BY <2>2, <2>5 DEF EditStep, UpdateText, Snapshot, AttachMedia, ClearTags, ClearMentions,
       RemoveReply, UncountReply, Interrupt, Retry, textVars
  <2> QED
    BY <2>1, <2>3, <2>4, <2>5 DEF WorkStep
<1>4. snapshots' \in [Replies -> SUBSET Texts] /\ past' \in [Replies -> SUBSET Texts]
  <2>1. CASE UpdateText(w)
    <3>1. Of(w) \in shown => text[Of(w)] \in Texts
      BY <1>1, <2>1 DEF UpdateText, In, Typed, TextType, RowType
    <3> QED
      BY <1>1, <2>1, <3>1 DEF UpdateText, In, TextType
  <2>2. CASE Snapshot(w)
    <3>1. work[w].seen \in Texts /\ Of(w) \in Replies
      BY <1>1, <2>2 DEF Snapshot, In, Typed, Proper
    <3> QED
      BY <1>1, <2>2, <3>1 DEF Snapshot, TextType
  <2>3. CASE UNCHANGED <<snapshots, past>>
    BY <1>1, <2>3 DEF TextType
  <2>4. CASE BeginWork(w)
    BY <2>3, <2>4 DEF BeginWork, StartReply, StartEdit, StartInReply, StartDelete, textVars
  <2>5. CASE CreateStep(w)
    BY <2>3, <2>5 DEF CreateStep, ClaimMedia, ReleaseMedia, FailReply, InsertReply, InsertInReply,
       CountInReply, ReadTags, AddTags, LinkTags, MentionLocals, MentionRemotes, textVars
  <2>6. CASE \/ AttachMedia(w) \/ ClearTags(w) \/ ClearMentions(w)
             \/ RemoveReply(w) \/ UncountReply(w) \/ Interrupt(w) \/ Retry(w)
    BY <2>3, <2>6 DEF AttachMedia, ClearTags, ClearMentions, RemoveReply, UncountReply, Interrupt,
       Retry, textVars
  <2> QED
    BY <2>1, <2>2, <2>4, <2>5, <2>6 DEF WorkStep, EditStep
<1> QED
  BY <1>2, <1>3, <1>4, RowStep DEF TextType

LEMMA NoteStep ==
  ASSUME Typed, NEW w \in Workers, WorkStep(w) \/ BeginWork(w)
  PROVE  NoteType'
<1>1. NoteType /\ (Doing(w) => Of(w) \in Replies)
  BY DoingWork DEF Typed
<1>2. CASE UNCHANGED notes
  BY <1>1, <1>2 DEF NoteType, notes
<1>3. CASE BeginWork(w)
  <2>1. CASE \E a \in Locals, t \in Texts, F \in Uploads, i \in Replies : StartEdit(w, a, i, t, F)
    BY <1>1, <2>1 DEF StartEdit, NoteType
  <2> QED
    BY <1>2, <1>3, <2>1 DEF BeginWork, StartReply, StartInReply, StartDelete
<1>4. CASE AddTags(w) \/ UpdateText(w) \/ AttachMedia(w) \/ Interrupt(w)
  <2>1. Doing(w)
    BY <1>4 DEF AddTags, UpdateText, AttachMedia, Interrupt, In
  <2> QED
    BY <1>1, <1>4, <2>1 DEF AddTags, UpdateText, AttachMedia, Interrupt, NoteType
<1>5. CASE RemoveReply(w) \/ UncountReply(w)
  BY <1>1, <1>5 DEF RemoveReply, UncountReply, NoteType
<1>6. CASE CreateStep(w) /\ ~AddTags(w)
  BY <1>2, <1>6 DEF CreateStep, ClaimMedia, ReleaseMedia, FailReply, InsertReply, InsertInReply,
     CountInReply, ReadTags, LinkTags, MentionLocals, MentionRemotes
<1>7. CASE Snapshot(w) \/ ClearTags(w) \/ ClearMentions(w) \/ Retry(w)
  BY <1>2, <1>7 DEF Snapshot, ClearTags, ClearMentions, Retry
<1> QED
  BY <1>3, <1>4, <1>5, <1>6, <1>7 DEF WorkStep, EditStep

\* Nothing is started for a reply that a createStatus has to itself.
LEMMA WorkStepTyped ==
  ASSUME Typed, NEW w \in Workers, WorkStep(w)
  PROVE  WorkType' /\ \A v \in Workers : Proper(v)' /\ Sole(v)'
<1>1. /\ Onwards(w) /\ Kept(w) /\ WorkType /\ Doing(w) /\ work[w] \in Works
      /\ \A v \in Workers : v # w => work'[v] = work[v]
  BY WorkStepWork DEF Onwards, Typed, Kept
<1>2. WorkType'
  BY <1>1 DEF Kept, WorkType
<1>3. \A i \in Replies : writer[i] # None => writer'[i] = writer[i]
  BY RowStep
<1>4. /\ \A v \in Workers : Proper(v) /\ Sole(v)
      /\ \A v \in Workers : Doing(v) => By(v) \in Actors /\ Of(v) \in Replies
  BY <1>1, DoingWork DEF Typed
<1>5. /\ \A v \in Workers : Doing(v)' => Doing(v)
      /\ \A v \in Workers : Doing(v)' =>
           /\ work'[v].kind = work[v].kind /\ By(v)' = By(v) /\ Of(v)' = Of(v)
           /\ work'[v].text = work[v].text /\ work'[v].seen = work[v].seen
  BY <1>1 DEF Kept, Doing, By, Of
<1>6. None \notin Actors
  BY AuthoringAssumption
<1>7. ASSUME NEW v \in Workers
      PROVE  Proper(v)'
  <2>1. SUFFICES ASSUME Doing(v)'
                 PROVE  Proper(v)'
    BY DEF Proper
  <2>2. Proper(v) /\ Doing(v) /\ By(v) \in Actors /\ Of(v) \in Replies
    BY <1>4, <1>5, <2>1
  <2>3. writer[Of(v)] = By(v) => writer'[Of(v)] = By(v)
    BY <1>3, <1>6, <2>2
  <2> QED
    BY <1>5, <2>1, <2>2, <2>3 DEF Proper
<1>8. CASE Inserting(w)
  <2>1. writer' = [writer EXCEPT ![Of(w)] = By(w)] /\ writer[Of(w)] = None
        /\ writer \in [Replies -> Actors \cup {None}]
    BY <1>8 DEF Inserting, Insert, Typed, RowType
  <2>2. ASSUME NEW v \in Workers, Doing(v)', work'[v].kind = "reply"
        PROVE  Sole(v)'
    <3>1. /\ Doing(v) /\ work[v].kind = "reply" /\ Of(v) \in Replies /\ By(v) \in Actors
          /\ By(v)' = By(v) /\ Of(v)' = Of(v)
      BY <1>4, <1>5, <2>2
    <3>2. CASE v = w
      <4>1. Early(w)
        BY <1>4, <2>1, <1>6, <3>1, <3>2 DEF Sole, Early
      <4>2. InsertReply(w)
        <5>1. work[w].kind = "reply" /\ shown' = shown \cup {Of(w)} /\ writer[Of(w)] = None
          BY <1>8, <3>1, <3>2 DEF Inserting, Insert
        <5>2. Of(w) \in shown' /\ Of(w) \notin shown
          BY <5>1 DEF Typed, RowType
        <5>3. work[w].phase \in {"claiming", "releasing"}
          BY <4>1 DEF Early
        <5> QED
          BY <5>1, <5>2, <5>3
             DEF WorkStep, CreateStep, ClaimMedia, FailReply, ReleaseMedia, InsertInReply, CountInReply,
             ReadTags, AddTags, LinkTags, MentionLocals, MentionRemotes, EditStep, UpdateText,
             Snapshot, AttachMedia, ClearTags, ClearMentions, RemoveReply, UncountReply, Interrupt,
             Retry, In, rowVars
      <4>3. work'[w].phase \notin {"claiming", "releasing"}
        BY <1>1, <2>2, <3>2, <4>2 DEF Onwards, Early, Doing
      <4>4. writer'[Of(w)] = By(w)
        BY <2>1, <3>1, <3>2
      <4> QED
        BY <3>1, <3>2, <4>3, <4>4 DEF Sole
    <3>3. CASE v # w
      <4>1. work'[v] = work[v] /\ Sole(v)
        BY <1>1, <1>4, <3>3
      <4>2. CASE work[v].phase \in {"claiming", "releasing"}
        <5>1. Of(w) # Of(v)
          BY <1>1, <3>1, <3>3, <4>1, <4>2 DEF Sole
        <5>2. writer'[Of(v)] = None
          BY <2>1, <3>1, <4>1, <4>2, <5>1 DEF Sole
        <5> QED
          BY <1>5, <3>1, <4>1, <4>2, <5>2 DEF Sole
      <4>3. CASE work[v].phase \notin {"claiming", "releasing"}
        BY <1>3, <1>6, <3>1, <4>1, <4>3 DEF Sole
      <4> QED
        BY <4>2, <4>3
    <3> QED
      BY <3>2, <3>3
  <2> QED
    BY <1>2, <1>7, <2>2 DEF Sole
<1>9. CASE ~Inserting(w)
  <2>1. writer' = writer
    BY <1>9, RowEffect
  <2>2. ~InsertReply(w)
    BY <1>9 DEF InsertReply, In, Typed, Sole, Inserting
  <2>3. ASSUME NEW v \in Workers, Doing(v)', work'[v].kind = "reply"
        PROVE  Sole(v)'
    <3>1. /\ Doing(v) /\ work[v].kind = "reply" /\ Sole(v)
          /\ By(v)' = By(v) /\ Of(v)' = Of(v)
      BY <1>4, <1>5, <2>3
    <3>2. work'[v].phase \in {"claiming", "releasing"} <=>
            work[v].phase \in {"claiming", "releasing"}
      BY <1>1, <2>2, <2>3, <3>1 DEF Onwards, Early, Doing
    <3> QED
      BY <1>5, <2>1, <3>1, <3>2 DEF Sole
  <2> QED
    BY <1>2, <1>7, <2>3 DEF Sole
<1> QED
  BY <1>8, <1>9
\* What a new task is of, and what it has seen.
Began(w) ==
  LET n == work'[w]
      i == n.id
  IN \/ n.kind = "reply" /\ n.phase = "claiming" /\ n.actor \in Locals /\ n.text \in Texts
        /\ i \in Unborn /\ n.files \subseteq AttachableTo(i, n.actor)
     \/ n.kind = "edit" /\ n.phase = "read" /\ n.actor \in Locals /\ n.text \in Texts
        /\ i \in shown /\ writer[i] = n.actor /\ n.seen = text[i]
     \/ n.kind = "inReply" /\ n.phase = "absent" /\ n.actor \in Remotes /\ n.text \in Texts
        /\ i \notin shown
        /\ \/ i \in Unborn
           \/ writer[i] = n.actor
           \/ \E v \in WritersOf(i) : work[v].kind = "inReply" /\ By(v) = n.actor
     \/ n.kind \in {"deleteReply", "inDeleteReply"} /\ n.phase = "found"
        /\ n.actor \in (IF n.kind = "deleteReply" THEN Locals ELSE Remotes)
        /\ i \in shown /\ writer[i] = n.actor

LEMMA BeginEffect ==
  ASSUME Typed, NEW w \in Workers, BeginWork(w)
  PROVE  /\ ~Doing(w) /\ Doing(w)' /\ work'[w] \in Works /\ work'[w].claimed = {}
         /\ work' \in [Workers -> Works \cup {NoWork}]
         /\ \A v \in Workers : v # w => work'[v] = work[v]
         /\ UNCHANGED <<settled, live, crashes, mediaVars, rowVars, textVars>>
         /\ UNCHANGED <<miscounted, unfinished, skipped>>
         /\ Began(w)
<1>1. WorkType /\ RowType /\ TextType
  BY DEF Typed
<1>2. Locals \subseteq Actors /\ Remotes \subseteq Actors /\ Uploads \subseteq SUBSET Media
  BY DEF Actors, Uploads
<1>3. CASE \E a \in Locals, t \in Texts, F \in Uploads : StartReply(w, a, t, F)
  <2>1. PICK a \in Locals, t \in Texts, F \in Uploads : StartReply(w, a, t, F)
    BY <1>3
  <2>2. PICK i \in Unborn : F \subseteq AttachableTo(i, a) /\ Begin(w, "reply", a, i, "claiming", t, F)
    BY <2>1 DEF StartReply
  <2>3. /\ ~Doing(w) /\ i \in Replies /\ a \in Actors /\ F \in SUBSET Media
        /\ "reply" \in OwnKinds \cup SentKinds /\ "claiming" \in WorkPhases
        /\ t \in Texts \cup {None} /\ ("reply" = "edit" => text[i] \in Texts)
    BY <1>2, <2>1, <2>2 DEF StartReply, CanBegin, Unborn, OwnKinds, WorkPhases
  <2>4. /\ work' \in [Workers -> Works \cup {NoWork}]
        /\ \A v \in Workers : v # w => work'[v] = work[v]
        /\ Doing(w)' /\ work'[w] \in Works /\ work'[w].claimed = {}
        /\ work'[w].kind = "reply" /\ work'[w].actor = a /\ work'[w].id = i
        /\ work'[w].phase = "claiming" /\ work'[w].text = t /\ work'[w].files = F
    BY <1>1, <2>2, <2>3, NewWork
  <2>5. Began(w)
    BY <2>2, <2>4 DEF Began
  <2> QED
    BY <2>1, <2>3, <2>4, <2>5 DEF StartReply, notes
<1>4. CASE \E a \in Locals, t \in Texts, F \in Uploads, i \in Replies : StartEdit(w, a, i, t, F)
  <2>1. PICK a \in Locals, t \in Texts, F \in Uploads, i \in Replies : StartEdit(w, a, i, t, F)
    BY <1>4
  <2>2. /\ ~Doing(w) /\ a \in Actors /\ F \in SUBSET Media /\ text[i] \in Texts
        /\ i \in shown /\ writer[i] = a /\ Begin(w, "edit", a, i, "read", t, F)
        /\ "edit" \in OwnKinds \cup SentKinds /\ "read" \in WorkPhases
        /\ t \in Texts \cup {None} /\ ("edit" = "edit" => text[i] \in Texts)
    BY <1>1, <1>2, <2>1 DEF StartEdit, CanBegin, OwnKinds, WorkPhases, RowType, TextType
  <2>3. /\ work' \in [Workers -> Works \cup {NoWork}]
        /\ \A v \in Workers : v # w => work'[v] = work[v]
        /\ Doing(w)' /\ work'[w] \in Works /\ work'[w].claimed = {}
        /\ work'[w].kind = "edit" /\ work'[w].actor = a /\ work'[w].id = i
        /\ work'[w].phase = "read" /\ work'[w].text = t
        /\ work'[w].seen = text[i]
    BY <1>1, <2>2, NewWork
  <2>4. Began(w)
    BY <2>2, <2>3 DEF Began
  <2> QED
    BY <2>1, <2>2, <2>3, <2>4 DEF StartEdit
<1>5. CASE \E a \in Remotes, i \in Replies, t \in Texts : StartInReply(w, a, i, t)
  <2>1. PICK a \in Remotes, i \in Replies, t \in Texts : StartInReply(w, a, i, t)
    BY <1>5
  <2>2. /\ ~Doing(w) /\ a \in Actors /\ {} \in SUBSET Media
        /\ Begin(w, "inReply", a, i, "absent", t, {})
        /\ "inReply" \in OwnKinds \cup SentKinds /\ "absent" \in WorkPhases
        /\ t \in Texts \cup {None} /\ ("inReply" = "edit" => text[i] \in Texts)
    BY <1>2, <2>1 DEF StartInReply, CanBegin, SentKinds, WorkPhases
  <2>3. /\ i \notin shown
        /\ \/ i \in Unborn
           \/ writer[i] = a
           \/ \E v \in WritersOf(i) : work[v].kind = "inReply" /\ By(v) = a
    BY <1>1, <2>1 DEF StartInReply, Unborn, RowType
  <2>4. /\ work' \in [Workers -> Works \cup {NoWork}]
        /\ \A v \in Workers : v # w => work'[v] = work[v]
        /\ Doing(w)' /\ work'[w] \in Works /\ work'[w].claimed = {}
        /\ work'[w].kind = "inReply" /\ work'[w].actor = a /\ work'[w].id = i
        /\ work'[w].phase = "absent" /\ work'[w].text = t
    BY <1>1, <2>2, NewWork
  <2>5. Began(w)
    BY <2>3, <2>4 DEF Began
  <2> QED
    BY <2>1, <2>2, <2>4, <2>5 DEF StartInReply, notes
<1>6. ASSUME NEW kind \in {"deleteReply", "inDeleteReply"},
             NEW a \in IF kind = "deleteReply" THEN Locals ELSE Remotes,
             NEW i \in Replies, StartDelete(w, kind, a, i)
      PROVE  /\ ~Doing(w) /\ Doing(w)' /\ work'[w] \in Works /\ work'[w].claimed = {}
             /\ work' \in [Workers -> Works \cup {NoWork}]
             /\ \A v \in Workers : v # w => work'[v] = work[v]
             /\ UNCHANGED <<settled, live, crashes, mediaVars, rowVars, textVars, notes>>
             /\ Began(w)
  <2>1. /\ ~Doing(w) /\ a \in Actors /\ {} \in SUBSET Media /\ i \in shown /\ writer[i] = a
        /\ Begin(w, kind, a, i, "found", None, {}) /\ kind # "edit"
        /\ kind \in OwnKinds \cup SentKinds /\ "found" \in WorkPhases
    BY <1>2, <1>6 DEF StartDelete, CanBegin, OwnKinds, SentKinds, WorkPhases
  <2>2. /\ work' \in [Workers -> Works \cup {NoWork}]
        /\ \A v \in Workers : v # w => work'[v] = work[v]
        /\ Doing(w)' /\ work'[w] \in Works /\ work'[w].claimed = {}
        /\ work'[w].kind = kind /\ work'[w].actor = a /\ work'[w].id = i
        /\ work'[w].phase = "found"
    BY <1>1, <2>1, NewWork
  <2>3. Began(w)
    BY <1>6, <2>1, <2>2 DEF Began
  <2> QED
    BY <1>6, <2>1, <2>2, <2>3 DEF StartDelete
<1>7. CASE \E a \in Locals, i \in Replies : StartDelete(w, "deleteReply", a, i)
  <2>1. PICK a \in Locals, i \in Replies : StartDelete(w, "deleteReply", a, i)
    BY <1>7
  <2> QED
    BY <1>6, <2>1 DEF notes
<1>8. CASE \E a \in Remotes, i \in Replies : StartDelete(w, "inDeleteReply", a, i)
  <2>1. PICK a \in Remotes, i \in Replies : StartDelete(w, "inDeleteReply", a, i)
    BY <1>8
  <2> QED
    BY <1>6, <2>1 DEF notes
<1> QED
  BY <1>3, <1>4, <1>5, <1>7, <1>8 DEF BeginWork

LEMMA BeginTyped ==
  ASSUME Typed, NEW w \in Workers, BeginWork(w)
  PROVE  WorkType' /\ \A v \in Workers : Proper(v)' /\ Sole(v)'
<1>1. /\ ~Doing(w) /\ Doing(w)' /\ work'[w] \in Works
      /\ work' \in [Workers -> Works \cup {NoWork}]
      /\ \A v \in Workers : v # w => work'[v] = work[v]
      /\ UNCHANGED <<writer, shown, text>> /\ Began(w)
  BY BeginEffect DEF rowVars, textVars
<1>2. /\ WorkType /\ RowType /\ TextType /\ \A v \in Workers : Proper(v) /\ Sole(v)
      /\ None \notin Actors /\ Locals \cap Remotes = {}
  BY AuthoringAssumption, InteractionsAssumption DEF Typed
<1>3. WorkType'
  BY <1>1 DEF WorkType
<1>4. ASSUME NEW v \in Workers
      PROVE  Proper(v)'
  <2>1. CASE v # w
    BY <1>1, <1>2, <2>1 DEF Proper, Doing, By, Of
  <2>2. CASE v = w
    BY <1>1, <1>2, <2>2 DEF Proper, Began, By, Of, OwnKinds, SentKinds, RowType, TextType
  <2> QED
    BY <2>1, <2>2
<1>5. ASSUME NEW v \in Workers, Doing(v)', work'[v].kind = "reply"
      PROVE  Sole(v)'
  <2>1. CASE v = w
    <3>1. work'[w].phase = "claiming" /\ work'[w].id \in Unborn
      BY <1>1, <1>5, <2>1 DEF Began
    <3>2. /\ writer[work'[w].id] = None
          /\ \A u \in Workers : Doing(u) => work[u].id # work'[w].id
      BY <3>1 DEF Unborn, WritersOf, Of
    <3>3. \A u \in Workers : Doing(u)' /\ work'[u].id = work'[w].id => u = w
      BY <1>1, <3>2 DEF Doing
    <3> QED
      BY <1>1, <2>1, <3>1, <3>2, <3>3 DEF Sole, Of
  <2>2. CASE v # w
    <3>1. Doing(v) /\ work'[v] = work[v] /\ Sole(v) /\ v \in WritersOf(work[v].id)
      BY <1>1, <1>2, <1>5, <2>2 DEF Doing, WritersOf, Of
    <3>2. CASE work[v].phase \in {"claiming", "releasing"}
      <4>1. /\ writer[work[v].id] = None /\ work[v].id \notin Unborn
            /\ \A u \in Workers : Doing(u) /\ Of(u) = Of(v) => u = v
        BY <1>5, <3>1, <3>2 DEF Sole, Of, Unborn
      <4>2. work'[w].id # work[v].id
        <5>1. SUFFICES ASSUME work'[w].id = work[v].id
                       PROVE  FALSE
          OBVIOUS
        <5>2. /\ work[v].id \notin shown
              /\ \A u \in WritersOf(work[v].id) : work[u].kind # "inReply"
          BY <1>2, <1>5, <3>1, <4>1 DEF RowType, WritersOf, Of
        <5> QED
          BY <1>1, <1>2, <4>1, <5>1, <5>2 DEF Began, Actors
      <4> QED
        BY <1>1, <1>5, <3>1, <3>2, <4>1, <4>2 DEF Sole, Of, Doing
    <3>3. CASE work[v].phase \notin {"claiming", "releasing"}
      BY <1>1, <1>5, <3>1, <3>3 DEF Sole, Of, By
    <3> QED
      BY <3>2, <3>3
  <2> QED
    BY <2>1, <2>2
<1> QED
  BY <1>3, <1>4, <1>5 DEF Sole
-----------------------------------------------------------------------------
(* Types, and what holds of the other interactions meanwhile *)

LEMMA TypedInit == AuthoringInit => Typed
<1> SUFFICES ASSUME AuthoringInit
             PROVE  Typed
  OBVIOUS
<1>1. None \notin Actors /\ None \notin Texts
  BY AuthoringAssumption
<1>2. MediaType
  BY DEF AuthoringInit, MediaType
<1>3. RowType /\ TextType /\ NoteType
  BY <1>1 DEF AuthoringInit, RowType, TextType, NoteType
<1>4. work = [w \in Workers |-> NoWork]
  BY DEF AuthoringInit
<1> QED
  BY <1>2, <1>3, <1>4 DEF Typed, WorkType, Proper, Sole, Doing

LEMMA TypedAside == Typed /\ UNCHANGED writing => Typed'
<1> SUFFICES ASSUME Typed, UNCHANGED writing
             PROVE  Typed'
  OBVIOUS
<1>1. UNCHANGED mediaVars /\ UNCHANGED rowVars /\ UNCHANGED textVars /\ work' = work
      /\ UNCHANGED notes
  BY DEF writing
<1>2. MediaType' /\ RowType' /\ TextType' /\ NoteType' /\ WorkType'
  BY <1>1 DEF Typed, MediaType, RowType, TextType, NoteType, WorkType, mediaVars, rowVars,
     textVars, notes
<1>3. \A w \in Workers : Proper(w)' /\ Sole(w)'
  BY <1>1 DEF Typed, Proper, Sole, Doing, By, Of, rowVars
<1> QED
  BY <1>2, <1>3 DEF Typed

LEMMA NextCases ==
  ASSUME [AuthoringNext]_<<vars, writing>>
  PROVE  \/ [Next]_vars /\ UNCHANGED writing
         \/ \E w \in Workers : WorkStep(w) \/ BeginWork(w)
BY DEF AuthoringNext, WorkStep

LEMMA TypedNext == Typed /\ [AuthoringNext]_<<vars, writing>> => Typed'
<1> SUFFICES ASSUME Typed, [AuthoringNext]_<<vars, writing>>
             PROVE  Typed'
  OBVIOUS
<1>1. ASSUME NEW w \in Workers, WorkStep(w) \/ BeginWork(w)
      PROVE  Typed'
  <2>1. WorkType' /\ \A v \in Workers : Proper(v)' /\ Sole(v)'
    BY <1>1, WorkStepTyped, BeginTyped
  <2> QED
    BY <1>1, <2>1, MediaStep, RowStep, TextStep, NoteStep DEF Typed
<1> QED
  BY <1>1, TypedAside, NextCases

\* Writers of replies touch nothing of Interactions but the number of interruptions.
LEMMA SettledStep ==
  ASSUME NEW w \in Workers, WorkStep(w) \/ BeginWork(w), crashes \in 0 .. MaxCrashes
  PROVE  UNCHANGED <<settled, live>> /\ crashes' \in 0 .. MaxCrashes
<1>1. CASE Interrupt(w) \/ FailReply(w)
  <2>1. UNCHANGED <<settled, live>> /\ crashes < MaxCrashes /\ crashes' = crashes + 1
    BY <1>1 DEF Interrupt, FailReply
  <2> QED
    BY <2>1, InteractionsAssumption
<1>2. CASE BeginWork(w)
  <2>1. UNCHANGED <<settled, live, crashes>>
    BY <1>2 DEF BeginWork, StartReply, StartEdit, StartInReply, StartDelete
  <2> QED
    BY <2>1
<1>3. CASE CreateStep(w) /\ ~FailReply(w)
  <2>1. UNCHANGED <<settled, live, crashes>>
    BY <1>3 DEF CreateStep, ClaimMedia, ReleaseMedia, InsertReply, InsertInReply, CountInReply,
       ReadTags, AddTags, LinkTags, MentionLocals, MentionRemotes
  <2> QED
    BY <2>1
<1>4. CASE EditStep(w) \/ RemoveReply(w) \/ UncountReply(w) \/ Retry(w)
  <2>1. UNCHANGED <<settled, live, crashes>>
    BY <1>4 DEF EditStep, UpdateText, Snapshot, AttachMedia, ClearTags, ClearMentions, RemoveReply,
       UncountReply, Retry
  <2> QED
    BY <2>1
<1> QED
  BY <1>1, <1>2, <1>3, <1>4 DEF WorkStep

LEMMA InvWhileWriting == Inv /\ [AuthoringNext]_<<vars, writing>> => Inv'
<1> SUFFICES ASSUME Inv, [AuthoringNext]_<<vars, writing>>
             PROVE  Inv'
  OBVIOUS
<1>1. ASSUME NEW w \in Workers, WorkStep(w) \/ BeginWork(w)
      PROVE  Inv'
  <2>1. TypeInv /\ crashes \in 0 .. MaxCrashes
    BY DEF Inv, TypeInv, RestType
  <2>2. UNCHANGED <<settled, live>> /\ crashes' \in 0 .. MaxCrashes
    BY <1>1, <2>1, SettledStep
  <2>3. UNCHANGED <<favVars, boostVars, pollVars, task, drifted>> /\ UNCHANGED <<fixed, live>>
    BY <2>2 DEF settled
  <2>4. TypeInv'
    BY <2>1, <2>2, <2>3 DEF TypeInv, FavType, BoostType, PollType, RestType, TaskType, Remembered,
       Busy, On, favVars, boostVars, pollVars, fixed
  <2> QED
    BY <2>3, <2>4, InvAside
<1> QED
  BY <1>1, InvNext, NextCases

LEMMA TypedHolds == AuthoringSpec => [](Inv /\ Typed)
<1>1. AuthoringInit => Inv /\ Typed
  BY InvInit, TypedInit DEF AuthoringInit
<1> QED
  BY <1>1, TypedNext, InvWhileWriting, PTL DEF AuthoringSpec

\* Every variable of both modules has its type in every reachable state; a reply
\* that is live or says something has a row, and no counter goes below zero.
THEOREM AuthoringTyped == AuthoringSpec => []AuthoringTypeOK
<1>1. Inv /\ Typed => AuthoringTypeOK
  BY TypeParts, AuthoringTypeParts DEF Inv, TypeInv, Typed
<1> QED
  BY <1>1, TypedHolds, PTL

\* Favourites, boosts and votes are counted and bounded as InteractionsProofs says
\* while replies to the same status are written, edited, removed and interrupted.
THEOREM InteractionsUndisturbed ==
  AuthoringSpec => [](CountersMatchRows /\ OneLocalBoost /\ NoPhantomVotes /\ VotesAreCounted)
<1>1. Inv => CountersMatchRows /\ OneLocalBoost /\ NoPhantomVotes /\ VotesAreCounted
  BY CountersFromInv, OneBoostFromInv, VotesFromInv DEF Inv, PhantomInv
<1> QED
  BY <1>1, TypedHolds, PTL
-----------------------------------------------------------------------------
(* The edit history *)

\* What an edit read is what the reply says, or said until another edit.
Saw(w) == Doing(w) /\ work[w].kind = "edit" =>
  /\ work[w].phase = "read" => work[w].seen \in past[Of(w)] \cup {text[Of(w)]}
  /\ work[w].phase = "updated" => work[w].seen \in past[Of(w)]

\* What the edits of reply i have yet to record.
ToRecord(i) == {work[w].seen : w \in {v \in Underway({"edit"}, "updated") : Of(v) = i}}

Recorded(i) ==
  /\ snapshots[i] \subseteq past[i]
  /\ i \notin skipped \cup unfinished => past[i] \subseteq snapshots[i] \cup ToRecord(i)

HistoryInv == (\A w \in Workers : Saw(w)) /\ \A i \in Replies : Recorded(i)

\* An edit is at "updated" only by its UPDATE, and leaves by its snapshot.
LEMMA EditPhase ==
  ASSUME WorkType, NEW w \in Workers, WorkStep(w), work[w].kind = "edit"
  PROVE  /\ Doing(w)' => /\ work'[w].phase # "read"
                         /\ work'[w].phase = "updated" => UpdateText(w) /\ Of(w) \in shown
         /\ work[w].phase = "updated" => Snapshot(w) \/ Interrupt(w)
<1>1. Kept(w) /\ Doing(w) /\ work[w] \in Works /\ work \in [Workers -> Works \cup {NoWork}]
  BY WorkStepWork DEF Onwards, Kept, WorkType
<1>2. work[w].phase = "updated" => Snapshot(w) \/ Interrupt(w)
  BY DEF WorkStep, CreateStep, ClaimMedia, FailReply, ReleaseMedia, InsertReply, InsertInReply,
     CountInReply, ReadTags, AddTags, LinkTags, MentionLocals, MentionRemotes, EditStep, UpdateText,
     AttachMedia, ClearTags, ClearMentions, RemoveReply, UncountReply, Retry, In
<1>3. ASSUME NEW phase \in WorkPhases, Proceed(w, phase)
      PROVE  work'[w].phase = phase
  BY <1>1, <1>3, ProceedWork DEF To
<1>4. CASE Finish(w)
  BY <1>1, <1>2, <1>4, FinishWork
<1>5. CASE UpdateText(w)
  BY <1>2, <1>3, <1>4, <1>5 DEF UpdateText, WorkPhases
<1>6. CASE Snapshot(w) \/ ClearTags(w) \/ ClearMentions(w)
  BY <1>2, <1>3, <1>4, <1>6 DEF Snapshot, ClearTags, ClearMentions, WorkPhases
<1>7. CASE AttachMedia(w)
  <2>1. PICK m \in work[w].files :
          Finish(w) \/ work' = [work EXCEPT ![w].files = @ \ {m}]
    BY <1>7 DEF AttachMedia
  <2>2. CASE work' = [work EXCEPT ![w].files = @ \ {m}]
    <3>1. work[w].phase = "attaching"
      BY <1>7 DEF AttachMedia, In
    <3>2. work'[w].phase = "attaching"
      BY <1>1, <2>2, <3>1 DEF Works
    <3> QED
      BY <1>2, <3>2
  <2> QED
    BY <1>4, <2>1, <2>2
<1>8. CASE ReadTags(w)
  <2>1. PICK B : work' = [work EXCEPT ![w].phase = "tagsRead", ![w].batch = B,
                                      ![w].missing = B \ known]
    BY <1>8 DEF ReadTags
  <2>2. work'[w].phase = "tagsRead"
    BY <1>1, <2>1 DEF Works
  <2> QED
    BY <1>2, <2>2
<1>9. CASE AddTags(w)
  BY <1>2, <1>3, <1>4, <1>9 DEF AddTags, WorkPhases
<1>10. CASE LinkTags(w)
  <2>1. work' = [work EXCEPT ![w].phase = "tagging", ![w].todo = {}, ![w].batch = {},
                             ![w].missing = {}]
    BY <1>10 DEF LinkTags
  <2>2. work'[w].phase = "tagging"
    BY <1>1, <2>1 DEF Works
  <2> QED
    BY <1>2, <2>2
<1>11. CASE MentionLocals(w)
  BY <1>4, <1>11 DEF MentionLocals, In
<1>12. CASE Interrupt(w)
  BY <1>2, <1>4, <1>12 DEF Interrupt, SentKinds
<1>13. ~Retry(w) /\ ~RemoveReply(w) /\ ~UncountReply(w) /\ ~MentionRemotes(w) /\ ~ClaimMedia(w)
       /\ ~FailReply(w) /\ ~ReleaseMedia(w) /\ ~InsertReply(w) /\ ~InsertInReply(w)
       /\ ~CountInReply(w)
  BY DEF Retry, RemoveReply, UncountReply, MentionRemotes, ClaimMedia, FailReply, ReleaseMedia,
     InsertReply, InsertInReply, CountInReply, In
<1> QED
  BY <1>5, <1>6, <1>7, <1>8, <1>9, <1>10, <1>11, <1>12, <1>13 DEF WorkStep, CreateStep, EditStep

LEMMA HistoryEffect ==
  ASSUME Typed, NEW w \in Workers, WorkStep(w) \/ BeginWork(w)
  PROVE  /\ \/ UpdateText(w)
            \/ past' = past /\ \A i \in Replies : text[i] # None => text'[i] = text[i]
         /\ Snapshot(w) \/ snapshots' = snapshots
         /\ UpdateText(w) => snapshots' = snapshots
         /\ Snapshot(w) => past' = past
         /\ skipped \subseteq skipped' /\ unfinished \subseteq unfinished'
<1>1. CASE BeginWork(w)
  BY <1>1, BeginEffect DEF textVars
<1>2. CASE CreateStep(w)
  <2>1. snapshots' = snapshots /\ past' = past /\ skipped \subseteq skipped'
        /\ unfinished \subseteq unfinished'
    BY <1>2 DEF CreateStep, ClaimMedia, FailReply, ReleaseMedia, InsertReply, InsertInReply,
       CountInReply, ReadTags, AddTags, LinkTags, MentionLocals, MentionRemotes, textVars, notes
  <2>2. ~UpdateText(w) /\ ~Snapshot(w)
    BY <1>2 DEF CreateStep, ClaimMedia, FailReply, ReleaseMedia, InsertReply, InsertInReply,
       CountInReply, ReadTags, AddTags, LinkTags, MentionLocals, MentionRemotes, UpdateText,
       Snapshot, In
  <2>3. \A i \in Replies : text[i] # None => text'[i] = text[i]
    BY <1>2, <2>2, RowEffect DEF Inserting, Insert, Typed, TextType
  <2> QED
    BY <2>1, <2>2, <2>3
<1>3. CASE UpdateText(w)
  <2>1. snapshots' = snapshots /\ unfinished' = unfinished /\ ~Snapshot(w)
    BY <1>3 DEF UpdateText, Snapshot, In
  <2>2. skipped \subseteq skipped'
    BY <1>3 DEF UpdateText
  <2> QED
    BY <1>3, <2>1, <2>2
<1>4. CASE Snapshot(w)
  <2>1. text' = text /\ past' = past /\ UNCHANGED notes /\ ~UpdateText(w)
    BY <1>4 DEF UpdateText, Snapshot, In
  <2> QED
    BY <1>4, <2>1 DEF notes
<1>5. CASE AttachMedia(w) \/ ClearTags(w) \/ ClearMentions(w)
  BY <1>5 DEF AttachMedia, ClearTags, ClearMentions, textVars, notes
<1>6. CASE RemoveReply(w) \/ UncountReply(w) \/ Retry(w) \/ Interrupt(w)
  BY <1>6 DEF RemoveReply, UncountReply, Retry, Interrupt, textVars, notes
<1> QED
  BY <1>1, <1>2, <1>3, <1>4, <1>5, <1>6 DEF WorkStep, EditStep

LEMMA ToRecordStep ==
  ASSUME NEW w \in Workers, NEW i, \A v \in Workers : v # w => work'[v] = work[v]
  PROVE  ToRecord(i) \subseteq
           ToRecord(i)' \cup (IF In(w, {"edit"}, "updated") /\ Of(w) = i THEN {work[w].seen} ELSE {})
<1> SUFFICES ASSUME NEW v \in Workers, In(v, {"edit"}, "updated"), Of(v) = i, v # w
             PROVE  work[v].seen \in ToRecord(i)'
  BY DEF ToRecord, Underway
<1>1. work'[v] = work[v]
  OBVIOUS
<1>2. In(v, {"edit"}, "updated")' /\ Of(v)' = i
  BY <1>1 DEF In, Doing, Of
<1> QED
  BY <1>1, <1>2 DEF ToRecord, Underway

LEMMA SawStep ==
  ASSUME Typed, NEW w \in Workers, WorkStep(w) \/ BeginWork(w), \A v \in Workers : Saw(v),
         NEW v \in Workers
  PROVE  Saw(v)'
<1> SUFFICES ASSUME Doing(v)', work'[v].kind = "edit"
             PROVE  /\ work'[v].phase = "read" => work'[v].seen \in past'[Of(v)'] \cup {text'[Of(v)']}
                    /\ work'[v].phase = "updated" => work'[v].seen \in past'[Of(v)']
  BY DEF Saw
<1>1. RowType /\ TextType /\ WorkType /\ None \notin Actors
  BY AuthoringAssumption DEF Typed
<1>2. ASSUME NEW i \in Replies, text[i] # None
      PROVE  past[i] \cup {text[i]} \subseteq past'[i] \cup {text'[i]} /\ past[i] \subseteq past'[i]
  <2>1. CASE UpdateText(w)
    <3>1. Of(w) \in Replies
      BY <1>1, <2>1, DoingWork DEF UpdateText, In
    <3> QED
      BY <1>1, <1>2, <2>1, <3>1 DEF UpdateText, TextType
  <2>2. CASE ~UpdateText(w)
    BY <1>2, <2>2, HistoryEffect
  <2> QED
    BY <2>1, <2>2
<1>3. CASE v = w /\ BeginWork(w)
  <2>1. work'[w].phase = "read" /\ work'[w].seen = text[work'[w].id] /\ text' = text
    BY <1>3, BeginEffect DEF Began, textVars
  <2> QED
    BY <1>3, <2>1 DEF Of
<1>4. CASE v = w /\ WorkStep(w)
  <2>1. /\ Kept(w) /\ Doing(w) /\ work[w].kind = "edit" /\ work'[w].seen = work[w].seen
        /\ Of(w)' = Of(w) /\ Of(w) \in Replies
    BY <1>1, <1>4, WorkStepWork, DoingWork DEF Onwards, Kept, Doing, Of
  <2>2. /\ work'[w].phase # "read"
        /\ work'[w].phase = "updated" => UpdateText(w) /\ Of(w) \in shown
    BY <1>1, <1>4, <2>1, EditPhase
  <2>3. CASE UpdateText(w) /\ Of(w) \in shown
    <3>1. /\ past'[Of(w)] = past[Of(w)] \cup {text[Of(w)]}
          /\ work[w].seen \in past[Of(w)] \cup {text[Of(w)]}
      BY <1>1, <2>1, <2>3 DEF UpdateText, In, Saw, TextType
    <3> QED
      BY <1>4, <2>1, <2>2, <3>1
  <2> QED
    BY <1>4, <2>2, <2>3
<1>5. CASE v # w
  <2>1. work'[v] = work[v]
    BY <1>1, <1>5, BeginEffect, WorkStepWork DEF Onwards, Kept
  <2>2. Doing(v) /\ Of(v)' = Of(v) /\ Of(v) \in Replies /\ work[v].kind = "edit" /\ Saw(v)
    BY <1>1, <2>1, DoingWork DEF Doing, Of
  <2>3. writer[Of(v)] # None
    BY <1>1, <2>2, DoingWork DEF Typed, Proper
  <2> QED
    BY <1>1, <1>2, <2>1, <2>2, <2>3 DEF Saw, TextType
<1> QED
  BY <1>3, <1>4, <1>5

LEMMA RecordedStep ==
  ASSUME Typed, NEW w \in Workers, WorkStep(w) \/ BeginWork(w), \A v \in Workers : Saw(v),
         NEW i \in Replies, Recorded(i)
  PROVE  Recorded(i)'
<1>1. /\ TextType /\ WorkType /\ (Doing(w) => Of(w) \in Replies)
      /\ \A v \in Workers : v # w => work'[v] = work[v]
  BY DoingWork, BeginEffect, WorkStepWork DEF Typed, Onwards, Kept
<1>2. skipped \subseteq skipped' /\ unfinished \subseteq unfinished'
  BY HistoryEffect
<1>3. CASE UpdateText(w) /\ Of(w) \in shown
  <2>1. /\ snapshots' = snapshots /\ Of(w) \in Replies
        /\ past' = [past EXCEPT ![Of(w)] = @ \cup {text[Of(w)]}]
        /\ skipped' = IF text[Of(w)] = work[w].seen THEN skipped ELSE skipped \cup {Of(w)}
        /\ In(w, {"edit"}, "read") /\ Proceed(w, "updated") /\ Doing(w)
    BY <1>1, <1>3 DEF UpdateText, In
  <2>2. ToRecord(i) \subseteq ToRecord(i)'
    BY <1>1, <2>1, ToRecordStep DEF In
  <2>3. CASE i # Of(w)
    BY <1>1, <1>2, <2>1, <2>2, <2>3 DEF Recorded, TextType
  <2>4. CASE i = Of(w)
    <3>1. past'[i] = past[i] \cup {text[i]} /\ snapshots'[i] = snapshots[i]
      BY <1>1, <2>1, <2>4 DEF TextType
    <3>2. work[w].seen \in ToRecord(i)'
      <4>1. To(w, "updated")
        BY <1>1, <2>1, ProceedWork DEF WorkPhases
      <4>2. In(w, {"edit"}, "updated")' /\ Of(w)' = i /\ work'[w].seen = work[w].seen
        BY <2>1, <2>4, <4>1 DEF To, Kept, In, Doing
      <4> QED
        BY <4>2 DEF ToRecord, Underway
    <3>3. i \notin skipped' => text[i] = work[w].seen
      BY <2>1, <2>4
    <3> QED
      BY <1>2, <2>2, <3>1, <3>2, <3>3 DEF Recorded
  <2> QED
    BY <2>3, <2>4
<1>4. CASE Snapshot(w)
  <2>1. /\ past' = past /\ Of(w) \in Replies /\ In(w, {"edit"}, "updated")
        /\ snapshots' = [snapshots EXCEPT ![Of(w)] = @ \cup {work[w].seen}]
    BY <1>1, <1>4 DEF Snapshot, In
  <2>2. CASE i # Of(w)
    <3>1. ToRecord(i) \subseteq ToRecord(i)'
      BY <1>1, <2>2, ToRecordStep
    <3> QED
      BY <1>1, <1>2, <2>1, <2>2, <3>1 DEF Recorded, TextType
  <2>3. CASE i = Of(w)
    <3>1. snapshots'[i] = snapshots[i] \cup {work[w].seen}
      BY <1>1, <2>1, <2>3 DEF TextType
    <3>2. work[w].seen \in past[i]
      BY <2>1, <2>3 DEF Saw, In
    <3>3. ToRecord(i) \subseteq ToRecord(i)' \cup {work[w].seen}
      BY <1>1, ToRecordStep
    <3> QED
      BY <1>2, <2>1, <3>1, <3>2, <3>3 DEF Recorded
  <2> QED
    BY <2>2, <2>3
<1>5. CASE ~Snapshot(w) /\ ~(UpdateText(w) /\ Of(w) \in shown)
  <2>1. snapshots' = snapshots /\ past' = past
    BY <1>5, HistoryEffect DEF UpdateText
  <2>2. CASE In(w, {"edit"}, "updated") /\ Of(w) = i
    <3>1. Interrupt(w)
      <4>1. WorkStep(w)
        BY <2>2, BeginEffect DEF In
      <4> QED
        BY <1>1, <1>5, <2>2, <4>1, EditPhase DEF In
    <3>2. i \in unfinished'
      BY <2>2, <3>1 DEF Interrupt, In
    <3> QED
      BY <2>1, <3>2 DEF Recorded
  <2>3. CASE ~(In(w, {"edit"}, "updated") /\ Of(w) = i)
    <3>1. ToRecord(i) \subseteq ToRecord(i)'
      BY <1>1, <2>3, ToRecordStep
    <3> QED
      BY <1>2, <2>1, <3>1 DEF Recorded
  <2> QED
    BY <2>2, <2>3
<1> QED
  BY <1>3, <1>4, <1>5

LEMMA HistoryNext == Typed /\ HistoryInv /\ [AuthoringNext]_<<vars, writing>> => HistoryInv'
<1> SUFFICES ASSUME Typed, HistoryInv, [AuthoringNext]_<<vars, writing>>
             PROVE  HistoryInv'
  OBVIOUS
<1>1. CASE UNCHANGED writing
  BY <1>1 DEF HistoryInv, Saw, Recorded, ToRecord, Underway, In, Doing, Of, writing, textVars, notes
<1>2. ASSUME NEW w \in Workers, WorkStep(w) \/ BeginWork(w)
      PROVE  HistoryInv'
  <2>1. \A v \in Workers : Saw(v)'
    BY <1>2, SawStep DEF HistoryInv
  <2>2. \A i \in Replies : Recorded(i)'
    BY <1>2, RecordedStep DEF HistoryInv
  <2> QED
    BY <2>1, <2>2 DEF HistoryInv
<1> QED
  BY <1>1, <1>2, NextCases

\* The edit history of a reply shows only what it said and, unless an edit replaced
\* a version it had not read or ended early, everything it said, except for what
\* edits under way have yet to record.
THEOREM HistoryOfEdits == AuthoringSpec => []HistoryIsTrue
<1>1. AuthoringInit => HistoryInv
  BY DEF AuthoringInit, HistoryInv, Saw, Recorded, Doing
<1>2. HistoryInv => HistoryIsTrue
  BY DEF HistoryInv, Recorded, ToRecord, HistoryIsTrue
<1>3. AuthoringSpec => [](Typed /\ HistoryInv)
  <2>1. AuthoringInit => Typed /\ HistoryInv
    BY <1>1, TypedInit
  <2> QED
    BY <2>1, TypedNext, HistoryNext, PTL DEF AuthoringSpec
<1> QED
  BY <1>2, <1>3, PTL
-----------------------------------------------------------------------------
(* Uploads *)

\* What a createStatus has claimed is on its status, and nothing else is there
\* before the row is.
Claims(w) == Doing(w) =>
  /\ \A m \in work[w].claimed : holder[m] = Of(w)
  /\ work[w].claimed # {} => work[w].kind = "reply"
  /\ work[w].kind = "reply" => \A m \in work[w].files \cup work[w].claimed : owner[m] = By(w)
  /\ Early(w) => \A m \in Media : holder[m] = Of(w) => m \in work[w].claimed

Held(m) == holder[m] # None =>
  /\ owner[m] \in Locals
  /\ \/ writer[holder[m]] = owner[m]
     \/ \E w \in WritersOf(holder[m]) : work[w].kind = "reply" /\ By(w) = owner[m]
     \/ holder[m] \in unfinished

MediaInv == (\A w \in Workers : Claims(w)) /\ \A m \in Media : Held(m)

\* A claim: one more upload, that was on no status.
Claiming(w, m) ==
  /\ m \in work[w].files /\ holder[m] = None /\ Early(w)
  /\ holder' = [holder EXCEPT ![m] = Of(w)]
  /\ Doing(w)' /\ work'[w].claimed = work[w].claimed \cup {m}
  /\ work'[w].files = work[w].files \ {m}

LEMMA MediaWork ==
  ASSUME WorkType, NEW w \in Workers, WorkStep(w), Doing(w)'
  PROVE  \/ \E m \in Media : Claiming(w, m)
         \/ work'[w].files \subseteq work[w].files /\ work'[w].claimed = work[w].claimed
<1> DEFINE Same == work'[w].files \subseteq work[w].files /\ work'[w].claimed = work[w].claimed
<1>1. /\ Kept(w) /\ Doing(w) /\ work[w] \in Works /\ work \in [Workers -> Works \cup {NoWork}]
      /\ ~Finish(w)
  BY WorkStepWork, FinishWork DEF Onwards, Kept, WorkType
<1>2. /\ work[w].files \in SUBSET Media /\ work[w].claimed \in SUBSET Media
      /\ work[w].todo \in SUBSET Tags /\ work[w].batch \in SUBSET Tags
  BY <1>1 DEF Works
<1>3. ASSUME NEW phase \in WorkPhases, Proceed(w, phase)
      PROVE  Same
  BY <1>1, <1>3, ProceedWork DEF To
<1>4. ASSUME NEW T \in SUBSET Tags, NextTag(w, T)
      PROVE  Same
  <2>1. work' = [work EXCEPT ![w].phase = "tagging", ![w].todo = T,
                             ![w].batch = {}, ![w].missing = {}]
    BY <1>1, <1>4 DEF NextTag
  <2> QED
    BY <1>1, <2>1 DEF Works
<1>5. CASE ClaimMedia(w)
  <2>1. PICK m \in work[w].files :
          IF holder[m] = None
            THEN /\ holder' = [holder EXCEPT ![m] = Of(w)]
                 /\ work' = [work EXCEPT ![w].files = @ \ {m}, ![w].claimed = @ \cup {m}]
            ELSE IF work[w].claimed = {} THEN Finish(w) ELSE Proceed(w, "releasing")
    BY <1>5 DEF ClaimMedia
  <2>2. CASE holder[m] = None
    <3> DEFINE F == work[w].files \ {m}
               C == work[w].claimed \cup {m}
    <3>1. work' = [work EXCEPT ![w] = [work[w] EXCEPT !.files = F, !.claimed = C]]
      BY <1>1, <2>1, <2>2
    <3>2. F \in SUBSET Media /\ C \in SUBSET Media
      BY <1>2
    <3>3. Early(w)
      BY <1>5 DEF ClaimMedia, In, Early
    <3> HIDE DEF F, C
    <3>4. work'[w].files = F /\ work'[w].claimed = C
      BY <1>1, <3>1, <3>2, FilesWork
    <3> QED
      BY <1>2, <2>1, <2>2, <3>3, <3>4 DEF Claiming, F, C
  <2>3. CASE holder[m] # None
    BY <1>1, <1>3, <2>1, <2>3 DEF WorkPhases
  <2> QED
    BY <2>2, <2>3
<1>6. CASE AttachMedia(w)
  <2>1. PICK m \in work[w].files :
          Finish(w) \/ work' = [work EXCEPT ![w].files = @ \ {m}]
    BY <1>6 DEF AttachMedia
  <2> QED
    BY <1>1, <2>1 DEF Works
<1>7. CASE ReadTags(w)
  <2>1. PICK B : work' = [work EXCEPT ![w].phase = "tagsRead", ![w].batch = B,
                                      ![w].missing = B \ known]
    BY <1>7 DEF ReadTags
  <2> QED
    BY <1>1, <2>1 DEF Works
<1>8. CASE LinkTags(w)
  <2>1. CASE NextTag(w, work[w].todo \ work[w].batch)
    BY <1>2, <1>4, <2>1
  <2>2. CASE work' = [work EXCEPT ![w].phase = "tagging", ![w].todo = {}, ![w].batch = {},
                                  ![w].missing = {}]
    BY <1>1, <2>2 DEF Works
  <2> QED
    BY <1>8, <2>1, <2>2 DEF LinkTags
<1>9. CASE AddTags(w)
  <2>1. Proceed(w, "tagged") \/ NextTag(w, work[w].todo \ work[w].batch)
    BY <1>1, <1>9 DEF AddTags
  <2> QED
    BY <1>2, <1>3, <1>4, <2>1 DEF WorkPhases
<1>10. CASE MentionLocals(w)
  <2>1. Proceed(w, "mentioned") \/ NextTag(w, work[w].todo)
    BY <1>1, <1>10 DEF MentionLocals
  <2> QED
    BY <1>2, <1>3, <1>4, <2>1 DEF WorkPhases
<1>11. CASE FailReply(w) \/ InsertReply(w) \/ InsertInReply(w) \/ CountInReply(w)
  <2>1. \E phase \in {"releasing", "tagging", "inserted", "queued", "counted"} : Proceed(w, phase)
    BY <1>1, <1>11 DEF FailReply, InsertReply, InsertInReply, CountInReply
  <2> QED
    BY <1>3, <2>1 DEF WorkPhases
<1>12. CASE UpdateText(w) \/ Snapshot(w) \/ ClearTags(w) \/ ClearMentions(w)
  <2>1. \E phase \in {"updated", "attaching", "tagging", "cleared"} : Proceed(w, phase)
    BY <1>1, <1>12 DEF UpdateText, Snapshot, ClearTags, ClearMentions
  <2> QED
    BY <1>3, <2>1 DEF WorkPhases
<1>13. CASE RemoveReply(w) \/ Interrupt(w) \/ Retry(w)
  <2>1. \E phase \in {"removed", "queued", "absent", "found"} : Proceed(w, phase)
    BY <1>1, <1>13 DEF RemoveReply, Interrupt, Retry
  <2> QED
    BY <1>3, <2>1 DEF WorkPhases
<1>14. ~ReleaseMedia(w) /\ ~MentionRemotes(w) /\ ~UncountReply(w)
  BY <1>1 DEF ReleaseMedia, MentionRemotes, UncountReply
<1> QED
  BY <1>5, <1>6, <1>7, <1>8, <1>9, <1>10, <1>11, <1>12, <1>13, <1>14
     DEF WorkStep, CreateStep, EditStep

Attaching(w, m) ==
  /\ Doing(w) /\ work[w].kind = "edit" /\ m \in AttachableTo(Of(w), By(w))
  /\ holder' = [holder EXCEPT ![m] = Of(w)]

LEMMA HolderEffect ==
  ASSUME Typed, NEW w \in Workers, WorkStep(w) \/ BeginWork(w)
  PROVE  /\ owner' = owner
         /\ \/ holder' = holder
            \/ WorkStep(w) /\ \E m \in Media : Claiming(w, m)
            \/ ReleaseMedia(w)
            \/ \E m \in Media : Attaching(w, m)
<1>1. CASE BeginWork(w)
  BY <1>1, BeginEffect DEF mediaVars
<1>2. CASE ClaimMedia(w)
  <2>1. owner' = owner
    BY <1>2 DEF ClaimMedia
  <2>2. CASE holder' # holder
    <3>1. PICK m \in work[w].files :
            /\ holder[m] = None
            /\ holder' = [holder EXCEPT ![m] = Of(w)]
            /\ work' = [work EXCEPT ![w].files = @ \ {m}, ![w].claimed = @ \cup {m}]
      BY <1>2, <2>2 DEF ClaimMedia
    <3>2. work[w] \in Works /\ Doing(w) /\ WorkType
      BY <1>2, DoingWork DEF ClaimMedia, In, Typed
    <3> DEFINE F == work[w].files \ {m}
               C == work[w].claimed \cup {m}
    <3>3. work' = [work EXCEPT ![w] = [work[w] EXCEPT !.files = F, !.claimed = C]]
      BY <3>1, <3>2 DEF WorkType
    <3>4. F \in SUBSET Media /\ C \in SUBSET Media /\ m \in Media
      BY <3>2 DEF Works
    <3>5. Early(w)
      BY <1>2 DEF ClaimMedia, In, Early
    <3> HIDE DEF F, C
    <3>6. work'[w].files = F /\ work'[w].claimed = C /\ Doing(w)'
      BY <3>2, <3>3, <3>4, FilesWork
    <3>7. Claiming(w, m)
      BY <3>1, <3>5, <3>6 DEF Claiming, F, C
    <3> QED
      BY <1>2, <2>1, <3>4, <3>7 DEF WorkStep, CreateStep
  <2> QED
    BY <2>1, <2>2
<1>3. CASE ReleaseMedia(w)
  BY <1>3 DEF ReleaseMedia
<1>4. CASE AttachMedia(w)
  BY <1>4 DEF AttachMedia, Attaching, In, AttachableTo
<1>5. CASE CreateStep(w) /\ ~ClaimMedia(w) /\ ~ReleaseMedia(w)
  BY <1>5 DEF CreateStep, FailReply, InsertReply, InsertInReply, CountInReply, ReadTags, AddTags,
     LinkTags, MentionLocals, MentionRemotes, mediaVars
<1>6. CASE (EditStep(w) /\ ~AttachMedia(w)) \/ RemoveReply(w) \/ UncountReply(w)
           \/ Interrupt(w) \/ Retry(w)
  BY <1>6 DEF EditStep, UpdateText, Snapshot, ClearTags, ClearMentions, RemoveReply, UncountReply,
     Interrupt, Retry, mediaVars
<1> QED
  BY <1>1, <1>2, <1>3, <1>4, <1>5, <1>6 DEF WorkStep

\* A createStatus that ends without a row holds nothing or was interrupted.
LEMMA EarlyEnd ==
  ASSUME Typed, NEW w \in Workers, WorkStep(w), Early(w), ~Doing(w)'
  PROVE  work[w].claimed = {} \/ ReleaseMedia(w) \/ Of(w) \in unfinished'
<1>1. WorkType /\ Doing(w)
  BY WorkStepWork DEF Typed, Onwards, Kept
<1>2. ASSUME NEW phase \in WorkPhases, Proceed(w, phase)
      PROVE  FALSE
  BY <1>1, <1>2, ProceedWork DEF To
<1>3. CASE ClaimMedia(w)
  <2>1. CASE \E m \in work[w].files :
               work' = [work EXCEPT ![w].files = @ \ {m}, ![w].claimed = @ \cup {m}]
    <3>1. PICK m : work' = [work EXCEPT ![w].files = @ \ {m}, ![w].claimed = @ \cup {m}]
      BY <2>1
    <3>2. work[w] \in Works /\ work'[w] = NoWork
      BY <1>1, DoingWork DEF Doing
    <3>3. work'[w].kind = work[w].kind
      BY <1>1, <3>1, <3>2 DEF WorkType, Works
    <3>4. work'[w].claimed = work[w].claimed \cup {m}
      BY <1>1, <3>1, <3>2 DEF WorkType, Works
    <3>5. work[w].kind = "reply"
      BY DEF Early
    <3> QED
      BY <3>2, <3>3, <3>5 DEF NoWork
  <2>2. CASE work[w].claimed # {} /\ Proceed(w, "releasing")
    BY <1>2, <2>2 DEF WorkPhases
  <2> QED
    BY <1>3, <2>1, <2>2 DEF ClaimMedia
<1>4. CASE FailReply(w)
  BY <1>2, <1>4 DEF FailReply, WorkPhases
<1>5. CASE InsertReply(w)
  BY <1>2, <1>5 DEF InsertReply, WorkPhases
<1>6. CASE Interrupt(w)
  BY <1>6 DEF Interrupt, Early
<1>7. CASE ~ClaimMedia(w) /\ ~FailReply(w) /\ ~InsertReply(w) /\ ~Interrupt(w)
  BY <1>7 DEF WorkStep, CreateStep, InsertInReply, CountInReply, ReadTags, AddTags, LinkTags,
     MentionLocals, MentionRemotes, EditStep, UpdateText, Snapshot, AttachMedia, ClearTags,
     ClearMentions, RemoveReply, UncountReply, Retry, In, Early
<1> QED
  BY <1>3, <1>4, <1>5, <1>6, <1>7
LEMMA UnbornHoldsNothing ==
  ASSUME Typed, \A m \in Media : Held(m), NEW i \in Unborn, NEW m \in Media
  PROVE  holder[m] # i
<1> SUFFICES ASSUME holder[m] = i
             PROVE  FALSE
  OBVIOUS
<1>1. i \in Replies /\ writer[i] = None /\ i \notin unfinished /\ WritersOf(i) = {}
  BY DEF Unborn
<1>2. None \notin Replies /\ None \notin Locals
  BY AuthoringAssumption DEF Actors
<1> QED
  BY <1>1, <1>2 DEF Held

LEMMA ClaimsStep ==
  ASSUME Typed, MediaInv, NEW w \in Workers, WorkStep(w) \/ BeginWork(w), NEW v \in Workers
  PROVE  Claims(v)'
<1> SUFFICES ASSUME Doing(v)'
             PROVE  /\ \A m \in work'[v].claimed : holder'[m] = Of(v)'
                    /\ work'[v].claimed # {} => work'[v].kind = "reply"
                    /\ work'[v].kind = "reply" =>
                         \A m \in work'[v].files \cup work'[v].claimed : owner'[m] = By(v)'
                    /\ Early(v)' => \A m \in Media : holder'[m] = Of(v)' => m \in work'[v].claimed
  BY DEF Claims
<1>1. /\ WorkType /\ MediaType /\ None \notin Replies /\ owner' = owner
      /\ \A u \in Workers : Doing(u) => Of(u) \in Replies /\ work[u] \in Works
      /\ \A u \in Workers : u # w => work'[u] = work[u]
  BY DoingWork, AuthoringAssumption, HolderEffect, BeginEffect, WorkStepWork
     DEF Typed, Onwards, Kept
<1>2. CASE v = w /\ BeginWork(w)
  <2>1. work'[w].claimed = {} /\ Began(w) /\ holder' = holder
    BY <1>2, BeginEffect DEF mediaVars
  <2>2. CASE work'[w].kind = "reply"
    <3>1. work'[w].id \in Unborn /\ work'[w].files \subseteq AttachableTo(work'[w].id, work'[w].actor)
      BY <2>1, <2>2 DEF Began
    <3>2. \A m \in Media : holder[m] # work'[w].id
      BY <3>1, UnbornHoldsNothing DEF MediaInv
    <3> QED
      BY <1>1, <1>2, <2>1, <3>1, <3>2 DEF AttachableTo, By, Of
  <2> QED
    BY <1>2, <2>1, <2>2 DEF Early
<1>3. CASE v = w /\ WorkStep(w)
  <2>1. /\ Doing(w) /\ work'[w].kind = work[w].kind /\ By(w)' = By(w) /\ Of(w)' = Of(w)
        /\ Early(w)' => Early(w)
        /\ Claims(w) /\ Of(w) \in Replies
    BY <1>1, <1>3, WorkStepWork DEF Onwards, Kept, Doing, By, Of, MediaInv
  <2>2. CASE \E m \in Media : Claiming(w, m)
    <3>1. PICK m \in Media : Claiming(w, m)
      BY <2>2
    <3>2. /\ work[w].kind = "reply" /\ work'[w].claimed = work[w].claimed \cup {m}
          /\ work'[w].files = work[w].files \ {m} /\ m \in work[w].files
          /\ \A n \in Media : holder'[n] = IF n = m THEN Of(w) ELSE holder[n]
      BY <1>1, <3>1 DEF Claiming, Early, MediaType
    <3>3. work[w].claimed \subseteq Media
      BY <1>1, <2>1 DEF Works
    <3>4. Early(w)
      BY <3>1 DEF Claiming
    <3> QED
      BY <1>1, <1>3, <2>1, <3>2, <3>3, <3>4 DEF Claims
  <2>3. CASE ~\E m \in Media : Claiming(w, m)
    <3>1. work'[w].files \subseteq work[w].files /\ work'[w].claimed = work[w].claimed
      BY <1>1, <1>3, <2>3, MediaWork
    <3>2. ~ReleaseMedia(w)
      BY <1>1, <1>3, FinishWork DEF ReleaseMedia, In
    <3>3. CASE holder' = holder
      BY <1>1, <1>3, <2>1, <3>1, <3>3 DEF Claims
    <3>4. CASE \E m \in Media : Attaching(w, m)
      <4>1. work[w].kind # "reply"
        BY <3>4 DEF Attaching
      <4>2. work[w].claimed = {} /\ ~Early(w)
        BY <2>1, <4>1 DEF Claims, Early
      <4> QED
        BY <1>3, <2>1, <3>1, <4>1, <4>2
    <3> QED
      BY <2>3, <3>2, <3>3, <3>4, HolderEffect
  <2> QED
    BY <2>2, <2>3
<1>4. CASE v # w
  <2>1. /\ work'[v] = work[v] /\ Doing(v) /\ By(v)' = By(v) /\ Of(v)' = Of(v)
        /\ Early(v)' = Early(v) /\ Claims(v) /\ Of(v) \in Replies
        /\ work[v].claimed \subseteq Media
    BY <1>1, <1>4 DEF Doing, By, Of, Early, MediaInv, Works
  <2>2. SUFFICES /\ \A m \in work[v].claimed : holder'[m] = Of(v)
                 /\ Early(v) => \A m \in Media : holder'[m] = Of(v) => holder[m] = Of(v)
    BY <1>1, <2>1 DEF Claims
  <2>3. \A m \in work[v].claimed : m \in Media /\ holder[m] = Of(v)
    BY <2>1 DEF Claims
  <2>4. CASE holder' = holder
    BY <2>3, <2>4
  <2>5. ASSUME NEW m \in Media, Claiming(w, m), WorkStep(w)
        PROVE  /\ \A n \in work[v].claimed : holder'[n] = Of(v)
               /\ Early(v) => \A n \in Media : holder'[n] = Of(v) => holder[n] = Of(v)
    <3>1. Early(w) /\ Doing(w)
      BY <2>5, WorkStepWork DEF Claiming, Typed, Onwards, Kept
    <3>2. Of(w) # Of(v)
      BY <1>4, <2>1, <3>1 DEF Typed, Sole, Early
    <3>3. holder[m] = None /\ \A n \in Media : holder'[n] = IF n = m THEN Of(w) ELSE holder[n]
      BY <1>1, <2>5 DEF Claiming, MediaType
    <3> QED
      BY <1>1, <2>1, <2>3, <3>2, <3>3
  <2>6. CASE ReleaseMedia(w)
    <3>1. Early(w) /\ Doing(w)
      BY <2>6 DEF ReleaseMedia, In, Early
    <3>2. Of(w) # Of(v)
      BY <1>4, <2>1, <3>1 DEF Typed, Sole, Early
    <3>3. \A n \in Media : holder'[n] = IF n \in work[w].claimed /\ holder[n] = Of(w)
                                          THEN None ELSE holder[n]
      BY <2>6 DEF ReleaseMedia
    <3> QED
      BY <1>1, <2>1, <2>3, <3>2, <3>3
  <2>7. ASSUME NEW m \in Media, Attaching(w, m)
        PROVE  /\ \A n \in work[v].claimed : holder'[n] = Of(v)
               /\ Early(v) => \A n \in Media : holder'[n] = Of(v) => holder[n] = Of(v)
    <3>1. Doing(w) /\ holder[m] \in {None, Of(w)}
          /\ \A n \in Media : holder'[n] = IF n = m THEN Of(w) ELSE holder[n]
      BY <1>1, <2>7 DEF Attaching, AttachableTo, MediaType
    <3>2. Early(v) => Of(w) # Of(v)
      BY <1>4, <2>1, <3>1 DEF Typed, Sole, Early
    <3> QED
      BY <1>1, <2>1, <2>3, <3>1, <3>2
  <2> QED
    BY <2>4, <2>5, <2>6, <2>7, HolderEffect
<1> QED
  BY <1>2, <1>3, <1>4

LEMMA HeldStep ==
  ASSUME Typed, MediaInv, NEW w \in Workers, WorkStep(w) \/ BeginWork(w), NEW m \in Media
  PROVE  Held(m)'
<1> SUFFICES ASSUME holder'[m] # None
             PROVE  /\ owner'[m] \in Locals
                    /\ \/ writer'[holder'[m]] = owner'[m]
                       \/ \E u \in WritersOf(holder[m])' :
                            work'[u].kind = "reply" /\ By(u)' = owner'[m]
                       \/ holder'[m] \in unfinished'
  BY DEF Held
<1>1. /\ WorkType /\ MediaType /\ None \notin Replies /\ None \notin Locals /\ owner' = owner
      /\ \A u \in Workers : u # w => work'[u] = work[u]
      /\ \A i \in Replies : writer[i] # None => writer'[i] = writer[i]
      /\ unfinished \subseteq unfinished'
  BY AuthoringAssumption, HolderEffect, BeginEffect, WorkStepWork, RowStep, HistoryEffect
     DEF Typed, Onwards, Kept, Actors
<1>2. CASE holder'[m] = holder[m]
  <2>1. Held(m) /\ owner[m] \in Locals /\ holder[m] \in Replies
    BY <1>1, <1>2 DEF MediaInv, Held, MediaType
  <2>2. CASE writer[holder[m]] = owner[m]
    BY <1>1, <1>2, <2>1, <2>2
  <2>3. CASE holder[m] \in unfinished
    BY <1>1, <1>2, <2>1, <2>3
  <2>4. ASSUME NEW u \in WritersOf(holder[m]), work[u].kind = "reply", By(u) = owner[m]
        PROVE  \/ writer'[holder'[m]] = owner'[m]
               \/ \E x \in WritersOf(holder[m])' : work'[x].kind = "reply" /\ By(x)' = owner'[m]
               \/ holder'[m] \in unfinished'
    <3>1. u \in Workers /\ Doing(u) /\ Of(u) = holder[m]
      BY <2>4 DEF WritersOf
    <3>2. CASE u # w
      <4>1. work'[u] = work[u]
        BY <1>1, <3>1, <3>2
      <4>2. u \in WritersOf(holder[m])' /\ work'[u].kind = "reply" /\ By(u)' = owner'[m]
        BY <1>1, <1>2, <2>4, <3>1, <4>1 DEF WritersOf, Doing, Of, By
      <4> QED
        BY <4>2
    <3>3. CASE u = w
      <4>1. WorkStep(w)
        BY <3>1, <3>3, BeginEffect
      <4>2. CASE Doing(w)'
        <5>1. work'[w].kind = work[w].kind /\ By(w)' = By(w) /\ Of(w)' = Of(w)
          BY <1>1, <4>1, <4>2, WorkStepWork DEF Onwards, Kept, Doing, By, Of
        <5>2. w \in WritersOf(holder[m])' /\ work'[w].kind = "reply" /\ By(w)' = owner'[m]
          BY <1>1, <1>2, <2>4, <3>1, <3>3, <4>2, <5>1 DEF WritersOf
        <5> QED
          BY <5>2
      <4>3. CASE ~Doing(w)' /\ Early(w)
        <5>1. m \in work[w].claimed
          BY <3>1, <3>3, <4>3 DEF MediaInv, Claims
        <5>2. ~ReleaseMedia(w)
          BY <1>1, <1>2, <2>1, <3>1, <3>3, <5>1 DEF ReleaseMedia
        <5>3. Of(w) \in unfinished'
          BY <4>1, <4>3, <5>1, <5>2, EarlyEnd
        <5> QED
          BY <1>2, <3>1, <3>3, <5>3
      <4>4. CASE ~Early(w)
        <5>1. writer[Of(w)] = By(w)
          BY <2>4, <3>1, <3>3, <4>4 DEF Typed, Sole, Early
        <5> QED
          BY <1>1, <1>2, <2>1, <2>4, <3>1, <3>3, <5>1
      <4> QED
        BY <4>2, <4>3, <4>4
    <3> QED
      BY <3>2, <3>3
  <2>5. \/ writer[holder[m]] = owner[m]
        \/ \E u \in WritersOf(holder[m]) : work[u].kind = "reply" /\ By(u) = owner[m]
        \/ holder[m] \in unfinished
    BY <1>2, <2>1 DEF Held
  <2> QED
    BY <1>1, <2>1, <2>2, <2>3, <2>4, <2>5
<1>3. CASE WorkStep(w) /\ Claiming(w, m)
  <2>1. /\ Doing(w) /\ Doing(w)' /\ work[w].kind = "reply" /\ m \in work[w].files
        /\ holder'[m] = Of(w)
    BY <1>1, <1>3, WorkStepWork DEF Claiming, Early, Onwards, Kept, MediaType
  <2>2. work'[w].kind = work[w].kind /\ By(w)' = By(w) /\ Of(w)' = Of(w)
    BY <1>1, <1>3, <2>1, WorkStepWork DEF Onwards, Kept, Doing, By, Of
  <2>3. owner[m] = By(w) /\ By(w) \in Locals
    BY <2>1 DEF MediaInv, Claims, Typed, Proper, OwnKinds
  <2>4. w \in WritersOf(holder[m])' /\ work'[w].kind = "reply" /\ By(w)' = owner'[m]
    BY <1>1, <2>1, <2>2, <2>3 DEF WritersOf
  <2> QED
    BY <1>1, <2>3, <2>4
<1>4. CASE Attaching(w, m)
  <2>1. /\ owner[m] = By(w) /\ By(w) \in Locals /\ writer[Of(w)] = By(w) /\ Of(w) \in Replies
        /\ holder'[m] = Of(w)
    BY <1>1, <1>4, DoingWork DEF Attaching, AttachableTo, Typed, Proper, OwnKinds, MediaType
  <2> QED
    BY <1>1, <2>1
<1>5. CASE holder'[m] # holder[m]
  <2>1. ~ReleaseMedia(w)
    BY <1>5 DEF ReleaseMedia
  <2>2. ASSUME NEW n \in Media, Claiming(w, n) \/ Attaching(w, n)
        PROVE  n = m
    BY <1>1, <1>5, <2>2 DEF Claiming, Attaching, MediaType
  <2> QED
    BY <1>3, <1>4, <1>5, <2>1, <2>2, HolderEffect
<1> QED
  BY <1>2, <1>5

LEMMA MediaNext == Typed /\ MediaInv /\ [AuthoringNext]_<<vars, writing>> => MediaInv'
<1> SUFFICES ASSUME Typed, MediaInv, [AuthoringNext]_<<vars, writing>>
             PROVE  MediaInv'
  OBVIOUS
<1>1. CASE UNCHANGED writing
  BY <1>1 DEF MediaInv, Claims, Held, WritersOf, Doing, Of, By, Early, writing, mediaVars, rowVars,
     notes
<1>2. ASSUME NEW w \in Workers, WorkStep(w) \/ BeginWork(w)
      PROVE  MediaInv'
  BY <1>2, ClaimsStep, HeldStep DEF MediaInv
<1> QED
  BY <1>1, <1>2, NextCases

\* Whatever requests compete for uploads, fail or are interrupted: what a request
\* has claimed stays on its status, uploads are on statuses of their owner, and one
\* that is on no row belongs to a request under way or to an interrupted one.
THEOREM UploadsAccountedFor == AuthoringSpec => []MediaAccountedFor
<1>1. AuthoringInit => MediaInv
  BY AuthoringAssumption DEF AuthoringInit, MediaInv, Claims, Held, Doing
<1>2. MediaInv => MediaAccountedFor
  BY DEF MediaInv, Claims, Held, MediaAccountedFor
<1>3. AuthoringSpec => [](Typed /\ MediaInv)
  <2>1. AuthoringInit => Typed /\ MediaInv
    BY <1>1, TypedInit
  <2> QED
    BY <2>1, TypedNext, MediaNext, PTL DEF AuthoringSpec
<1> QED
  BY <1>2, <1>3, PTL
-----------------------------------------------------------------------------
(* The counters of replies *)

Adding   == {"inReply"}
Removing == {"deleteReply", "inDeleteReply"}

ShownOf(a)     == {i \in shown : writer[i] = a}
UncountedOf(a) == {w \in Underway({"deleteReply"}, "removed") : By(w) = a}

ParentCount == ~miscounted =>
  replies + Cardinality(Underway(Adding, "inserted"))
    = Cardinality(shown) + Cardinality(Underway(Removing, "removed"))

WriterCount == ~miscounted => \A a \in Locals :
  written[a] = Cardinality(ShownOf(a)) + Cardinality(UncountedOf(a))

ReplyCount == IsFiniteSet(shown) /\ ParentCount /\ WriterCount

\* Worker w has still to count what it did.
OwesReply(w) == In(w, Adding, "inserted") \/ In(w, Removing, "removed")

LEMMA PhaseAfter ==
  ASSUME WorkType, NEW w \in Workers, WorkStep(w), Doing(w)',
         work'[w].phase \in {"inserted", "removed"}
  PROVE  InsertInReply(w) \/ RemoveReply(w)
<1> SUFFICES ASSUME ~InsertInReply(w), ~RemoveReply(w)
             PROVE  FALSE
  OBVIOUS
<1>1. /\ Kept(w) /\ Doing(w) /\ work[w] \in Works /\ work \in [Workers -> Works \cup {NoWork}]
      /\ ~Finish(w)
  BY WorkStepWork, FinishWork DEF Onwards, Kept, WorkType
<1>2. ASSUME NEW phase \in WorkPhases \ {"inserted", "removed"}, Proceed(w, phase)
      PROVE  FALSE
  BY <1>1, <1>2, ProceedWork DEF To
<1>3. ASSUME NEW T, NextTag(w, T)
      PROVE  FALSE
  <2>1. work' = [work EXCEPT ![w].phase = "tagging", ![w].todo = T,
                             ![w].batch = {}, ![w].missing = {}]
    BY <1>1, <1>3 DEF NextTag
  <2> QED
    BY <1>1, <2>1 DEF Works
<1>4. CASE ClaimMedia(w)
  <2>1. work[w].phase = "claiming"
    BY <1>4 DEF ClaimMedia, In
  <2>2. PICK m : \/ work' = [work EXCEPT ![w].files = @ \ {m}, ![w].claimed = @ \cup {m}]
                 \/ Proceed(w, "releasing")
    BY <1>1, <1>4 DEF ClaimMedia
  <2>3. CASE work' = [work EXCEPT ![w].files = @ \ {m}, ![w].claimed = @ \cup {m}]
    <3>1. work'[w].phase = "claiming"
      BY <1>1, <2>1, <2>3 DEF Works
    <3> QED
      BY <3>1
  <2> QED
    BY <1>2, <2>2, <2>3 DEF WorkPhases
<1>5. CASE AttachMedia(w)
  <2>1. PICK m \in work[w].files : work' = [work EXCEPT ![w].files = @ \ {m}]
    BY <1>1, <1>5 DEF AttachMedia
  <2>2. work[w].phase = "attaching"
    BY <1>5 DEF AttachMedia, In
  <2>3. work'[w].phase = "attaching"
    BY <1>1, <2>1, <2>2 DEF Works
  <2> QED
    BY <2>3
<1>6. CASE ReadTags(w)
  <2>1. PICK B : work' = [work EXCEPT ![w].phase = "tagsRead", ![w].batch = B,
                                      ![w].missing = B \ known]
    BY <1>6 DEF ReadTags
  <2>2. work'[w].phase = "tagsRead"
    BY <1>1, <2>1 DEF Works
  <2> QED
    BY <2>2
<1>7. CASE LinkTags(w)
  <2>1. work' = [work EXCEPT ![w].phase = "tagging", ![w].todo = {}, ![w].batch = {},
                             ![w].missing = {}]
    BY <1>3, <1>7 DEF LinkTags
  <2>2. work'[w].phase = "tagging"
    BY <1>1, <2>1 DEF Works
  <2> QED
    BY <2>2
<1>8. CASE AddTags(w) \/ MentionLocals(w)
  BY <1>1, <1>2, <1>3, <1>8 DEF AddTags, MentionLocals, WorkPhases
<1>9. CASE FailReply(w) \/ InsertReply(w) \/ CountInReply(w)
  <2>1. \E phase \in {"releasing", "tagging", "counted"} : Proceed(w, phase)
    BY <1>1, <1>9 DEF FailReply, InsertReply, CountInReply
  <2> QED
    BY <1>2, <2>1 DEF WorkPhases
<1>10. CASE UpdateText(w) \/ Snapshot(w) \/ ClearTags(w) \/ ClearMentions(w)
  <2>1. \E phase \in {"updated", "attaching", "tagging", "cleared"} : Proceed(w, phase)
    BY <1>1, <1>10 DEF UpdateText, Snapshot, ClearTags, ClearMentions
  <2> QED
    BY <1>2, <2>1 DEF WorkPhases
<1>11. CASE Interrupt(w) \/ Retry(w)
  <2>1. \E phase \in {"queued", "absent", "found"} : Proceed(w, phase)
    BY <1>1, <1>11 DEF Interrupt, Retry
  <2> QED
    BY <1>2, <2>1 DEF WorkPhases
<1>12. ~ReleaseMedia(w) /\ ~MentionRemotes(w) /\ ~UncountReply(w)
  BY <1>1 DEF ReleaseMedia, MentionRemotes, UncountReply
<1> QED
  BY <1>4, <1>5, <1>6, <1>7, <1>8, <1>9, <1>10, <1>11, <1>12 DEF WorkStep, CreateStep, EditStep

\* Five statements count or owe; no other step does.
Counting(w) ==
  InsertReply(w) \/ InsertInReply(w) \/ CountInReply(w) \/ RemoveReply(w) \/ UncountReply(w)

LEMMA MiscountStays ==
  ASSUME NEW w \in Workers, WorkStep(w) \/ BeginWork(w), miscounted
  PROVE  miscounted'
<1>1. CASE BeginWork(w)
  BY <1>1 DEF BeginWork, StartReply, StartEdit, StartInReply, StartDelete, notes
<1>2. CASE CreateStep(w)
  BY <1>2 DEF CreateStep, ClaimMedia, FailReply, ReleaseMedia, InsertReply, InsertInReply,
     CountInReply, ReadTags, AddTags, LinkTags, MentionLocals, MentionRemotes, notes
<1>3. CASE EditStep(w)
  BY <1>3 DEF EditStep, UpdateText, Snapshot, AttachMedia, ClearTags, ClearMentions, notes
<1>4. CASE RemoveReply(w) \/ UncountReply(w) \/ Interrupt(w) \/ Retry(w)
  BY <1>4 DEF RemoveReply, UncountReply, Interrupt, Retry, notes
<1> QED
  BY <1>1, <1>2, <1>3, <1>4 DEF WorkStep

LEMMA NoCounting ==
  ASSUME Typed, NEW w \in Workers, WorkStep(w) \/ BeginWork(w), ~Counting(w), ~miscounted'
  PROVE  UNCHANGED <<writer, shown, replies, written>> /\ ~OwesReply(w) /\ ~OwesReply(w)'
<1>1. WorkType
  BY DEF Typed
<1>2. CASE BeginWork(w)
  <2>1. UNCHANGED rowVars /\ ~Doing(w) /\ Began(w)
    BY <1>2, BeginEffect
  <2>2. work'[w].phase \notin {"inserted", "removed"}
    BY <2>1 DEF Began
  <2> QED
    BY <2>1, <2>2 DEF OwesReply, In, rowVars
<1>3. CASE WorkStep(w)
  <2>1. ~OwesReply(w)'
    BY <1>1, <1>3, PhaseAfter DEF Counting, OwesReply, In
  <2>2. ~OwesReply(w)
    <3>1. OwesReply(w) => Interrupt(w)
      BY <1>3 DEF WorkStep, CreateStep, ClaimMedia, FailReply, ReleaseMedia, ReadTags, AddTags,
         LinkTags, MentionLocals, MentionRemotes, EditStep, UpdateText, Snapshot, AttachMedia,
         ClearTags, ClearMentions, Retry, In, OwesReply, Adding, Removing, Counting
    <3>2. OwesReply(w) => work[w].phase \in {"inserted", "removed"}
      BY DEF OwesReply, In
    <3>3. Interrupt(w) => work[w].phase \notin {"inserted", "removed"}
      BY DEF Interrupt
    <3> QED
      BY <3>1, <3>2, <3>3
  <2>3. UNCHANGED <<writer, shown, replies, written>>
    <3>1. CASE CreateStep(w)
      BY <3>1 DEF CreateStep, ClaimMedia, FailReply, ReleaseMedia, ReadTags, AddTags, LinkTags,
         MentionLocals, MentionRemotes, rowVars, Counting
    <3>2. CASE EditStep(w)
      BY <3>2 DEF EditStep, UpdateText, Snapshot, AttachMedia, ClearTags, ClearMentions, rowVars
    <3>3. CASE Interrupt(w) \/ Retry(w)
      BY <3>3 DEF Interrupt, Retry, rowVars
    <3> QED
      BY <1>3, <3>1, <3>2, <3>3 DEF WorkStep, Counting
  <2> QED
    BY <2>1, <2>2, <2>3
<1> QED
  BY <1>2, <1>3

LEMMA UnderwayStep ==
  ASSUME NEW w \in Workers, \A v \in Workers : v # w => work'[v] = work[v],
         NEW kinds, NEW phase
  PROVE  LET P == Underway(kinds, phase) IN
         /\ Cardinality(P) \in Nat /\ Cardinality(P') \in Nat
         /\ (In(w, kinds, phase) <=> In(w, kinds, phase)') => P' = P
         /\ ~In(w, kinds, phase) /\ In(w, kinds, phase)' => Cardinality(P') = Cardinality(P) + 1
         /\ In(w, kinds, phase) /\ ~In(w, kinds, phase)' => Cardinality(P') = Cardinality(P) - 1
<1> DEFINE P == Underway(kinds, phase)
<1>1. IsFiniteSet(P)
  BY InteractionsAssumption, FS_Subset DEF Underway
<1>2. /\ w \in P <=> In(w, kinds, phase)
      /\ w \in P' <=> In(w, kinds, phase)'
  BY DEF Underway, In, Doing
<1>3. \A v : v # w => (v \in P <=> v \in P')
  BY DEF Underway, In, Doing
<1> HIDE DEF P
<1>4. /\ Cardinality(P) \in Nat /\ Cardinality(P') \in Nat
      /\ (w \in P <=> w \in P') => P' = P
      /\ w \notin P /\ w \in P' => Cardinality(P') = Cardinality(P) + 1
      /\ w \in P /\ w \notin P' => Cardinality(P') = Cardinality(P) - 1
  BY <1>1, <1>3, CardStep
<1> QED
  BY <1>2, <1>4 DEF P

LEMMA UncountedStep ==
  ASSUME NEW w \in Workers, \A v \in Workers : v # w => work'[v] = work[v], NEW a
  PROVE  LET P   == UncountedOf(a)
             in1 == In(w, {"deleteReply"}, "removed") /\ By(w) = a
             in2 == In(w, {"deleteReply"}, "removed")' /\ By(w)' = a
         IN
         /\ Cardinality(P) \in Nat /\ Cardinality(P') \in Nat
         /\ (in1 <=> in2) => P' = P
         /\ ~in1 /\ in2 => Cardinality(P') = Cardinality(P) + 1
         /\ in1 /\ ~in2 => Cardinality(P') = Cardinality(P) - 1
<1> DEFINE P == UncountedOf(a)
<1>1. IsFiniteSet(P)
  BY InteractionsAssumption, FS_Subset DEF UncountedOf, Underway
<1>2. /\ w \in P <=> In(w, {"deleteReply"}, "removed") /\ By(w) = a
      /\ w \in P' <=> In(w, {"deleteReply"}, "removed")' /\ By(w)' = a
  BY DEF UncountedOf, Underway, In, Doing
<1>3. \A v : v # w => (v \in P <=> v \in P')
  BY DEF UncountedOf, Underway, In, Doing, By
<1> HIDE DEF P
<1>4. /\ Cardinality(P) \in Nat /\ Cardinality(P') \in Nat
      /\ (w \in P <=> w \in P') => P' = P
      /\ w \notin P /\ w \in P' => Cardinality(P') = Cardinality(P) + 1
      /\ w \in P /\ w \notin P' => Cardinality(P') = Cardinality(P) - 1
  BY <1>1, <1>3, CardStep
<1> QED
  BY <1>2, <1>4 DEF P
LEMMA ShownFinite ==
  ASSUME IsFiniteSet(shown), NEW a
  PROVE  /\ IsFiniteSet(ShownOf(a)) /\ Cardinality(ShownOf(a)) \in Nat
         /\ Cardinality(shown) \in Nat
<1>1. ShownOf(a) \subseteq shown
  BY DEF ShownOf
<1>2. IsFiniteSet(ShownOf(a))
  BY <1>1, FS_Subset
<1> QED
  BY <1>2, FS_CardinalityType

LEMMA ShownInsert ==
  ASSUME Typed, NEW w \in Workers, IsFiniteSet(shown), Inserting(w)
  PROVE  /\ IsFiniteSet(shown') /\ Cardinality(shown') = Cardinality(shown) + 1
         /\ \A a \in Locals :
              Cardinality(ShownOf(a)') = Cardinality(ShownOf(a)) + (IF a = By(w) THEN 1 ELSE 0)
<1>1. /\ Of(w) \in Replies /\ writer[Of(w)] = None /\ RowType
      /\ writer' = [writer EXCEPT ![Of(w)] = By(w)] /\ shown' = shown \cup {Of(w)}
  BY DoingWork DEF Typed, Inserting, Insert
<1>2. /\ Of(w) \notin shown /\ shown \subseteq Replies /\ writer'[Of(w)] = By(w)
      /\ \A i \in Replies : i # Of(w) => writer'[i] = writer[i]
  BY <1>1 DEF RowType
<1>3. IsFiniteSet(shown') /\ Cardinality(shown') = Cardinality(shown) + 1
  BY <1>1, <1>2, FS_AddElement
<1>4. ASSUME NEW a \in Locals
      PROVE  Cardinality(ShownOf(a)') = Cardinality(ShownOf(a)) + (IF a = By(w) THEN 1 ELSE 0)
  <2>1. IsFiniteSet(ShownOf(a)) /\ Cardinality(ShownOf(a)) \in Nat
    BY ShownFinite
  <2>2. CASE a = By(w)
    <3>1. ShownOf(a)' = ShownOf(a) \cup {Of(w)} /\ Of(w) \notin ShownOf(a)
      BY <1>1, <1>2, <2>2 DEF ShownOf
    <3> QED
      BY <2>1, <2>2, <3>1, FS_AddElement
  <2>3. CASE a # By(w)
    <3>1. ShownOf(a)' = ShownOf(a)
      BY <1>1, <1>2, <2>3 DEF ShownOf
    <3> QED
      BY <2>1, <2>3, <3>1
  <2> QED
    BY <2>2, <2>3
<1> QED
  BY <1>3, <1>4

LEMMA ShownRemove ==
  ASSUME IsFiniteSet(shown), NEW i \in shown, shown' = shown \ {i}, writer' = writer
  PROVE  /\ IsFiniteSet(shown') /\ Cardinality(shown') = Cardinality(shown) - 1
         /\ \A a \in Locals :
              Cardinality(ShownOf(a)') = Cardinality(ShownOf(a)) - (IF a = writer[i] THEN 1 ELSE 0)
<1>1. IsFiniteSet(shown') /\ Cardinality(shown') = Cardinality(shown) - 1
  BY FS_RemoveElement
<1>2. ASSUME NEW a \in Locals
      PROVE  Cardinality(ShownOf(a)') = Cardinality(ShownOf(a)) - (IF a = writer[i] THEN 1 ELSE 0)
  <2>1. IsFiniteSet(ShownOf(a)) /\ Cardinality(ShownOf(a)) \in Nat
    BY ShownFinite
  <2>2. CASE a = writer[i]
    <3>1. ShownOf(a)' = ShownOf(a) \ {i} /\ i \in ShownOf(a)
      BY <2>2 DEF ShownOf
    <3> QED
      BY <2>1, <2>2, <3>1, FS_RemoveElement
  <2>3. CASE a # writer[i]
    <3>1. ShownOf(a)' = ShownOf(a)
      BY <2>3 DEF ShownOf
    <3> QED
      BY <2>1, <2>3, <3>1
  <2> QED
    BY <2>2, <2>3
<1> QED
  BY <1>1, <1>2

\* The task of w is in none of the sets that owe a count before or after.
LEMMA OwesNothing ==
  ASSUME NEW w \in Workers, \A v \in Workers : v # w => work'[v] = work[v],
         ~OwesReply(w), ~OwesReply(w)'
  PROVE  /\ Underway(Adding, "inserted")' = Underway(Adding, "inserted")
         /\ Underway(Removing, "removed")' = Underway(Removing, "removed")
         /\ \A a \in Locals : UncountedOf(a)' = UncountedOf(a)
BY UnderwayStep, UncountedStep DEF OwesReply, In, Removing

LEMMA CountsSame ==
  ASSUME NEW w \in Workers, ReplyCount, \A v \in Workers : v # w => work'[v] = work[v],
         ~OwesReply(w), ~OwesReply(w)', UNCHANGED <<writer, shown, replies, written>>,
         miscounted => miscounted'
  PROVE  ReplyCount'
<1>1. /\ Underway(Adding, "inserted")' = Underway(Adding, "inserted")
      /\ Underway(Removing, "removed")' = Underway(Removing, "removed")
      /\ \A a \in Locals : UncountedOf(a)' = UncountedOf(a)
  BY OwesNothing
<1>2. \A a \in Locals : ShownOf(a)' = ShownOf(a)
  BY DEF ShownOf
<1>3. ParentCount'
  BY <1>1 DEF ReplyCount, ParentCount
<1>4. WriterCount'
  BY <1>1, <1>2 DEF ReplyCount, WriterCount
<1> QED
  BY <1>3, <1>4 DEF ReplyCount

LEMMA InsertReplyCount ==
  ASSUME Typed, NEW w \in Workers, InsertReply(w), ReplyCount
  PROVE  ReplyCount'
<1>1. /\ WorkType /\ Doing(w) /\ work[w].kind = "reply" /\ writer[Of(w)] = None
      /\ By(w) \in Locals /\ Inserting(w)
  BY DEF InsertReply, In, Typed, Sole, Proper, OwnKinds, Inserting
<1>2. /\ \A v \in Workers : v # w => work'[v] = work[v]
      /\ ~OwesReply(w) /\ ~OwesReply(w)'
  <2>1. To(w, "tagging")
    BY <1>1, ProceedWork DEF InsertReply, WorkPhases
  <2> QED
    BY <1>1, <2>1 DEF To, Kept, OwesReply, In, Adding, Removing
<1>3. replies \in Nat /\ written \in [Locals -> Nat] /\ IsFiniteSet(shown)
  BY DEF Typed, RowType, ReplyCount
<1>4. /\ IsFiniteSet(shown') /\ Cardinality(shown') = Cardinality(shown) + 1
      /\ \A a \in Locals :
           Cardinality(ShownOf(a)') = Cardinality(ShownOf(a)) + (IF a = By(w) THEN 1 ELSE 0)
  BY <1>1, <1>3, ShownInsert
<1>5. /\ replies' = replies + 1 /\ miscounted' = miscounted
      /\ \A a \in Locals : written'[a] = written[a] + (IF a = By(w) THEN 1 ELSE 0)
  BY <1>1, <1>3 DEF InsertReply, notes
<1>6. /\ Underway(Adding, "inserted")' = Underway(Adding, "inserted")
      /\ Underway(Removing, "removed")' = Underway(Removing, "removed")
      /\ \A a \in Locals : UncountedOf(a)' = UncountedOf(a)
  BY <1>2, OwesNothing
<1>7. /\ Cardinality(Underway(Adding, "inserted")) \in Nat
      /\ Cardinality(Underway(Removing, "removed")) \in Nat /\ Cardinality(shown) \in Nat
      /\ \A a \in Locals : Cardinality(UncountedOf(a)) \in Nat /\ Cardinality(ShownOf(a)) \in Nat
  BY <1>2, <1>3, UnderwayStep, UncountedStep, ShownFinite
<1>8. ParentCount'
  BY <1>3, <1>4, <1>5, <1>6, <1>7 DEF ReplyCount, ParentCount
<1>9. WriterCount'
  <2>1. SUFFICES ASSUME ~miscounted', NEW a \in Locals
                 PROVE  written'[a] = Cardinality(ShownOf(a)') + Cardinality(UncountedOf(a)')
    BY DEF WriterCount
  <2>2. written[a] = Cardinality(ShownOf(a)) + Cardinality(UncountedOf(a))
    BY <1>5, <2>1 DEF ReplyCount, WriterCount
  <2> QED
    BY <1>4, <1>5, <1>6, <1>7, <2>2
<1> QED
  BY <1>4, <1>8, <1>9 DEF ReplyCount

LEMMA InsertInReplyCount ==
  ASSUME Typed, NEW w \in Workers, InsertInReply(w), ReplyCount
  PROVE  ReplyCount'
<1>1. WorkType /\ Doing(w) /\ work[w].kind = "inReply" /\ ~OwesReply(w)
  BY DEF InsertInReply, In, Typed, OwesReply, Adding, Removing
<1>2. /\ replies' = replies /\ written' = written /\ miscounted' = miscounted
      /\ replies \in Nat /\ IsFiniteSet(shown)
  BY DEF InsertInReply, notes, Typed, RowType, ReplyCount
<1>3. CASE writer[Of(w)] = None
  <2>1. Inserting(w) /\ Proceed(w, "inserted")
    BY <1>1, <1>3 DEF InsertInReply, Inserting
  <2>2. To(w, "inserted")
    BY <1>1, <2>1, ProceedWork DEF WorkPhases
  <2>3. /\ \A v \in Workers : v # w => work'[v] = work[v]
        /\ ~In(w, Adding, "inserted") /\ In(w, Adding, "inserted")'
        /\ ~In(w, Removing, "removed") /\ ~In(w, Removing, "removed")'
        /\ ~In(w, {"deleteReply"}, "removed") /\ ~In(w, {"deleteReply"}, "removed")'
    BY <1>1, <2>2 DEF To, Kept, In, Adding, Removing, OwesReply
  <2>4. /\ IsFiniteSet(shown') /\ Cardinality(shown') = Cardinality(shown) + 1
        /\ \A a \in Locals :
             Cardinality(ShownOf(a)') = Cardinality(ShownOf(a)) + (IF a = By(w) THEN 1 ELSE 0)
    BY <1>2, <2>1, ShownInsert
  <2>5. By(w) \in Remotes /\ By(w) \notin Locals
    BY <1>1, InteractionsAssumption DEF Typed, Proper, SentKinds
  <2>6. /\ Cardinality(Underway(Adding, "inserted")')
             = Cardinality(Underway(Adding, "inserted")) + 1
        /\ Underway(Removing, "removed")' = Underway(Removing, "removed")
        /\ \A a \in Locals : UncountedOf(a)' = UncountedOf(a)
    BY <2>3, UnderwayStep, UncountedStep
  <2>7. /\ Cardinality(Underway(Adding, "inserted")) \in Nat
        /\ Cardinality(Underway(Removing, "removed")) \in Nat /\ Cardinality(shown) \in Nat
        /\ \A a \in Locals : Cardinality(ShownOf(a)) \in Nat
    BY <1>2, <2>3, UnderwayStep, ShownFinite
  <2>8. ParentCount'
    BY <1>2, <2>4, <2>6, <2>7 DEF ReplyCount, ParentCount
  <2>9. \A a \in Locals : Cardinality(ShownOf(a)') = Cardinality(ShownOf(a))
    BY <2>4, <2>5, <2>7
  <2>10. WriterCount'
    BY <1>2, <2>6, <2>9 DEF ReplyCount, WriterCount
  <2> QED
    BY <2>4, <2>8, <2>10 DEF ReplyCount
<1>4. CASE writer[Of(w)] # None
  <2>1. To(w, "queued") /\ UNCHANGED <<writer, shown>>
    BY <1>1, <1>4, ProceedWork DEF InsertInReply, WorkPhases
  <2>2. (\A v \in Workers : v # w => work'[v] = work[v]) /\ ~OwesReply(w)'
    BY <2>1 DEF To, Kept, OwesReply, In
  <2> QED
    BY <1>1, <1>2, <2>1, <2>2, CountsSame
<1> QED
  BY <1>3, <1>4
LEMMA CountInReplyCount ==
  ASSUME Typed, NEW w \in Workers, CountInReply(w), ReplyCount
  PROVE  ReplyCount'
<1>1. WorkType /\ Doing(w) /\ In(w, Adding, "inserted") /\ work[w].kind = "inReply"
  BY DEF CountInReply, In, Typed, Adding
<1>2. /\ replies' = replies + 1 /\ written' = written /\ miscounted' = miscounted
      /\ writer' = writer /\ shown' = shown /\ replies \in Nat /\ IsFiniteSet(shown)
  BY DEF CountInReply, notes, Typed, RowType, ReplyCount
<1>3. To(w, "counted")
  BY <1>1, ProceedWork DEF CountInReply, WorkPhases
<1>4. /\ \A v \in Workers : v # w => work'[v] = work[v]
      /\ ~In(w, Adding, "inserted")'
      /\ ~In(w, Removing, "removed") /\ ~In(w, Removing, "removed")'
      /\ ~In(w, {"deleteReply"}, "removed") /\ ~In(w, {"deleteReply"}, "removed")'
  BY <1>1, <1>3 DEF To, Kept, In, Removing
<1>5. /\ Cardinality(Underway(Adding, "inserted")')
           = Cardinality(Underway(Adding, "inserted")) - 1
      /\ Underway(Removing, "removed")' = Underway(Removing, "removed")
      /\ \A a \in Locals : UncountedOf(a)' = UncountedOf(a) /\ ShownOf(a)' = ShownOf(a)
  BY <1>1, <1>2, <1>4, UnderwayStep, UncountedStep DEF ShownOf
<1>6. /\ Cardinality(Underway(Adding, "inserted")) \in Nat
      /\ Cardinality(Underway(Removing, "removed")) \in Nat /\ Cardinality(shown) \in Nat
  BY <1>2, <1>4, UnderwayStep, FS_CardinalityType
<1>7. ParentCount'
  BY <1>2, <1>5, <1>6 DEF ReplyCount, ParentCount
<1>8. WriterCount'
  BY <1>2, <1>5 DEF ReplyCount, WriterCount
<1> QED
  BY <1>2, <1>7, <1>8 DEF ReplyCount

LEMMA RemoveReplyCount ==
  ASSUME Typed, NEW w \in Workers, RemoveReply(w), ReplyCount, ~miscounted'
  PROVE  ReplyCount'
<1>1. /\ WorkType /\ Doing(w) /\ work[w].kind \in Removing /\ ~OwesReply(w)
      /\ writer[Of(w)] = By(w)
  BY DEF RemoveReply, In, Typed, Proper, OwesReply, Adding, Removing
<1>2. /\ replies' = replies /\ written' = written /\ ~miscounted /\ writer' = writer
      /\ replies \in Nat /\ written \in [Locals -> Nat] /\ IsFiniteSet(shown)
  BY DEF RemoveReply, notes, Typed, RowType, ReplyCount
<1>3. CASE Of(w) \in shown
  <2>1. Proceed(w, "removed") /\ shown' = shown \ {Of(w)}
    BY <1>3 DEF RemoveReply
  <2>2. To(w, "removed")
    BY <1>1, <2>1, ProceedWork DEF WorkPhases
  <2>3. /\ \A v \in Workers : v # w => work'[v] = work[v]
        /\ ~In(w, Adding, "inserted") /\ ~In(w, Adding, "inserted")'
        /\ ~In(w, Removing, "removed") /\ In(w, Removing, "removed")'
        /\ ~In(w, {"deleteReply"}, "removed") /\ By(w)' = By(w)
        /\ In(w, {"deleteReply"}, "removed")' <=> work[w].kind = "deleteReply"
    BY <1>1, <2>2 DEF To, Kept, In, Adding, Removing, OwesReply
  <2>4. /\ IsFiniteSet(shown') /\ Cardinality(shown') = Cardinality(shown) - 1
        /\ \A a \in Locals :
             Cardinality(ShownOf(a)') = Cardinality(ShownOf(a)) - (IF a = By(w) THEN 1 ELSE 0)
    BY <1>1, <1>2, <1>3, <2>1, ShownRemove
  <2>5. By(w) \in Locals <=> work[w].kind = "deleteReply"
    BY <1>1, InteractionsAssumption DEF Typed, Proper, OwnKinds, SentKinds, Removing
  <2>6. /\ Cardinality(Underway(Removing, "removed")')
             = Cardinality(Underway(Removing, "removed")) + 1
        /\ Underway(Adding, "inserted")' = Underway(Adding, "inserted")
    BY <2>3, UnderwayStep
  <2>7. /\ Cardinality(Underway(Adding, "inserted")) \in Nat
        /\ Cardinality(Underway(Removing, "removed")) \in Nat /\ Cardinality(shown) \in Nat
    BY <1>2, <2>3, UnderwayStep, FS_CardinalityType
  <2>8. ParentCount'
    BY <1>2, <2>4, <2>6, <2>7 DEF ReplyCount, ParentCount
  <2>9. ASSUME NEW a \in Locals
        PROVE  written'[a] = Cardinality(ShownOf(a)') + Cardinality(UncountedOf(a)')
    <3>1. /\ written[a] = Cardinality(ShownOf(a)) + Cardinality(UncountedOf(a))
          /\ Cardinality(ShownOf(a)) \in Nat /\ Cardinality(UncountedOf(a)) \in Nat
      BY <1>2, <2>3, ShownFinite, UncountedStep DEF ReplyCount, WriterCount
    <3>2. CASE a = By(w)
      <4>1. Cardinality(UncountedOf(a)') = Cardinality(UncountedOf(a)) + 1
        BY <2>3, <2>5, <3>2, UncountedStep
      <4>2. Cardinality(ShownOf(a)') = Cardinality(ShownOf(a)) - 1
        BY <2>4, <3>2
      <4> QED
        BY <1>2, <3>1, <4>1, <4>2
    <3>3. CASE a # By(w)
      <4>1. UncountedOf(a)' = UncountedOf(a)
        BY <2>3, <3>3, UncountedStep
      <4>2. Cardinality(ShownOf(a)') = Cardinality(ShownOf(a))
        BY <2>4, <3>1, <3>3
      <4> QED
        BY <1>2, <3>1, <4>1, <4>2
    <3> QED
      BY <3>2, <3>3
  <2> QED
    BY <2>4, <2>8, <2>9 DEF ReplyCount, WriterCount
<1>4. CASE Of(w) \notin shown
  <2>1. Finish(w) /\ shown' = shown
    BY <1>2, <1>4 DEF RemoveReply
  <2>2. (\A v \in Workers : v # w => work'[v] = work[v]) /\ ~OwesReply(w)'
    BY <1>1, <2>1, FinishWork DEF Kept, OwesReply, In
  <2> QED
    BY <1>1, <1>2, <2>1, <2>2, CountsSame
<1> QED
  BY <1>3, <1>4

LEMMA UncountReplyCount ==
  ASSUME Typed, NEW w \in Workers, UncountReply(w), ReplyCount, ~miscounted'
  PROVE  ReplyCount'
<1>1. WorkType /\ Doing(w) /\ work[w].kind \in Removing /\ In(w, Removing, "removed")
  BY DEF UncountReply, In, Typed, Removing
<1>2. /\ ~miscounted /\ writer' = writer /\ shown' = shown
      /\ replies \in Nat /\ written \in [Locals -> Nat] /\ IsFiniteSet(shown)
  BY DEF UncountReply, Typed, RowType, ReplyCount
<1>3. /\ replies' = replies - 1
      /\ \A a \in Locals : written'[a] = written[a] - (IF a = By(w) THEN 1 ELSE 0)
  <2>1. replies # 0 /\ (By(w) \in Locals => written[By(w)] # 0)
    BY DEF UncountReply
  <2> QED
    BY <1>2, <2>1 DEF UncountReply, Less
<1>4. /\ \A v \in Workers : v # w => work'[v] = work[v]
      /\ ~Doing(w)'
  BY <1>1, FinishWork DEF UncountReply, Kept
<1>5. /\ ~In(w, Adding, "inserted") /\ ~In(w, Adding, "inserted")'
      /\ ~In(w, Removing, "removed")' /\ ~In(w, {"deleteReply"}, "removed")'
      /\ In(w, {"deleteReply"}, "removed") <=> work[w].kind = "deleteReply"
  BY <1>1, <1>4 DEF In, Adding, Removing
<1>6. By(w) \in Locals <=> work[w].kind = "deleteReply"
  BY <1>1, InteractionsAssumption DEF Typed, Proper, OwnKinds, SentKinds, Removing
<1>7. /\ Cardinality(Underway(Removing, "removed")')
           = Cardinality(Underway(Removing, "removed")) - 1
      /\ Underway(Adding, "inserted")' = Underway(Adding, "inserted")
  BY <1>1, <1>4, <1>5, UnderwayStep
<1>8. /\ Cardinality(Underway(Adding, "inserted")) \in Nat
      /\ Cardinality(Underway(Removing, "removed")) \in Nat /\ Cardinality(shown) \in Nat
  BY <1>2, <1>4, UnderwayStep, FS_CardinalityType
<1>9. ParentCount'
  BY <1>2, <1>3, <1>7, <1>8 DEF ReplyCount, ParentCount
<1>10. ASSUME NEW a \in Locals
       PROVE  written'[a] = Cardinality(ShownOf(a)') + Cardinality(UncountedOf(a)')
  <2>1. /\ written[a] = Cardinality(ShownOf(a)) + Cardinality(UncountedOf(a))
        /\ Cardinality(ShownOf(a)) \in Nat /\ Cardinality(UncountedOf(a)) \in Nat
        /\ ShownOf(a)' = ShownOf(a)
    BY <1>2, <1>4, ShownFinite, UncountedStep DEF ReplyCount, WriterCount, ShownOf
  <2>2. CASE a = By(w)
    <3>1. Cardinality(UncountedOf(a)') = Cardinality(UncountedOf(a)) - 1
      BY <1>4, <1>5, <1>6, <2>2, UncountedStep
    <3> QED
      BY <1>2, <1>3, <2>1, <2>2, <3>1
  <2>3. CASE a # By(w)
    <3>1. UncountedOf(a)' = UncountedOf(a)
      BY <1>4, <1>5, <2>3, UncountedStep
    <3> QED
      BY <1>2, <1>3, <2>1, <2>3, <3>1
  <2> QED
    BY <2>2, <2>3
<1> QED
  BY <1>2, <1>9, <1>10 DEF ReplyCount, WriterCount

\* Rows stay finite in number whatever the counters say.
LEMMA ShownStaysFinite ==
  ASSUME Typed, NEW w \in Workers, WorkStep(w) \/ BeginWork(w), IsFiniteSet(shown)
  PROVE  IsFiniteSet(shown')
<1>1. CASE Inserting(w)
  BY <1>1, ShownInsert
<1>2. CASE RemoveReply(w)
  <2>1. shown' \subseteq shown
    BY <1>2 DEF RemoveReply
  <2> QED
    BY <2>1, FS_Subset
<1>3. CASE shown' = shown
  BY <1>3
<1> QED
  BY <1>1, <1>2, <1>3, RowEffect

LEMMA ReplyCountNext == Typed /\ ReplyCount /\ [AuthoringNext]_<<vars, writing>> => ReplyCount'
<1> SUFFICES ASSUME Typed, ReplyCount, [AuthoringNext]_<<vars, writing>>
             PROVE  ReplyCount'
  OBVIOUS
<1>1. CASE UNCHANGED writing
  <2>1. /\ writer' = writer /\ shown' = shown /\ replies' = replies /\ written' = written
        /\ miscounted' = miscounted /\ work' = work
    BY <1>1 DEF writing, rowVars, notes
  <2>2. /\ Underway(Adding, "inserted")' = Underway(Adding, "inserted")
        /\ Underway(Removing, "removed")' = Underway(Removing, "removed")
        /\ \A a : UncountedOf(a)' = UncountedOf(a) /\ ShownOf(a)' = ShownOf(a)
    BY <2>1 DEF Underway, UncountedOf, ShownOf, In, Doing, By
  <2> QED
    BY <2>1, <2>2 DEF ReplyCount, ParentCount, WriterCount
<1>2. ASSUME NEW w \in Workers, WorkStep(w) \/ BeginWork(w)
      PROVE  ReplyCount'
  <2>1. IsFiniteSet(shown') /\ (miscounted => miscounted')
    BY <1>2, ShownStaysFinite, MiscountStays DEF ReplyCount
  <2>2. \A v \in Workers : v # w => work'[v] = work[v]
    BY <1>2, BeginEffect, WorkStepWork DEF Typed, Onwards, Kept
  <2>3. CASE miscounted'
    BY <2>1, <2>3 DEF ReplyCount, ParentCount, WriterCount
  <2>4. CASE ~miscounted' /\ Counting(w)
    BY <2>4, InsertReplyCount, InsertInReplyCount, CountInReplyCount, RemoveReplyCount,
       UncountReplyCount DEF Counting
  <2>5. CASE ~miscounted' /\ ~Counting(w)
    <3>1. UNCHANGED <<writer, shown, replies, written>> /\ ~OwesReply(w) /\ ~OwesReply(w)'
      BY <1>2, <2>5, NoCounting
    <3> QED
      BY <2>1, <2>2, <3>1, CountsSame
  <2> QED
    BY <2>3, <2>4, <2>5
<1> QED
  BY <1>1, <1>2, NextCases

LEMMA ReplyCountInit == AuthoringInit => ReplyCount
<1> SUFFICES ASSUME AuthoringInit
             PROVE  ReplyCount
  OBVIOUS
<1>1. /\ shown = {} /\ replies = 0 /\ written = [a \in Locals |-> 0]
      /\ \A w \in Workers : ~Doing(w)
  BY DEF AuthoringInit, Doing
<1>2. /\ Underway(Adding, "inserted") = {} /\ Underway(Removing, "removed") = {}
      /\ \A a : UncountedOf(a) = {} /\ ShownOf(a) = {}
  BY <1>1 DEF Underway, UncountedOf, ShownOf, In
<1>3. IsFiniteSet({}) /\ Cardinality({}) = 0
  BY FS_EmptySet
<1> QED
  BY <1>1, <1>2, <1>3 DEF ReplyCount, ParentCount, WriterCount

\* replies_count of the parent and the part of statuses_count that replies make up
\* are the numbers of live rows, give or take what tasks in flight have still to
\* count, however many requests and activities overlap.
THEOREM RepliesAreRows == AuthoringSpec => []RepliesCounted
<1>1. ReplyCount => RepliesCounted
  <2>1. SUFFICES ASSUME ReplyCount, ~miscounted
                 PROVE  RepliesCounted
    BY DEF RepliesCounted
  <2>2. replies + Cardinality(Underway({"inReply"}, "inserted"))
          = Cardinality(shown)
            + Cardinality(Underway({"deleteReply", "inDeleteReply"}, "removed"))
    BY <2>1 DEF ReplyCount, ParentCount, Adding, Removing
  <2>3. \A a \in Locals :
          written[a] = Cardinality({i \in shown : writer[i] = a})
                       + Cardinality({w \in Underway({"deleteReply"}, "removed") : By(w) = a})
    BY <2>1 DEF ReplyCount, WriterCount, ShownOf, UncountedOf
  <2> QED
    BY <2>2, <2>3 DEF RepliesCounted
<1>2. AuthoringSpec => [](Typed /\ ReplyCount)
  <2>1. AuthoringInit => Typed /\ ReplyCount
    BY TypedInit, ReplyCountInit
  <2> QED
    BY <2>1, TypedNext, ReplyCountNext, PTL DEF AuthoringSpec
<1> QED
  BY <1>1, <1>2, PTL
-----------------------------------------------------------------------------
(* Hashtags and mentions *)

\* A task that writes the index of its reply: the row says what the task brought,
\* the hashtags and mentions do not yet.
Indexes(kind, phase) ==
  \/ kind = "reply" /\ phase \in {"tagging", "tagsRead", "tagged", "mentioned"}
  \/ kind = "inReply" /\ phase \in {"inserted", "counted", "tagging", "tagsRead", "tagged"}
  \/ kind = "edit" /\ phase \in {"updated", "attaching", "tagging", "tagsRead", "tagged", "cleared"}

Indexing(w) == Doing(w) /\ Indexes(work[w].kind, work[w].phase)
Engaged(w)  == Indexing(w) \/ In(w, {"edit"}, "read")

\* How far it has come: T are the terms of its text, named those of the row, old
\* the versions that were replaced.
Stage(kind, phase, T, todo, batch, named, old) ==
  /\ todo \subseteq T \cap Tags
  /\ phase \in {"tagsRead", "tagged"} =>
       IF kind = "inReply" THEN batch \subseteq todo ELSE batch = todo
  /\ phase \in {"inserted", "counted", "updated", "attaching"} => todo = T \cap Tags
  /\ kind = "reply" =>
       named = IF phase = "mentioned" THEN T \ RemoteNames ELSE (T \cap Tags) \ todo
  /\ kind = "inReply" =>
       named = IF phase \in {"inserted", "counted"} THEN {} ELSE (T \ RemoteNames) \ todo
  /\ kind = "edit" =>
       /\ old # {}
       /\ phase \in {"tagging", "tagsRead", "tagged"} => named \cap Tags = (T \cap Tags) \ todo
       /\ phase = "cleared" => named = T \cap Tags

Progress(w) == Indexing(w) =>
  /\ text[Of(w)] = work[w].text
  /\ Stage(work[w].kind, work[w].phase, TermsIn(work[w].text), work[w].todo, work[w].batch,
           terms[Of(w)], past[Of(w)])

\* Before it starts, it has all hashtags to do.
Prepared(w) ==
  /\ Indexing(w) /\ work[w].kind = "inReply" => writer[Of(w)] = By(w)
  /\ /\ Doing(w) /\ ~Indexing(w) /\ work[w].kind \in {"reply", "edit", "inReply"}
     /\ work[w].kind = "inReply" => writer[Of(w)] = None
     => work[w].todo = TermsIn(work[w].text) \cap Tags

Clear(i) == i \notin overlapped \cup unfinished

Match(i) ==
  /\ terms[i] \ RemoteNames = TermsIn(text[i]) \ RemoteNames
  /\ writer[i] \in Locals /\ past[i] = {} =>
       terms[i] \cap RemoteNames = TermsIn(text[i]) \cap RemoteNames

Indexed(i) ==
  IF writer[i] = None THEN terms[i] = {}
  ELSE (\A w \in Workers : Indexing(w) => Of(w) # i) => Match(i)

\* Only one task at a time is engaged with a reply, as long as edits do not overlap.
Engages(i) == \A v, w \in Workers :
  Engaged(v) /\ Engaged(w) /\ Of(v) = i /\ Of(w) = i => v = w

IndexInv ==
  /\ \A w \in Workers : Prepared(w)
  /\ \A w \in Workers : Doing(w) /\ Clear(Of(w)) => Progress(w)
  /\ \A i \in Replies : Clear(i) => Engages(i) /\ Indexed(i)

LEMMA NamesApart ==
  /\ Tags \cap LocalNames = {} /\ Tags \cap RemoteNames = {} /\ LocalNames \cap RemoteNames = {}
  /\ Terms = Tags \cup LocalNames \cup RemoteNames
BY AuthoringAssumption DEF Terms

LEMMA TermsInType ==
  ASSUME NEW t \in Texts
  PROVE  TermsIn(t) \in SUBSET Terms
BY AuthoringAssumption DEF TermsIn

\* The stages one by one.
LEMMA StageRead ==
  ASSUME NEW kind, NEW T, NEW d, NEW b, NEW B, NEW c, NEW p, Stage(kind, "tagging", T, d, b, c, p),
         IF kind = "inReply" THEN B \subseteq d ELSE B = d
  PROVE  Stage(kind, "tagsRead", T, d, B, c, p)
BY DEF Stage

LEMMA StageAdd ==
  ASSUME NEW kind, NEW T, NEW d, NEW b, NEW c, NEW p, Stage(kind, "tagsRead", T, d, b, c, p)
  PROVE  Stage(kind, "tagged", T, d, b, c, p)
BY DEF Stage

\* All hashtags at once.
LEMMA StageLink ==
  ASSUME NEW kind \in {"reply", "edit"}, NEW T, NEW d, NEW b, NEW c, NEW p,
         Stage(kind, "tagged", T, d, b, c, p)
  PROVE  Stage(kind, "tagging", T, {}, {}, c \cup (T \cap b), p)
BY DEF Stage

\* One hashtag of many.
LEMMA StageLinkOne ==
  ASSUME NEW T, NEW d, NEW b, NEW c, NEW p, Stage("inReply", "tagged", T, d, b, c, p)
  PROVE  /\ Stage("inReply", "tagging", T, d \ b, {}, c \cup (T \cap b), p)
         /\ d \ b = {} => c \cup (T \cap b) = T \ RemoteNames
<1>1. c = (T \ RemoteNames) \ d /\ b \subseteq d /\ d \subseteq T \cap Tags
  BY DEF Stage
<1>2. c \cup (T \cap b) = (T \ RemoteNames) \ (d \ b)
  BY <1>1, NamesApart
<1> QED
  BY <1>1, <1>2 DEF Stage

LEMMA StageMentionReply ==
  ASSUME NEW T \in SUBSET Terms, NEW b, NEW c, NEW p, Stage("reply", "tagging", T, {}, b, c, p)
  PROVE  /\ c \cup (T \cap LocalNames) = T \ RemoteNames
         /\ Stage("reply", "mentioned", T, {}, b, c \cup (T \cap LocalNames), p)
<1>1. c = T \cap Tags
  BY DEF Stage
<1>2. c \cup (T \cap LocalNames) = T \ RemoteNames
  BY <1>1, NamesApart
<1> QED
  BY <1>2 DEF Stage

LEMMA StageMentionEdit ==
  ASSUME NEW T \in SUBSET Terms, NEW d, NEW b, NEW c, NEW p, Stage("edit", "cleared", T, d, b, c, p)
  PROVE  c \cup (T \cap LocalNames) = T \ RemoteNames
<1>1. c = T \cap Tags
  BY DEF Stage
<1> QED
  BY <1>1, NamesApart

LEMMA StageMentionIn ==
  ASSUME NEW T \in SUBSET Terms, NEW d, NEW b, NEW c, NEW p,
         Stage("inReply", "counted", T, d, b, c, p)
  PROVE  /\ Stage("inReply", "tagging", T, d, {}, c \cup (T \cap LocalNames), p)
         /\ d = {} => c \cup (T \cap LocalNames) = T \ RemoteNames
<1>1. c = {} /\ d = T \cap Tags
  BY DEF Stage
<1>2. T \cap LocalNames = (T \ RemoteNames) \ d
  BY <1>1, NamesApart
<1> QED
  BY <1>1, <1>2 DEF Stage

LEMMA StageClear ==
  ASSUME NEW T, NEW d, NEW b, NEW c, NEW p, Stage("edit", "attaching", T, d, b, c, p)
  PROVE  Stage("edit", "tagging", T, d, b, c \ Tags, p)
BY DEF Stage

LEMMA StageForget ==
  ASSUME NEW T \in SUBSET Terms, NEW b, NEW c \in SUBSET Terms, NEW p,
         Stage("edit", "tagging", T, {}, b, c, p)
  PROVE  /\ Stage("edit", "cleared", T, {}, b, c \ (LocalNames \cup RemoteNames), p)
         /\ T \cap LocalNames = {} =>
              (c \ (LocalNames \cup RemoteNames)) \ RemoteNames = T \ RemoteNames
<1>1. c \cap Tags = T \cap Tags /\ p # {}
  BY DEF Stage
<1>2. c \ (LocalNames \cup RemoteNames) = T \cap Tags
  BY <1>1, NamesApart
<1>3. T \cap LocalNames = {} => (T \cap Tags) \ RemoteNames = T \ RemoteNames
  BY NamesApart
<1> QED
  BY <1>1, <1>2, <1>3 DEF Stage

\* The task goes on at `phase` with these hashtags to do.
Goes(w, phase, todo, batch) ==
  /\ Kept(w) /\ Doing(w)' /\ work'[w] \in Works
  /\ work'[w].phase = phase /\ work'[w].todo = todo /\ work'[w].batch = batch

LEMMA ProceedGoes ==
  ASSUME WorkType, NEW w \in Workers, Doing(w), NEW phase \in WorkPhases, Proceed(w, phase)
  PROVE  Goes(w, phase, work[w].todo, work[w].batch)
BY ProceedWork DEF To, Goes

LEMMA NextTagGoes ==
  ASSUME WorkType, NEW w \in Workers, Doing(w), NEW T \in SUBSET Tags, NextTag(w, T)
  PROVE  IF T = {} THEN ~Doing(w)' ELSE Goes(w, "tagging", T, {})
BY NextTagWork DEF Goes, Doing

LEMMA Advance ==
  ASSUME NEW w \in Workers, NEW phase, NEW d, NEW b, Goes(w, phase, d, b),
         scene' = scene, text' = text, text[Of(w)] = work[w].text,
         Indexes(work[w].kind, phase),
         Stage(work[w].kind, phase, TermsIn(work[w].text), d, b, terms'[Of(w)], past'[Of(w)])
  PROVE  Indexing(w)' /\ Progress(w)'
<1>1. /\ Doing(w)' /\ work'[w].kind = work[w].kind /\ work'[w].text = work[w].text
      /\ Of(w)' = Of(w) /\ work'[w].phase = phase /\ work'[w].todo = d /\ work'[w].batch = b
  BY DEF Goes, Kept, Doing, Of
<1>2. TermsIn(work[w].text)' = TermsIn(work[w].text)
  BY <1>1 DEF TermsIn
<1> DEFINE T == TermsIn(work[w].text)
<1>3. T' = T
  BY <1>2
<1> HIDE DEF T
<1>4. Stage(work'[w].kind, work'[w].phase, T', work'[w].todo, work'[w].batch, terms'[Of(w)'], past'[Of(w)'])
  BY <1>1, <1>3 DEF T
<1> QED
  BY <1>1, <1>4 DEF Indexing, Progress, T

\* The statements of an indexing task.
IndexStep(w) ==
  \/ CountInReply(w) \/ ReadTags(w) \/ AddTags(w) \/ LinkTags(w) \/ MentionLocals(w)
  \/ MentionRemotes(w) \/ Snapshot(w) \/ AttachMedia(w) \/ ClearTags(w) \/ ClearMentions(w)

LEMMA IndexingActions ==
  ASSUME NEW w \in Workers, WorkStep(w)
  PROVE  /\ Indexing(w) => IndexStep(w) \/ Interrupt(w)
         /\ IndexStep(w) => Indexing(w)
<1>1. Indexing(w) => IndexStep(w) \/ Interrupt(w)
  BY DEF WorkStep, CreateStep, ClaimMedia, FailReply, ReleaseMedia, InsertReply, InsertInReply,
     EditStep, UpdateText, RemoveReply, UncountReply, Retry, In, Indexing, Indexes, IndexStep
<1>2. IndexStep(w) => Indexing(w)
  BY DEF IndexStep, CountInReply, ReadTags, AddTags, LinkTags, MentionLocals, MentionRemotes,
     Snapshot, AttachMedia, ClearTags, ClearMentions, In, Indexing, Indexes
<1> QED
  BY <1>1, <1>2

LEMMA IndexStepRows ==
  ASSUME NEW w \in Workers, IndexStep(w)
  PROVE  UNCHANGED <<writer, text, past>>
BY DEF IndexStep, CountInReply, ReadTags, AddTags, LinkTags, MentionLocals, MentionRemotes,
   Snapshot, AttachMedia, ClearTags, ClearMentions, rowVars, textVars

LEMMA InterruptIndexing ==
  ASSUME NEW w \in Workers, Interrupt(w), Indexing(w)
  PROVE  Of(w) \in unfinished'
BY DEF Interrupt, Indexing, Indexes

LEMMA MatchFrom ==
  ASSUME NEW i, NEW t, scene' = scene, text'[i] = t,
         terms'[i] \ RemoteNames = TermsIn(t) \ RemoteNames,
         writer'[i] \in Locals /\ past'[i] = {} =>
           terms'[i] \cap RemoteNames = TermsIn(t) \cap RemoteNames
  PROVE  Match(i)'
BY DEF Match, TermsIn

\* A step of the index: the next stage, or its end with the index complete.
Advances(w, i) ==
  /\ Doing(w)' => Indexing(w)' /\ Progress(w)'
  /\ ~Doing(w)' => Match(i)'

LEMMA AdvanceTags ==
  ASSUME Typed, NEW w \in Workers, scene' = scene, Indexing(w), Progress(w), Prepared(w),
         NEW i, i = Of(w), i \notin unfinished',
         ReadTags(w) \/ AddTags(w) \/ LinkTags(w)
  PROVE  Advances(w, i)
<1> DEFINE T == TermsIn(work[w].text)
           k == work[w].kind
           d == work[w].todo
           b == work[w].batch
           c == terms[i]
           p == past[i]
<1>1. /\ Doing(w) /\ WorkType /\ TextType /\ work[w] \in Works /\ i \in Replies
      /\ work \in [Workers -> Works \cup {NoWork}]
      /\ d \in SUBSET Tags /\ b \in SUBSET Tags /\ k \in {"reply", "edit", "inReply"}
      /\ text[i] = work[w].text /\ Stage(k, work[w].phase, T, d, b, c, p)
  BY DoingWork DEF Typed, WorkType, Works, Indexing, Indexes, Progress
<1>2. UNCHANGED <<writer, text, past>>
  BY IndexStepRows DEF IndexStep
<1> HIDE DEF T
<1>3. CASE ReadTags(w)
  <2>1. PICK B \in IF k = "inReply" THEN {{g} : g \in d} ELSE {d} \ {{}} :
          work' = [work EXCEPT ![w].phase = "tagsRead", ![w].batch = B, ![w].missing = B \ known]
    BY <1>3 DEF ReadTags
  <2>2. B \in SUBSET Tags /\ (IF k = "inReply" THEN B \subseteq d ELSE B = d)
    BY <1>1, <2>1
  <2>3. [work[w] EXCEPT !.phase = "tagsRead", !.batch = B, !.missing = B \ known] =
        [work[w] EXCEPT !.phase = "tagsRead", !.todo = d, !.batch = B, !.missing = B \ known]
    BY <1>1 DEF Works
  <2>4. /\ work' = [work EXCEPT ![w] =
                     [work[w] EXCEPT !.phase = "tagsRead", !.todo = d, !.batch = B,
                                     !.missing = B \ known]]
        /\ "tagsRead" \in WorkPhases /\ B \ known \in SUBSET Tags
    BY <1>1, <2>1, <2>2, <2>3 DEF WorkPhases
  <2>5. Goes(w, "tagsRead", d, B)
    <3>1. Kept(w) /\ Doing(w)' /\ work'[w] \in Works
      BY <1>1, <2>2, <2>4, TagsWork
    <3>2. work'[w].phase = "tagsRead" /\ work'[w].todo = d /\ work'[w].batch = B
      BY <1>1, <2>1 DEF Works
    <3> QED
      BY <3>1, <3>2 DEF Goes
  <2>6. work[w].phase = "tagging" /\ terms' = terms
    BY <1>3 DEF ReadTags, In, textVars
  <2>7. Stage(k, "tagsRead", T, d, B, c, p)
    BY <1>1, <2>2, <2>6, StageRead
  <2>8. Indexing(w)' /\ Progress(w)'
    BY <1>1, <1>2, <2>5, <2>6, <2>7, Advance DEF Indexes, T
  <2> QED
    BY <2>5, <2>8 DEF Advances, Goes
<1>4. CASE AddTags(w)
  <2>1. Proceed(w, "tagged") /\ work[w].phase = "tagsRead" /\ terms' = terms
    BY <1>4 DEF AddTags, In
  <2>2. Goes(w, "tagged", d, b)
    BY <1>1, <2>1, ProceedGoes DEF WorkPhases
  <2>3. Stage(k, "tagged", T, d, b, c, p)
    BY <1>1, <2>1, StageAdd
  <2>4. Indexing(w)' /\ Progress(w)'
    BY <1>1, <1>2, <2>1, <2>2, <2>3, Advance DEF Indexes, T
  <2> QED
    BY <2>2, <2>4 DEF Advances, Goes
<1>5. CASE LinkTags(w)
  <2>1. work[w].phase = "tagged" /\ terms'[i] = c \cup (T \cap b)
    BY <1>1, <1>5 DEF LinkTags, In, Name, TextType, T
  <2>2. CASE k \in {"reply", "edit"}
    <3>1. work' = [work EXCEPT ![w].phase = "tagging", ![w].todo = {}, ![w].batch = {},
                               ![w].missing = {}]
      BY <1>5, <2>2 DEF LinkTags
    <3>2. /\ work' = [work EXCEPT ![w] = [work[w] EXCEPT !.phase = "tagging", !.todo = {},
                                                         !.batch = {}, !.missing = {}]]
          /\ "tagging" \in WorkPhases /\ {} \in SUBSET Tags
      BY <1>1, <3>1 DEF WorkPhases
    <3>3. Goes(w, "tagging", {}, {})
      <4>1. Kept(w) /\ Doing(w)' /\ work'[w] \in Works
        BY <1>1, <3>2, TagsWork
      <4>2. work'[w].phase = "tagging" /\ work'[w].todo = {} /\ work'[w].batch = {}
        BY <1>1, <3>1 DEF Works
      <4> QED
        BY <4>1, <4>2 DEF Goes
    <3>4. Stage(k, "tagging", T, {}, {}, c \cup (T \cap b), p)
      BY <1>1, <2>1, <2>2, StageLink
    <3>5. Indexing(w)' /\ Progress(w)'
      BY <1>1, <1>2, <2>1, <2>2, <3>3, <3>4, Advance DEF Indexes, T
    <3> QED
      BY <3>3, <3>5 DEF Advances, Goes
  <2>3. CASE k = "inReply"
    <3>1. NextTag(w, d \ b) /\ d \ b \in SUBSET Tags
      BY <1>1, <1>5, <2>3 DEF LinkTags
    <3>2. IF d \ b = {} THEN ~Doing(w)' ELSE Goes(w, "tagging", d \ b, {})
      BY <1>1, <3>1, NextTagGoes
    <3>3. Stage("inReply", "tagged", T, d, b, c, p)
      BY <1>1, <2>1, <2>3
    <3> HIDE DEF d, b, c, p
    <3>4. /\ Stage("inReply", "tagging", T, d \ b, {}, c \cup (T \cap b), p)
          /\ d \ b = {} => c \cup (T \cap b) = T \ RemoteNames
      BY <3>3, StageLinkOne
    <3>5. CASE d \ b = {}
      <4>1. writer[i] \notin Locals
        <5>1. writer[i] = By(w) /\ By(w) \in Remotes
          BY <1>1, <2>3 DEF Prepared, Typed, Proper, SentKinds
        <5> QED
          BY <5>1, InteractionsAssumption
      <4>2. terms'[i] \ RemoteNames = T \ RemoteNames
        BY <2>1, <3>4, <3>5
      <4>3. Match(i)'
        BY <1>1, <1>2, <4>1, <4>2, MatchFrom DEF T
      <4> QED
        BY <3>2, <3>5, <4>3 DEF Advances
    <3>6. CASE d \ b # {}
      <4>1. Indexing(w)' /\ Progress(w)'
        BY <1>1, <1>2, <2>1, <2>3, <3>2, <3>4, <3>6, Advance DEF Indexes, T, p
      <4> QED
        BY <3>2, <3>6, <4>1 DEF Advances, Goes
    <3> QED
      BY <3>5, <3>6
  <2> QED
    BY <1>1, <2>2, <2>3
<1> QED
  BY <1>3, <1>4, <1>5
\* What the lemmas on a step of the index start from.
LEMMA IndexingFacts ==
  ASSUME Typed, NEW w \in Workers, Indexing(w), Progress(w), IndexStep(w)
  PROVE  /\ Doing(w) /\ WorkType /\ TextType /\ work[w] \in Works /\ Of(w) \in Replies
         /\ work[w].todo \in SUBSET Tags
         /\ work[w].kind \in {"reply", "edit", "inReply"}
         /\ text[Of(w)] = work[w].text /\ TermsIn(work[w].text) \in SUBSET Terms
         /\ terms[Of(w)] \in SUBSET Terms
         /\ Stage(work[w].kind, work[w].phase, TermsIn(work[w].text), work[w].todo,
                  work[w].batch, terms[Of(w)], past[Of(w)])
         /\ UNCHANGED <<writer, text, past>>
<1>1. /\ Doing(w) /\ WorkType /\ TextType /\ work[w] \in Works /\ Of(w) \in Replies
      /\ work[w].todo \in SUBSET Tags
      /\ work[w].kind \in {"reply", "edit", "inReply"}
  BY DoingWork DEF Typed, WorkType, Works, Indexing, Indexes
<1>2. work[w].text \in Texts
  BY <1>1 DEF Typed, Proper
<1>3. TermsIn(work[w].text) \in SUBSET Terms
  BY <1>2, TermsInType
<1>4. terms[Of(w)] \in SUBSET Terms
  BY <1>1 DEF TextType
<1>5. /\ text[Of(w)] = work[w].text
      /\ Stage(work[w].kind, work[w].phase, TermsIn(work[w].text), work[w].todo,
               work[w].batch, terms[Of(w)], past[Of(w)])
  BY DEF Progress
<1> QED
  BY <1>1, <1>3, <1>4, <1>5, IndexStepRows

\* A remote reply is done when all but its remote mentions are there.
LEMMA MatchRemote ==
  ASSUME Typed, NEW w \in Workers, Indexing(w), Prepared(w), work[w].kind = "inReply",
         scene' = scene, writer' = writer, text' = text, text[Of(w)] = work[w].text,
         NEW i, i = Of(w),
         terms'[i] \ RemoteNames = TermsIn(work[w].text) \ RemoteNames
  PROVE  Match(i)'
<1>1. writer[i] = By(w) /\ By(w) \in Remotes
  BY DEF Prepared, Typed, Proper, SentKinds, Indexing
<1>2. writer'[i] \notin Locals
  BY <1>1, InteractionsAssumption
<1> QED
  BY <1>2, MatchFrom

\* So is an edit: it has replaced a version.
LEMMA MatchEdited ==
  ASSUME NEW w \in Workers, scene' = scene, text' = text, text[Of(w)] = work[w].text,
         NEW i, i = Of(w), past'[i] # {},
         terms'[i] \ RemoteNames = TermsIn(work[w].text) \ RemoteNames
  PROVE  Match(i)'
BY MatchFrom

LEMMA AdvanceMentionLocals ==
  ASSUME Typed, NEW w \in Workers, scene' = scene, Indexing(w), Progress(w), Prepared(w),
         NEW i, i = Of(w), MentionLocals(w)
  PROVE  Advances(w, i)
<1> DEFINE T == TermsIn(work[w].text)
           k == work[w].kind
           d == work[w].todo
           b == work[w].batch
           c == terms[i]
           p == past[i]
<1>1. /\ Doing(w) /\ WorkType /\ TextType /\ work[w] \in Works /\ i \in Replies
      /\ d \in SUBSET Tags /\ k \in {"reply", "edit", "inReply"}
      /\ text[i] = work[w].text /\ T \in SUBSET Terms
      /\ Stage(k, work[w].phase, T, d, b, c, p)
      /\ UNCHANGED <<writer, text, past>>
  BY IndexingFacts DEF IndexStep
<1>2. terms'[i] = c \cup (T \cap LocalNames)
  BY <1>1 DEF MentionLocals, Name, TextType
<1> HIDE DEF T
<1>3. CASE In(w, {"reply"}, "tagging")
  <2>1. /\ d = {} /\ k = "reply" /\ work[w].phase = "tagging"
        /\ (IF T \cap RemoteNames = {} THEN Finish(w) ELSE Proceed(w, "mentioned"))
    BY <1>3 DEF MentionLocals, In, T
  <2>2. Stage("reply", "tagging", T, {}, b, c, p)
    BY <1>1, <2>1
  <2> HIDE DEF b, c, p
  <2>3. /\ c \cup (T \cap LocalNames) = T \ RemoteNames
        /\ Stage("reply", "mentioned", T, {}, b, c \cup (T \cap LocalNames), p)
    BY <1>1, <2>2, StageMentionReply
  <2>4. CASE T \cap RemoteNames = {}
    <3>1. ~Doing(w)'
      BY <1>1, <2>1, <2>4, FinishWork
    <3>2. /\ terms'[i] \ RemoteNames = T \ RemoteNames
          /\ terms'[i] \cap RemoteNames = T \cap RemoteNames
      BY <1>2, <2>3, <2>4
    <3>3. Match(i)'
      BY <1>1, <3>2, MatchFrom DEF T
    <3> QED
      BY <3>1, <3>3 DEF Advances
  <2>5. CASE T \cap RemoteNames # {}
    <3>1. Goes(w, "mentioned", {}, b)
      BY <1>1, <2>1, <2>5, ProceedGoes DEF WorkPhases, b
    <3>2. Indexing(w)' /\ Progress(w)'
      BY <1>1, <1>2, <2>1, <2>3, <3>1, Advance DEF Indexes, T, p
    <3> QED
      BY <3>1, <3>2 DEF Advances, Goes
  <2> QED
    BY <2>4, <2>5
<1>4. CASE In(w, {"edit"}, "cleared")
  <2>1. k = "edit" /\ work[w].phase = "cleared" /\ Finish(w)
    BY <1>4 DEF MentionLocals, In
  <2>2. Stage("edit", "cleared", T, d, b, c, p) /\ p # {}
    BY <1>1, <2>1 DEF Stage
  <2> HIDE DEF d, b, c, p
  <2>3. c \cup (T \cap LocalNames) = T \ RemoteNames
    BY <1>1, <2>2, StageMentionEdit
  <2>4. ~Doing(w)'
    BY <1>1, <2>1, FinishWork
  <2>5. terms'[i] \ RemoteNames = T \ RemoteNames
    BY <1>2, <2>3
  <2>6. Match(i)'
    BY <1>1, <2>2, <2>5, MatchEdited DEF T, p
  <2> QED
    BY <2>4, <2>6 DEF Advances
<1>5. CASE In(w, {"inReply"}, "counted")
  <2>1. k = "inReply" /\ work[w].phase = "counted" /\ NextTag(w, d)
    BY <1>5 DEF MentionLocals, In
  <2>2. Stage("inReply", "counted", T, d, b, c, p)
    BY <1>1, <2>1
  <2>3. IF d = {} THEN ~Doing(w)' ELSE Goes(w, "tagging", d, {})
    BY <1>1, <2>1, NextTagGoes
  <2> HIDE DEF d, b, c, p
  <2>4. /\ Stage("inReply", "tagging", T, d, {}, c \cup (T \cap LocalNames), p)
        /\ d = {} => c \cup (T \cap LocalNames) = T \ RemoteNames
    BY <1>1, <2>2, StageMentionIn
  <2>5. CASE d = {}
    <3>1. terms'[i] \ RemoteNames = T \ RemoteNames
      BY <1>2, <2>4, <2>5
    <3>2. Match(i)'
      BY <1>1, <2>1, <3>1, MatchRemote DEF T
    <3> QED
      BY <2>3, <2>5, <3>2 DEF Advances
  <2>6. CASE d # {}
    <3>1. Indexing(w)' /\ Progress(w)'
      BY <1>1, <1>2, <2>1, <2>3, <2>4, <2>6, Advance DEF Indexes, T, p
    <3> QED
      BY <2>3, <2>6, <3>1 DEF Advances, Goes
  <2> QED
    BY <2>5, <2>6
<1> QED
  BY <1>3, <1>4, <1>5 DEF MentionLocals
LEMMA AdvanceMentionRemotes ==
  ASSUME Typed, NEW w \in Workers, scene' = scene, Indexing(w), Progress(w),
         NEW i, i = Of(w), MentionRemotes(w)
  PROVE  Advances(w, i)
<1> DEFINE T == TermsIn(work[w].text)
           c == terms[i]
<1>1. /\ Doing(w) /\ WorkType /\ TextType /\ i \in Replies
      /\ text[i] = work[w].text /\ T \in SUBSET Terms
      /\ Stage(work[w].kind, work[w].phase, T, work[w].todo, work[w].batch, c, past[i])
      /\ UNCHANGED <<writer, text, past>>
  BY IndexingFacts DEF IndexStep
<1>2. terms'[i] = c \cup (T \cap RemoteNames)
  BY <1>1 DEF MentionRemotes, Name, TextType
<1> HIDE DEF T
<1>3. work[w].kind = "reply" /\ work[w].phase = "mentioned" /\ Finish(w)
  BY DEF MentionRemotes, In
<1>4. c = T \ RemoteNames
  BY <1>1, <1>3 DEF Stage
<1>5. terms'[i] = T
  BY <1>2, <1>4
<1>6. Match(i)'
  BY <1>1, <1>5, MatchFrom DEF T
<1>7. ~Doing(w)'
  BY <1>1, <1>3, FinishWork
<1> QED
  BY <1>6, <1>7 DEF Advances

LEMMA AdvanceRest ==
  ASSUME Typed, NEW w \in Workers, scene' = scene, Indexing(w), Progress(w),
         NEW i, i = Of(w), i \notin unfinished',
         CountInReply(w) \/ Snapshot(w) \/ AttachMedia(w) \/ ClearTags(w) \/ ClearMentions(w)
  PROVE  Advances(w, i)
<1> DEFINE T == TermsIn(work[w].text)
           k == work[w].kind
           d == work[w].todo
           b == work[w].batch
           c == terms[i]
           p == past[i]
<1>1. /\ Doing(w) /\ WorkType /\ TextType /\ work[w] \in Works /\ i \in Replies
      /\ d \in SUBSET Tags /\ k \in {"reply", "edit", "inReply"}
      /\ text[i] = work[w].text /\ T \in SUBSET Terms /\ c \in SUBSET Terms
      /\ Stage(k, work[w].phase, T, d, b, c, p)
      /\ UNCHANGED <<writer, text, past>>
  BY IndexingFacts DEF IndexStep
<1> HIDE DEF T
<1>2. CASE CountInReply(w)
  <2>1. /\ k = "inReply" /\ work[w].phase = "inserted" /\ Proceed(w, "counted") /\ terms' = terms
    BY <1>2 DEF CountInReply, In, textVars
  <2>2. Goes(w, "counted", d, b)
    BY <1>1, <2>1, ProceedGoes DEF WorkPhases
  <2>3. Stage(k, "counted", T, d, b, c, p)
    BY <1>1, <2>1 DEF Stage
  <2>4. Indexing(w)' /\ Progress(w)'
    BY <1>1, <2>1, <2>2, <2>3, Advance DEF Indexes, T
  <2> QED
    BY <2>2, <2>4 DEF Advances, Goes
<1>3. CASE Snapshot(w)
  <2>1. /\ k = "edit" /\ work[w].phase = "updated" /\ Proceed(w, "attaching") /\ terms' = terms
    BY <1>3 DEF Snapshot, In
  <2>2. Goes(w, "attaching", d, b)
    BY <1>1, <2>1, ProceedGoes DEF WorkPhases
  <2>3. Stage(k, "attaching", T, d, b, c, p)
    BY <1>1, <2>1 DEF Stage
  <2>4. Indexing(w)' /\ Progress(w)'
    BY <1>1, <2>1, <2>2, <2>3, Advance DEF Indexes, T
  <2> QED
    BY <2>2, <2>4 DEF Advances, Goes
<1>4. CASE AttachMedia(w)
  <2>1. PICK m \in work[w].files : work' = [work EXCEPT ![w].files = @ \ {m}]
    BY <1>4 DEF AttachMedia
  <2>2. k = "edit" /\ work[w].phase = "attaching" /\ terms' = terms
    BY <1>4 DEF AttachMedia, In, textVars
  <2> DEFINE F == work[w].files \ {m}
             C == work[w].claimed
  <2>3. F \in SUBSET Media /\ C \in SUBSET Media
        /\ [work[w] EXCEPT !.files = F] = [work[w] EXCEPT !.files = F, !.claimed = C]
    BY <1>1 DEF Works
  <2>4. work' = [work EXCEPT ![w] = [work[w] EXCEPT !.files = F, !.claimed = C]]
    BY <1>1, <2>1, <2>3
  <2>5. work'[w].todo = d /\ work'[w].batch = b
    BY <1>1, <2>1 DEF Works, WorkType
  <2> HIDE DEF F, C
  <2>6. Kept(w) /\ Doing(w)' /\ work'[w] \in Works /\ work'[w].phase = work[w].phase
    BY <1>1, <2>3, <2>4, FilesWork
  <2>7. Goes(w, "attaching", d, b)
    BY <2>2, <2>5, <2>6 DEF Goes
  <2>8. Stage(k, "attaching", T, d, b, c, p)
    BY <1>1, <2>2
  <2>9. Indexing(w)' /\ Progress(w)'
    BY <1>1, <2>2, <2>7, <2>8, Advance DEF Indexes, T
  <2> QED
    BY <2>7, <2>9 DEF Advances, Goes
<1>5. CASE ClearTags(w)
  <2>1. /\ k = "edit" /\ work[w].phase = "attaching" /\ Proceed(w, "tagging")
        /\ terms'[i] = c \ Tags
    BY <1>1, <1>5 DEF ClearTags, In, Forget, TextType
  <2>2. Goes(w, "tagging", d, b)
    BY <1>1, <2>1, ProceedGoes DEF WorkPhases
  <2>3. Stage(k, "tagging", T, d, b, c \ Tags, p)
    BY <1>1, <2>1, StageClear
  <2>4. Indexing(w)' /\ Progress(w)'
    BY <1>1, <2>1, <2>2, <2>3, Advance DEF Indexes, T
  <2> QED
    BY <2>2, <2>4 DEF Advances, Goes
<1>6. CASE ClearMentions(w)
  <2>1. /\ k = "edit" /\ work[w].phase = "tagging" /\ d = {}
        /\ terms'[i] = c \ (LocalNames \cup RemoteNames)
        /\ (IF T \cap LocalNames = {} THEN Finish(w) ELSE Proceed(w, "cleared"))
    BY <1>1, <1>6 DEF ClearMentions, In, Forget, TextType, T
  <2>2. Stage("edit", "tagging", T, {}, b, c, p) /\ p # {}
    BY <1>1, <2>1 DEF Stage
  <2>3. Proceed(w, "cleared") => Goes(w, "cleared", {}, b)
    BY <1>1, <2>1, ProceedGoes DEF WorkPhases
  <2>4. Finish(w) => ~Doing(w)'
    BY <1>1, FinishWork
  <2> HIDE DEF b, c, p
  <2>5. /\ Stage("edit", "cleared", T, {}, b, c \ (LocalNames \cup RemoteNames), p)
        /\ T \cap LocalNames = {} =>
             (c \ (LocalNames \cup RemoteNames)) \ RemoteNames = T \ RemoteNames
    BY <1>1, <2>2, StageForget
  <2>6. CASE T \cap LocalNames = {}
    <3>1. terms'[i] \ RemoteNames = T \ RemoteNames
      BY <2>1, <2>5, <2>6
    <3>2. Match(i)'
      BY <1>1, <2>2, <3>1, MatchEdited DEF T, p
    <3> QED
      BY <2>1, <2>4, <2>6, <3>2 DEF Advances
  <2>7. CASE T \cap LocalNames # {}
    <3>1. Indexing(w)' /\ Progress(w)'
      BY <1>1, <2>1, <2>3, <2>5, <2>7, Advance DEF Indexes, T, p
    <3> QED
      BY <2>1, <2>3, <2>7, <3>1 DEF Advances, Goes
  <2> QED
    BY <2>6, <2>7
<1> QED
  BY <1>2, <1>3, <1>4, <1>5, <1>6
LEMMA Advanced ==
  ASSUME Typed, NEW w \in Workers, scene' = scene, Indexing(w), Progress(w), Prepared(w),
         NEW i, i = Of(w), i \notin unfinished', IndexStep(w)
  PROVE  Advances(w, i)
BY AdvanceTags, AdvanceMentionLocals, AdvanceMentionRemotes, AdvanceRest DEF IndexStep

\* An indexing task stays one until it ends.
LEMMA IndexStepStays ==
  ASSUME WorkType, NEW w \in Workers, WorkStep(w), IndexStep(w), Doing(w)'
  PROVE  Indexing(w)'
<1>1. /\ Kept(w) /\ Doing(w) /\ work[w] \in Works /\ work \in [Workers -> Works \cup {NoWork}]
      /\ ~Finish(w) /\ work'[w].kind = work[w].kind
  BY WorkStepWork, FinishWork DEF Onwards, Kept, WorkType, Doing
<1>2. ASSUME NEW phase \in WorkPhases, Proceed(w, phase) \/ work'[w].phase = phase,
             Indexes(work[w].kind, phase)
      PROVE  Indexing(w)'
  <2>1. work'[w].phase = phase
    BY <1>1, <1>2, ProceedWork DEF To
  <2> QED
    BY <1>1, <1>2, <2>1 DEF Indexing
<1>3. ASSUME NEW T, NextTag(w, T)
      PROVE  work'[w].phase = "tagging"
  <2>1. work' = [work EXCEPT ![w].phase = "tagging", ![w].todo = T,
                             ![w].batch = {}, ![w].missing = {}]
    BY <1>1, <1>3 DEF NextTag
  <2> QED
    BY <1>1, <2>1 DEF Works
<1>4. CASE ReadTags(w)
  <2>1. PICK B : work' = [work EXCEPT ![w].phase = "tagsRead", ![w].batch = B,
                                      ![w].missing = B \ known]
    BY <1>4 DEF ReadTags
  <2>2. work'[w].phase = "tagsRead" /\ work[w].kind \in {"reply", "edit", "inReply"}
    BY <1>1, <1>4, <2>1 DEF ReadTags, In, Works
  <2> QED
    BY <1>2, <2>2 DEF Indexes, WorkPhases
<1>5. CASE LinkTags(w)
  <2>1. work' = [work EXCEPT ![w].phase = "tagging", ![w].todo = {}, ![w].batch = {},
                             ![w].missing = {}]
        \/ NextTag(w, work[w].todo \ work[w].batch)
    BY <1>5 DEF LinkTags
  <2>2. work'[w].phase = "tagging" /\ work[w].kind \in {"reply", "edit", "inReply"}
    BY <1>1, <1>3, <1>5, <2>1 DEF LinkTags, In, Works
  <2> QED
    BY <1>2, <2>2 DEF Indexes, WorkPhases
<1>6. CASE AddTags(w)
  <2>1. work[w].kind \in {"reply", "edit", "inReply"}
        /\ (Proceed(w, "tagged") \/ work'[w].phase = "tagging")
    BY <1>1, <1>3, <1>6 DEF AddTags, In
  <2> QED
    BY <1>2, <2>1 DEF Indexes, WorkPhases
<1>7. CASE MentionLocals(w)
  <2>1. \/ work[w].kind = "reply" /\ Proceed(w, "mentioned")
        \/ work[w].kind = "inReply" /\ work'[w].phase = "tagging"
    BY <1>1, <1>3, <1>7 DEF MentionLocals, In
  <2> QED
    BY <1>2, <2>1 DEF Indexes, WorkPhases
<1>8. CASE CountInReply(w) \/ Snapshot(w) \/ ClearTags(w) \/ ClearMentions(w)
  <2>1. \/ work[w].kind = "inReply" /\ Proceed(w, "counted")
        \/ work[w].kind = "edit" /\ \E phase \in {"attaching", "tagging", "cleared"} : Proceed(w, phase)
    BY <1>1, <1>8 DEF CountInReply, Snapshot, ClearTags, ClearMentions, In
  <2> QED
    BY <1>2, <2>1 DEF Indexes, WorkPhases
<1>9. CASE AttachMedia(w)
  <2>1. PICK m \in work[w].files : work' = [work EXCEPT ![w].files = @ \ {m}]
    BY <1>1, <1>9 DEF AttachMedia
  <2>2. work[w].phase = "attaching" /\ work[w].kind = "edit"
    BY <1>9 DEF AttachMedia, In
  <2>3. work'[w].phase = "attaching"
    BY <1>1, <2>1, <2>2 DEF Works
  <2> QED
    BY <1>2, <2>2, <2>3 DEF Indexes, WorkPhases
<1>10. ~MentionRemotes(w)
  BY <1>1 DEF MentionRemotes
<1> QED
  BY <1>4, <1>5, <1>6, <1>7, <1>8, <1>9, <1>10 DEF IndexStep

\* What an indexing step leaves alone: all but the terms of its reply.
LEMMA IndexStepElsewhere ==
  ASSUME NEW w \in Workers, IndexStep(w)
  PROVE  /\ UNCHANGED <<writer, text, past, overlapped>> /\ unfinished \subseteq unfinished'
         /\ \A i \in Replies : i # Of(w) /\ TextType => terms'[i] = terms[i]
<1>1. UNCHANGED <<writer, text, past>>
  BY IndexStepRows
<1>2. overlapped' = overlapped /\ unfinished \subseteq unfinished'
  BY DEF IndexStep, CountInReply, ReadTags, AddTags, LinkTags, MentionLocals, MentionRemotes,
     Snapshot, AttachMedia, ClearTags, ClearMentions, notes
<1>3. ASSUME NEW i \in Replies, i # Of(w), TextType
      PROVE  terms'[i] = terms[i]
  <2>1. terms' = terms \/ \E N : terms' = [terms EXCEPT ![Of(w)] = N]
    BY DEF IndexStep, CountInReply, ReadTags, AddTags, LinkTags, MentionLocals, MentionRemotes,
       Snapshot, AttachMedia, ClearTags, ClearMentions, Name, Forget, textVars
  <2> QED
    BY <1>3, <2>1 DEF TextType
<1> QED
  BY <1>1, <1>2, <1>3
\* The statements of other tasks.  They leave the index alone; a task becomes an
\* indexing one by inserting its row or replacing its text.
Outside(w) ==
  /\ terms' = terms /\ overlapped' = overlapped /\ unfinished \subseteq unfinished'
  /\ Kept(w) /\ (Doing(w)' => work'[w].todo = work[w].todo)

Aloof(w)    == UNCHANGED <<writer, text, past>> /\ ~Engaged(w)'
Inserted(w) == /\ Inserting(w) /\ past' = past
               /\ To(w, IF work[w].kind = "reply" THEN "tagging" ELSE "inserted")
Replaced(w) == /\ UpdateText(w) /\ Of(w) \in shown /\ writer' = writer /\ To(w, "updated")

LEMMA OutsideStep ==
  ASSUME Typed, NEW w \in Workers, WorkStep(w), ~Indexing(w)
  PROVE  Outside(w) /\ (Aloof(w) \/ Inserted(w) \/ Replaced(w))
<1>1. /\ Kept(w) /\ Doing(w) /\ work[w] \in Works /\ work \in [Workers -> Works \cup {NoWork}]
      /\ WorkType /\ \A v \in Workers : Sole(v)
  BY WorkStepWork DEF Onwards, Kept, Typed, WorkType
<1>2. ASSUME NEW phase \in WorkPhases, Proceed(w, phase)
      PROVE  To(w, phase) /\ work'[w].todo = work[w].todo
  BY <1>1, <1>2, ProceedWork DEF To
<1>3. Finish(w) => ~Doing(w)' /\ ~Engaged(w)'
  BY <1>1, FinishWork DEF Engaged, Indexing, In
<1>4. ASSUME NEW phase \in {"releasing", "queued", "absent", "found", "removed"}, Proceed(w, phase)
      PROVE  /\ ~Engaged(w)' /\ (Doing(w)' => work'[w].todo = work[w].todo)
  <2>1. work'[w].phase = phase /\ work'[w].todo = work[w].todo
    BY <1>2, <1>4 DEF WorkPhases, To
  <2> QED
    BY <2>1 DEF Engaged, Indexing, Indexes, In
<1>5. CASE ClaimMedia(w)
  <2>1. UNCHANGED <<writer, text, past, terms, overlapped, unfinished>>
    BY <1>5 DEF ClaimMedia, rowVars, textVars, notes
  <2>2. PICK m : \/ work' = [work EXCEPT ![w].files = @ \ {m}, ![w].claimed = @ \cup {m}]
                 \/ Proceed(w, "releasing") \/ Finish(w)
    BY <1>5 DEF ClaimMedia
  <2>3. CASE work' = [work EXCEPT ![w].files = @ \ {m}, ![w].claimed = @ \cup {m}]
    <3>1. work'[w].todo = work[w].todo /\ work'[w].phase = "claiming"
      BY <1>1, <1>5, <2>3 DEF Works, ClaimMedia, In
    <3> QED
      BY <1>1, <2>1, <3>1 DEF Outside, Aloof, Engaged, Indexing, Indexes, In
  <2> QED
    BY <1>1, <1>3, <1>4, <2>1, <2>2, <2>3 DEF Outside, Aloof
<1>6. CASE FailReply(w) \/ ReleaseMedia(w) \/ Retry(w)
  <2>1. UNCHANGED <<writer, text, past, terms, overlapped, unfinished>>
    BY <1>6 DEF FailReply, ReleaseMedia, Retry, rowVars, textVars, notes
  <2>2. Finish(w) \/ \E phase \in {"releasing", "absent", "found"} : Proceed(w, phase)
    BY <1>6 DEF FailReply, ReleaseMedia, Retry
  <2> QED
    BY <1>1, <1>3, <1>4, <2>1, <2>2 DEF Outside, Aloof
<1>7. CASE RemoveReply(w) \/ UncountReply(w)
  <2>1. UNCHANGED <<writer, text, past, terms, overlapped, unfinished>>
    BY <1>7 DEF RemoveReply, UncountReply, rowVars, textVars
  <2>2. Finish(w) \/ Proceed(w, "removed")
    BY <1>7 DEF RemoveReply, UncountReply
  <2> QED
    BY <1>1, <1>3, <1>4, <2>1, <2>2 DEF Outside, Aloof
<1>8. CASE Interrupt(w)
  <2>1. UNCHANGED <<writer, text, past, terms, overlapped>> /\ unfinished \subseteq unfinished'
    BY <1>8 DEF Interrupt, rowVars, textVars
  <2>2. Finish(w) \/ Proceed(w, "queued")
    BY <1>8 DEF Interrupt
  <2> QED
    BY <1>1, <1>3, <1>4, <2>1, <2>2 DEF Outside, Aloof
<1>9. CASE InsertReply(w)
  <2>1. work[w].kind = "reply" /\ Proceed(w, "tagging") /\ Insert(w) /\ writer[Of(w)] = None
        /\ UNCHANGED <<past, terms, overlapped, unfinished>>
    BY <1>1, <1>9 DEF InsertReply, In, Sole, notes
  <2>2. To(w, "tagging") /\ work'[w].todo = work[w].todo
    BY <1>2, <2>1 DEF WorkPhases
  <2> QED
    BY <1>1, <2>1, <2>2 DEF Outside, Inserted, Inserting
<1>10. CASE InsertInReply(w)
  <2>1. work[w].kind = "inReply" /\ UNCHANGED <<past, terms, overlapped, unfinished>>
    BY <1>10 DEF InsertInReply, In, notes
  <2>2. CASE writer[Of(w)] = None
    <3>1. Insert(w) /\ Proceed(w, "inserted")
      BY <1>10, <2>2 DEF InsertInReply
    <3>2. To(w, "inserted") /\ work'[w].todo = work[w].todo
      BY <1>2, <3>1 DEF WorkPhases
    <3> QED
      BY <1>1, <2>1, <2>2, <3>1, <3>2 DEF Outside, Inserted, Inserting
  <2>3. CASE writer[Of(w)] # None
    <3>1. Proceed(w, "queued") /\ UNCHANGED <<writer, text>>
      BY <1>10, <2>3 DEF InsertInReply
    <3> QED
      BY <1>1, <1>4, <2>1, <3>1 DEF Outside, Aloof
  <2> QED
    BY <2>2, <2>3
<1>11. CASE UpdateText(w)
  <2>1. UNCHANGED <<writer, terms, overlapped, unfinished>>
    BY <1>11 DEF UpdateText, rowVars
  <2>2. CASE Of(w) \in shown
    <3>1. Proceed(w, "updated")
      BY <1>11, <2>2 DEF UpdateText
    <3>2. To(w, "updated") /\ work'[w].todo = work[w].todo
      BY <1>2, <3>1 DEF WorkPhases
    <3> QED
      BY <1>1, <1>11, <2>1, <2>2, <3>2 DEF Outside, Replaced
  <2>3. CASE Of(w) \notin shown
    <3>1. Finish(w) /\ UNCHANGED <<text, past>>
      BY <1>11, <2>3 DEF UpdateText
    <3> QED
      BY <1>1, <1>3, <2>1, <3>1 DEF Outside, Aloof
  <2> QED
    BY <2>2, <2>3
<1>12. ~IndexStep(w)
  BY IndexingActions
<1> QED
  BY <1>5, <1>6, <1>7, <1>8, <1>9, <1>10, <1>11, <1>12 DEF WorkStep, CreateStep, EditStep, IndexStep

\* A new task has all hashtags to do; an edit of a reply that is being written to
\* overlaps.
LEMMA BeginTodo ==
  ASSUME Typed, NEW w \in Workers, BeginWork(w)
  PROVE  /\ work'[w].kind \in {"reply", "edit", "inReply"} =>
              work'[w].todo = TermsIn(work'[w].text) \cap Tags
         /\ overlapped \subseteq overlapped'
         /\ work'[w].kind = "edit" =>
              WritersOf(work'[w].id) = {} \/ work'[w].id \in overlapped'
<1>1. work \in [Workers -> Works \cup {NoWork}] /\ None \notin Texts
  BY AuthoringAssumption DEF Typed, WorkType
<1>2. ASSUME NEW kind, NEW a, NEW i, NEW phase, NEW t, NEW F, Begin(w, kind, a, i, phase, t, F)
      PROVE  /\ work'[w].kind = kind /\ work'[w].id = i /\ work'[w].text = t
             /\ t \in Texts => work'[w].todo = TermsIn(t) \cap Tags
  <2> DEFINE todo == IF t = None THEN {} ELSE TermsIn(t) \cap Tags
  <2>1. work'[w] = [kind |-> kind, actor |-> a, id |-> i, text |-> t, phase |-> phase,
                    files |-> F, claimed |-> {},
                    seen |-> IF kind = "edit" THEN text[i] ELSE None, todo |-> todo,
                    batch |-> {}, missing |-> {}]
    BY <1>1, <1>2 DEF Begin
  <2>2. t \in Texts => todo = TermsIn(t) \cap Tags
    BY <1>1
  <2> HIDE DEF todo
  <2> QED
    BY <2>1, <2>2
<1>3. CASE \E a \in Locals, t \in Texts, F \in Uploads : StartReply(w, a, t, F)
  <2>1. PICK a \in Locals, t \in Texts, F \in Uploads, i \in Unborn :
          StartReply(w, a, t, F) /\ Begin(w, "reply", a, i, "claiming", t, F)
    BY <1>3 DEF StartReply
  <2>2. /\ work'[w].kind = "reply" /\ work'[w].text = t
        /\ work'[w].todo = TermsIn(t) \cap Tags
    BY <1>2, <2>1
  <2>3. overlapped' = overlapped
    BY <2>1 DEF StartReply, notes
  <2> QED
    BY <2>2, <2>3
<1>4. CASE \E a \in Locals, t \in Texts, F \in Uploads, i \in Replies : StartEdit(w, a, i, t, F)
  <2>1. PICK a \in Locals, t \in Texts, F \in Uploads, i \in Replies : StartEdit(w, a, i, t, F)
    BY <1>4
  <2>2. Begin(w, "edit", a, i, "read", t, F)
        /\ overlapped' = IF WritersOf(i) = {} THEN overlapped ELSE overlapped \cup {i}
    BY <2>1 DEF StartEdit
  <2>3. /\ work'[w].kind = "edit" /\ work'[w].id = i /\ work'[w].text = t
        /\ work'[w].todo = TermsIn(t) \cap Tags
    BY <1>2, <2>1, <2>2
  <2> HIDE DEF WritersOf
  <2> QED
    BY <2>2, <2>3
<1>5. CASE \E a \in Remotes, i \in Replies, t \in Texts : StartInReply(w, a, i, t)
  <2>1. PICK a \in Remotes, i \in Replies, t \in Texts : StartInReply(w, a, i, t)
    BY <1>5
  <2>2. Begin(w, "inReply", a, i, "absent", t, {}) /\ overlapped' = overlapped
    BY <2>1 DEF StartInReply, notes
  <2>3. /\ work'[w].kind = "inReply" /\ work'[w].text = t
        /\ work'[w].todo = TermsIn(t) \cap Tags
    BY <1>2, <2>1, <2>2
  <2> QED
    BY <2>2, <2>3
<1>6. ASSUME NEW kind, NEW a, NEW i, StartDelete(w, kind, a, i)
      PROVE  work'[w].kind \in {"deleteReply", "inDeleteReply"} /\ overlapped' = overlapped
  <2>1. /\ Begin(w, kind, a, i, "found", None, {}) /\ overlapped' = overlapped
        /\ kind \in {"deleteReply", "inDeleteReply"}
    BY <1>6 DEF StartDelete, notes
  <2>2. work'[w].kind = kind
    BY <1>2, <2>1
  <2> QED
    BY <2>1, <2>2
<1> QED
  BY <1>3, <1>4, <1>5, <1>6 DEF BeginWork
-----------------------------------------------------------------------------
(* The index from step to step *)

LEMMA HasRow ==
  ASSUME Typed, NEW w \in Workers, Prepared(w), Engaged(w)
  PROVE  writer[Of(w)] = By(w) /\ By(w) # None
<1>1. Doing(w) /\ By(w) # None
  BY DoingWork, AuthoringAssumption DEF Typed, Engaged, Indexing, In
<1>2. CASE work[w].kind = "reply"
  BY <1>1, <1>2 DEF Typed, Sole, Engaged, Indexing, Indexes, In
<1>3. CASE work[w].kind = "edit"
  BY <1>1, <1>3 DEF Typed, Proper
<1>4. CASE work[w].kind = "inReply"
  BY <1>1, <1>4 DEF Prepared, Engaged, In
<1> QED
  BY <1>1, <1>2, <1>3, <1>4 DEF Engaged, Indexing, Indexes, In

\* Tasks that did not move.
LEMMA Unmoved ==
  ASSUME NEW v, work'[v] = work[v]
  PROVE  /\ Doing(v)' <=> Doing(v)
         /\ Indexing(v)' <=> Indexing(v)
         /\ Engaged(v)' <=> Engaged(v)
         /\ Of(v)' = Of(v) /\ By(v)' = By(v)
BY DEF Doing, Indexing, Engaged, In, Of, By

\* They stay prepared: rows keep their writer.
LEMMA PreparedUnmoved ==
  ASSUME Typed, NEW v \in Workers, work'[v] = work[v], scene' = scene, Prepared(v),
         Doing(v) => Of(v) \in Replies,
         \A i \in Replies : writer[i] # None => writer'[i] = writer[i]
  PROVE  Prepared(v)'
<1>1. /\ Doing(v)' <=> Doing(v)
      /\ Indexing(v)' <=> Indexing(v)
      /\ Of(v)' = Of(v) /\ By(v)' = By(v)
  BY Unmoved
<1>2. TermsIn(work[v].text)' = TermsIn(work[v].text)
  BY DEF TermsIn
<1>3. Indexing(v) => Doing(v) /\ (work[v].kind = "inReply" => writer[Of(v)] = By(v) /\ By(v) # None)
  BY HasRow DEF Indexing, Engaged
<1> DEFINE T == TermsIn(work[v].text)
<1>4. T' = T
  BY <1>2
<1> HIDE DEF T
<1>5. Indexing(v)' /\ work'[v].kind = "inReply" => writer'[Of(v)'] = By(v)'
  BY <1>1, <1>3
<1>6. /\ Doing(v)' /\ ~Indexing(v)' /\ work'[v].kind \in {"reply", "edit", "inReply"}
      /\ (work'[v].kind = "inReply" => writer'[Of(v)'] = None)
      => work'[v].todo = T' \cap Tags
  BY <1>1, <1>4 DEF Prepared, T
<1> QED
  BY <1>5, <1>6 DEF Prepared, T

\* So does their progress, where the row of their reply stays as it was.
LEMMA ProgressUnmoved ==
  ASSUME NEW v \in Workers, work'[v] = work[v], scene' = scene, Progress(v),
         text'[Of(v)] = text[Of(v)], terms'[Of(v)] = terms[Of(v)], past'[Of(v)] = past[Of(v)]
  PROVE  Progress(v)'
<1>1. (Indexing(v)' <=> Indexing(v)) /\ Of(v)' = Of(v)
  BY Unmoved
<1> DEFINE T == TermsIn(work[v].text)
<1>2. T' = T
  BY DEF TermsIn
<1> HIDE DEF T
<1>3. Indexing(v)' =>
        /\ text'[Of(v)'] = work'[v].text
        /\ Stage(work'[v].kind, work'[v].phase, T', work'[v].todo, work'[v].batch,
                 terms'[Of(v)'], past'[Of(v)'])
  BY <1>1, <1>2 DEF Progress, T
<1> QED
  BY <1>3 DEF Progress, T

LEMMA MatchUnmoved ==
  ASSUME NEW i, scene' = scene, Match(i), writer'[i] = writer[i], text'[i] = text[i],
         terms'[i] = terms[i], past'[i] = past[i]
  PROVE  Match(i)'
BY DEF Match, TermsIn

\* A step that changes no row and after which its task does not index.
LEMMA IndexStill ==
  ASSUME Typed, IndexInv, NEW w \in Workers, scene' = scene,
         UNCHANGED <<writer, text, past, terms>>,
         overlapped \subseteq overlapped', unfinished \subseteq unfinished',
         \A v \in Workers : v # w => work'[v] = work[v],
         ~Indexing(w)', Prepared(w)', Indexing(w) => Of(w) \in unfinished',
         NEW j, j = work'[w].id,
         Engaged(w)' /\ j \notin overlapped' =>
           \/ Engaged(w) /\ Of(w) = j
           \/ \A v \in Workers : Doing(v) => Of(v) # j
  PROVE  IndexInv'
<1>1. /\ \A v \in Workers : Doing(v) => Of(v) \in Replies
      /\ \A v \in Workers : Prepared(v)
      /\ \A v \in Workers : Doing(v) /\ Clear(Of(v)) => Progress(v)
      /\ \A i \in Replies : Clear(i) => Engages(i) /\ Indexed(i)
      /\ Of(w)' = j
  BY DoingWork DEF Typed, IndexInv, Of
<1>2. \A i \in Replies : Clear(i)' => Clear(i)
  BY DEF Clear
<1>3. ASSUME NEW v \in Workers
      PROVE  Prepared(v)'
  BY <1>1, PreparedUnmoved
<1>4. ASSUME NEW v \in Workers, Doing(v)', Clear(Of(v))'
      PROVE  Progress(v)'
  <2>1. CASE v = w
    BY <2>1 DEF Progress
  <2>2. CASE v # w
    <3>1. Doing(v) /\ Of(v)' = Of(v) /\ work'[v] = work[v]
      BY <1>4, <2>2, Unmoved
    <3>2. Clear(Of(v))
      BY <1>4, <3>1 DEF Clear
    <3>3. Progress(v)
      BY <1>1, <3>1, <3>2
    <3> QED
      BY <3>1, <3>3, ProgressUnmoved
  <2> QED
    BY <2>1, <2>2
<1>5. ASSUME NEW i \in Replies, Clear(i)'
      PROVE  Engages(i)'
  <2>1. Engages(i)
    BY <1>1, <1>2, <1>5
  <2>2. SUFFICES ASSUME NEW u \in Workers, NEW v \in Workers, Engaged(u)', Engaged(v)',
                        Of(u)' = i, Of(v)' = i, u # v
                 PROVE  FALSE
    BY DEF Engages
  <2>3. ASSUME NEW x \in Workers, x # w, Engaged(x)', Of(x)' = i
        PROVE  Engaged(x) /\ Of(x) = i /\ Doing(x)
    BY <2>3, Unmoved DEF Engaged, Indexing, In
  <2>4. CASE u # w /\ v # w
    BY <2>1, <2>2, <2>3, <2>4 DEF Engages
  <2>5. ASSUME NEW x \in Workers, x # w, Engaged(x)', Of(x)' = i, Engaged(w)', Of(w)' = i
        PROVE  FALSE
    <3>1. Engaged(x) /\ Of(x) = i /\ Doing(x)
      BY <2>3, <2>5
    <3>2. i = j /\ j \notin overlapped'
      BY <1>1, <1>5, <2>5 DEF Clear
    <3>3. Engaged(w) /\ Of(w) = i
      BY <2>5, <3>1, <3>2
    <3> QED
      BY <2>1, <2>5, <3>1, <3>3 DEF Engages
  <2> QED
    BY <2>2, <2>4, <2>5
<1>6. ASSUME NEW i \in Replies, Clear(i)'
      PROVE  Indexed(i)'
  <2>1. Indexed(i)
    BY <1>1, <1>2, <1>6
  <2>2. CASE writer[i] = None
    BY <2>1, <2>2 DEF Indexed
  <2>3. CASE writer[i] # None
    <3>1. SUFFICES ASSUME \A v \in Workers : Indexing(v)' => Of(v)' # i
                   PROVE  Match(i)'
      BY <2>3 DEF Indexed
    <3>2. \A v \in Workers : Indexing(v) => Of(v) # i
      <4>1. ASSUME NEW v \in Workers, v # w, Indexing(v)
            PROVE  Of(v) # i
        BY <3>1, <4>1, Unmoved
      <4>2. Indexing(w) => Of(w) # i
        BY <1>6 DEF Clear
      <4> QED
        BY <4>1, <4>2
    <3>3. Match(i)
      BY <2>1, <2>3, <3>2 DEF Indexed
    <3> QED
      BY <3>3, MatchUnmoved
  <2> QED
    BY <2>2, <2>3
<1> QED
  BY <1>3, <1>4, <1>5, <1>6 DEF IndexInv
\* A step of a task that indexes its reply from then on, or ends with the index
\* complete, while no other task is engaged with that reply.
LEMMA IndexMoves ==
  ASSUME Typed, IndexInv, NEW w \in Workers, scene' = scene, NEW i \in Replies,
         \A r \in Replies : r # i =>
           /\ writer'[r] = writer[r] /\ text'[r] = text[r]
           /\ terms'[r] = terms[r] /\ past'[r] = past[r],
         \A r \in Replies : writer[r] # None => writer'[r] = writer[r],
         writer'[i] # None,
         overlapped \subseteq overlapped', unfinished \subseteq unfinished',
         \A v \in Workers : v # w => work'[v] = work[v],
         Doing(w), Of(w) = i, Doing(w)' => Of(w)' = i, Prepared(w)',
         Clear(i)' => \A v \in Workers : v # w /\ Engaged(v) => Of(v) # i,
         Clear(i)' => Advances(w, i)
  PROVE  IndexInv'
<1>1. /\ \A v \in Workers : Doing(v) => Of(v) \in Replies
      /\ \A v \in Workers : Prepared(v)
      /\ \A v \in Workers : Doing(v) /\ Clear(Of(v)) => Progress(v)
      /\ \A r \in Replies : Clear(r) => Engages(r) /\ Indexed(r)
  BY DoingWork DEF Typed, IndexInv
<1>2. \A r \in Replies : Clear(r)' => Clear(r)
  BY DEF Clear
<1>3. ASSUME NEW v \in Workers
      PROVE  Prepared(v)'
  BY <1>1, PreparedUnmoved
<1>4. ASSUME NEW v \in Workers, Doing(v)', Clear(Of(v))'
      PROVE  Progress(v)'
  <2>1. CASE v = w
    BY <1>4, <2>1 DEF Advances, Clear
  <2>2. CASE v # w
    <3>1. Doing(v) /\ Of(v)' = Of(v) /\ work'[v] = work[v] /\ (Indexing(v)' <=> Indexing(v))
      BY <1>4, <2>2, Unmoved
    <3>2. Clear(Of(v)) /\ (Of(v) = i => Clear(i)')
      BY <1>4, <3>1 DEF Clear
    <3>3. Progress(v) /\ Of(v) \in Replies
      BY <1>1, <3>1, <3>2
    <3>4. CASE Of(v) = i
      <4>1. ~Indexing(v)
        BY <2>2, <3>2, <3>4 DEF Engaged
      <4> QED
        BY <3>1, <4>1 DEF Progress
    <3>5. CASE Of(v) # i
      BY <3>1, <3>3, <3>5, ProgressUnmoved
    <3> QED
      BY <3>4, <3>5
  <2> QED
    BY <2>1, <2>2
<1>5. ASSUME NEW r \in Replies, Clear(r)'
      PROVE  Engages(r)'
  <2>1. Engages(r)
    BY <1>1, <1>2, <1>5
  <2>2. SUFFICES ASSUME NEW u \in Workers, NEW v \in Workers, Engaged(u)', Engaged(v)',
                        Of(u)' = r, Of(v)' = r, u # v
                 PROVE  FALSE
    BY DEF Engages
  <2>3. ASSUME NEW x \in Workers, x # w, Engaged(x)', Of(x)' = r
        PROVE  Engaged(x) /\ Of(x) = r
    BY <2>3, Unmoved
  <2>4. CASE u # w /\ v # w
    BY <2>1, <2>2, <2>3, <2>4 DEF Engages
  <2>5. ASSUME NEW x \in Workers, x # w, Engaged(x)', Of(x)' = r, Engaged(w)', Of(w)' = r
        PROVE  FALSE
    <3>1. Engaged(x) /\ Of(x) = r
      BY <2>3, <2>5
    <3>2. r = i
      BY <2>5 DEF Engaged, Indexing, In
    <3> QED
      BY <1>5, <2>5, <3>1, <3>2
  <2> QED
    BY <2>2, <2>4, <2>5
<1>6. ASSUME NEW r \in Replies, Clear(r)', r # i
      PROVE  Indexed(r)'
  <2>1. Indexed(r)
    BY <1>1, <1>2, <1>6
  <2>2. CASE writer[r] = None
    BY <1>6, <2>1, <2>2 DEF Indexed
  <2>3. CASE writer[r] # None
    <3>1. SUFFICES ASSUME \A v \in Workers : Indexing(v)' => Of(v)' # r
                   PROVE  Match(r)'
      BY <1>6, <2>3 DEF Indexed
    <3>2. \A v \in Workers : Indexing(v) => Of(v) # r
      <4>1. ASSUME NEW v \in Workers, v # w, Indexing(v)
            PROVE  Of(v) # r
        BY <3>1, <4>1, Unmoved
      <4> QED
        BY <1>6, <4>1
    <3>3. Match(r)
      BY <2>1, <2>3, <3>2 DEF Indexed
    <3> QED
      BY <1>6, <3>3, MatchUnmoved
  <2> QED
    BY <2>2, <2>3
<1>7. ASSUME Clear(i)'
      PROVE  Indexed(i)'
  <2>1. Advances(w, i)
    BY <1>7
  <2>2. CASE Doing(w)'
    BY <2>1, <2>2 DEF Advances, Indexed
  <2>3. CASE ~Doing(w)'
    BY <2>1, <2>3 DEF Advances, Indexed
  <2> QED
    BY <2>2, <2>3
<1> QED
  BY <1>3, <1>4, <1>5, <1>6, <1>7 DEF IndexInv

LEMMA IndexAdvanced ==
  ASSUME Typed, IndexInv, NEW w \in Workers, scene' = scene, WorkStep(w), IndexStep(w),
         NEW i, i = Of(w)
  PROVE  IndexInv'
<1>1. /\ Kept(w) /\ Doing(w) /\ i \in Replies /\ WorkType /\ TextType /\ RowType
      /\ \A v \in Workers : v # w => work'[v] = work[v]
      /\ (Doing(w)' => Of(w)' = i /\ work'[w].kind = work[w].kind)
  BY WorkStepWork, DoingWork DEF Onwards, Kept, Typed, Doing, Of
<1>2. Indexing(w) /\ Prepared(w) /\ Engaged(w)
  BY IndexingActions DEF IndexInv, Engaged
<1>3. writer[i] = By(w) /\ By(w) # None
  BY <1>2, HasRow
<1>4. /\ UNCHANGED <<writer, text, past, overlapped>> /\ unfinished \subseteq unfinished'
      /\ \A r \in Replies : r # i => terms'[r] = terms[r]
  BY <1>1, IndexStepElsewhere
<1>5. Doing(w)' => Indexing(w)'
  BY <1>1, IndexStepStays
<1>6. Prepared(w)'
  <2>1. Doing(w)' => Of(w)' = i /\ By(w)' = By(w)
    BY <1>1 DEF Kept, Doing, By
  <2> QED
    BY <1>3, <1>4, <1>5, <2>1 DEF Prepared, Indexing
<1>7. ASSUME Clear(i)'
      PROVE  Clear(i) /\ i \notin unfinished'
  BY <1>4, <1>7 DEF Clear
<1>8. ASSUME Clear(i)'
      PROVE  Advances(w, i)
  <2>1. Progress(w)
    BY <1>1, <1>7, <1>8 DEF IndexInv
  <2> QED
    BY <1>2, <1>7, <1>8, <2>1, Advanced
<1>9. ASSUME Clear(i)'
      PROVE  \A v \in Workers : v # w /\ Engaged(v) => Of(v) # i
  <2>1. Engages(i)
    BY <1>1, <1>7, <1>9 DEF IndexInv
  <2> QED
    BY <1>2, <2>1 DEF Engages
<1> QED
  BY <1>1, <1>3, <1>4, <1>6, <1>8, <1>9, IndexMoves
LEMMA IndexInserted ==
  ASSUME Typed, IndexInv, NEW w \in Workers, scene' = scene, ~Indexing(w),
         Outside(w), Inserted(w), NEW i, i = Of(w)
  PROVE  IndexInv'
<1> DEFINE T == TermsIn(work[w].text)
           phase == IF work[w].kind = "reply" THEN "tagging" ELSE "inserted"
<1>1. /\ Kept(w) /\ Doing(w) /\ i \in Replies /\ TextType /\ RowType
      /\ \A v \in Workers : v # w => work'[v] = work[v]
      /\ work[w].kind \in {"reply", "inReply"} /\ writer[i] = None
      /\ By(w) # None /\ \A v \in Workers : Prepared(v)
  BY DoingWork, AuthoringAssumption DEF Inserted, Inserting, Outside, Kept, Typed, IndexInv
<1>2. /\ writer' = [writer EXCEPT ![i] = By(w)] /\ text' = [text EXCEPT ![i] = work[w].text]
      /\ past' = past /\ terms' = terms
      /\ overlapped' = overlapped /\ unfinished \subseteq unfinished'
  BY DEF Inserted, Inserting, Insert, Outside
<1>3. /\ writer'[i] = By(w) /\ text'[i] = work[w].text
      /\ \A r \in Replies : r # i => writer'[r] = writer[r] /\ text'[r] = text[r]
  BY <1>1, <1>2 DEF TextType, RowType
<1>4. /\ Doing(w)' /\ work'[w].kind = work[w].kind /\ Of(w)' = i /\ By(w)' = By(w)
      /\ work'[w].phase = phase /\ work'[w].todo = work[w].todo /\ work'[w].text = work[w].text
  BY DEF Inserted, To, Kept, Doing
<1>5. Indexing(w)'
  BY <1>1, <1>4 DEF Indexing, Indexes
<1>6. Prepared(w)'
  BY <1>3, <1>4, <1>5 DEF Prepared
<1>7. work[w].todo = T \cap Tags
  BY <1>1 DEF Prepared
<1>8. T' = T
  BY <1>4 DEF TermsIn
<1> HIDE DEF T
<1>9. ASSUME Clear(i)'
      PROVE  Advances(w, i)
  <2>1. terms[i] = {}
    <3>1. Clear(i)
      BY <1>2, <1>9 DEF Clear
    <3> QED
      BY <1>1, <3>1 DEF IndexInv, Indexed
  <2>2. Stage(work[w].kind, phase, T, work[w].todo, work'[w].batch, terms'[i], past'[i])
    BY <1>1, <1>2, <1>7, <2>1 DEF Stage
  <2>3. Stage(work'[w].kind, work'[w].phase, T', work'[w].todo, work'[w].batch, terms'[Of(w)'],
              past'[Of(w)'])
    BY <1>4, <1>8, <2>2
  <2>4. text'[Of(w)'] = work'[w].text
    BY <1>3, <1>4
  <2>5. Progress(w)'
    BY <2>3, <2>4 DEF Progress, T
  <2> QED
    BY <1>4, <1>5, <2>5 DEF Advances
<1>10. \A v \in Workers : Engaged(v) => Of(v) # i
  BY <1>1, HasRow
<1> QED
  BY <1>1, <1>2, <1>3, <1>4, <1>6, <1>9, <1>10, IndexMoves

LEMMA IndexReplaced ==
  ASSUME Typed, IndexInv, NEW w \in Workers, scene' = scene, ~Indexing(w),
         Outside(w), Replaced(w), NEW i, i = Of(w)
  PROVE  IndexInv'
<1> DEFINE T == TermsIn(work[w].text)
<1>1. /\ Kept(w) /\ Doing(w) /\ i \in Replies /\ TextType /\ RowType
      /\ \A v \in Workers : v # w => work'[v] = work[v]
      /\ work[w].kind = "edit" /\ In(w, {"edit"}, "read") /\ \A v \in Workers : Prepared(v)
  BY DoingWork DEF Replaced, UpdateText, In, Outside, Kept, Typed, IndexInv
<1>2. /\ writer' = writer /\ text' = [text EXCEPT ![i] = work[w].text]
      /\ past' = [past EXCEPT ![i] = @ \cup {text[i]}] /\ terms' = terms
      /\ overlapped' = overlapped /\ unfinished \subseteq unfinished'
  BY DEF Replaced, UpdateText, Outside
<1>3. /\ text'[i] = work[w].text /\ past'[i] # {}
      /\ \A r \in Replies : r # i => text'[r] = text[r] /\ past'[r] = past[r]
  BY <1>1, <1>2 DEF TextType
<1>4. /\ Doing(w)' /\ work'[w].kind = work[w].kind /\ Of(w)' = i
      /\ work'[w].phase = "updated" /\ work'[w].todo = work[w].todo
      /\ work'[w].text = work[w].text
  BY DEF Replaced, To, Kept, Doing
<1>5. Indexing(w)' /\ Engaged(w)
  BY <1>1, <1>4 DEF Indexing, Indexes, Engaged
<1>6. Prepared(w)' /\ writer[i] # None
  BY <1>1, <1>4, <1>5, HasRow DEF Prepared
<1>7. work[w].todo = T \cap Tags
  BY <1>1 DEF Prepared
<1>8. T' = T
  BY <1>4 DEF TermsIn
<1> HIDE DEF T
<1>9. ASSUME Clear(i)'
      PROVE  Advances(w, i)
  <2>1. Stage(work[w].kind, "updated", T, work[w].todo, work'[w].batch, terms'[i], past'[i])
    BY <1>1, <1>3, <1>7 DEF Stage
  <2>2. Stage(work'[w].kind, work'[w].phase, T', work'[w].todo, work'[w].batch, terms'[Of(w)'],
              past'[Of(w)'])
    BY <1>4, <1>8, <2>1
  <2>3. text'[Of(w)'] = work'[w].text
    BY <1>3, <1>4
  <2>4. Progress(w)'
    BY <2>2, <2>3 DEF Progress, T
  <2> QED
    BY <1>4, <1>5, <2>4 DEF Advances
<1>10. ASSUME Clear(i)'
       PROVE  \A v \in Workers : v # w /\ Engaged(v) => Of(v) # i
  <2>1. Clear(i)
    BY <1>2, <1>10 DEF Clear
  <2>2. Engages(i)
    BY <1>1, <2>1 DEF IndexInv
  <2> QED
    BY <1>5, <2>2 DEF Engages
<1> QED
  BY <1>1, <1>2, <1>3, <1>4, <1>6, <1>9, <1>10, IndexMoves

LEMMA IndexAloof ==
  ASSUME Typed, IndexInv, NEW w \in Workers, scene' = scene, ~Indexing(w), Outside(w), Aloof(w)
  PROVE  IndexInv'
<1>1. /\ Kept(w) /\ \A v \in Workers : v # w => work'[v] = work[v]
      /\ UNCHANGED <<writer, text, past, terms>>
      /\ overlapped' = overlapped /\ unfinished \subseteq unfinished' /\ Prepared(w)
  BY DEF Outside, Aloof, Kept, IndexInv
<1>2. ~Engaged(w)' /\ ~Indexing(w)'
  BY DEF Aloof, Engaged
<1>3. Prepared(w)'
  <2>1. SUFFICES ASSUME Doing(w)'
                 PROVE  Prepared(w)'
    BY <1>2 DEF Prepared
  <2>2. /\ Doing(w) /\ work'[w].kind = work[w].kind /\ work'[w].id = work[w].id
        /\ work'[w].text = work[w].text /\ work'[w].todo = work[w].todo
    BY <2>1 DEF Kept, Outside, Doing
  <2> DEFINE T == TermsIn(work[w].text)
  <2>3. T' = T
    BY <2>2 DEF TermsIn
  <2> HIDE DEF T
  <2>4. /\ work'[w].kind \in {"reply", "edit", "inReply"}
        /\ (work'[w].kind = "inReply" => writer'[Of(w)'] = None)
        => work'[w].todo = T' \cap Tags
    BY <1>1, <2>2, <2>3 DEF Prepared, Of, T
  <2> QED
    BY <1>2, <2>4 DEF Prepared, T
<1> QED
  BY <1>1, <1>2, <1>3, IndexStill

LEMMA IndexInterrupted ==
  ASSUME Typed, IndexInv, NEW w \in Workers, scene' = scene, Indexing(w), Interrupt(w)
  PROVE  IndexInv'
<1>1. /\ WorkStep(w) /\ Doing(w) /\ WorkType /\ Prepared(w) /\ Engaged(w)
  BY DEF WorkStep, Indexing, Typed, IndexInv, Engaged
<1>2. Kept(w) /\ \A v \in Workers : v # w => work'[v] = work[v]
  BY <1>1, WorkStepWork DEF Onwards, Kept
<1>3. UNCHANGED <<writer, text, past, terms>> /\ overlapped' = overlapped
      /\ unfinished \subseteq unfinished'
  BY DEF Interrupt, rowVars, textVars
<1>4. Of(w) \in unfinished'
  BY InterruptIndexing
<1>5. Doing(w)' => work'[w].phase = "queued"
  BY <1>1, ProceedWork, FinishWork DEF Interrupt, To, WorkPhases
<1>6. ~Indexing(w)' /\ ~Engaged(w)'
  BY <1>5 DEF Indexing, Indexes, Engaged, In
<1>7. Prepared(w)'
  <2>1. Doing(w)' => work'[w].kind = "inReply" /\ writer'[Of(w)'] # None
    <3>1. Doing(w)' => work[w].kind = "inReply"
      BY <1>1, FinishWork DEF Interrupt, Indexing, Indexes, SentKinds
    <3>2. writer[Of(w)] # None
      BY <1>1, HasRow
    <3> QED
      BY <1>2, <1>3, <3>1, <3>2 DEF Kept, Doing, Of
  <2> QED
    BY <1>6, <2>1 DEF Prepared
<1> QED
  BY <1>2, <1>3, <1>4, <1>6, <1>7, IndexStill

LEMMA IndexBegun ==
  ASSUME Typed, IndexInv, NEW w \in Workers, scene' = scene, BeginWork(w)
  PROVE  IndexInv'
<1>1. /\ ~Doing(w) /\ ~Indexing(w) /\ \A v \in Workers : v # w => work'[v] = work[v]
      /\ UNCHANGED <<writer, text, past, terms>> /\ unfinished' = unfinished /\ Began(w)
  BY BeginEffect DEF rowVars, textVars, Indexing
<1>2. /\ work'[w].kind \in {"reply", "edit", "inReply"} =>
           work'[w].todo = TermsIn(work'[w].text) \cap Tags
      /\ overlapped \subseteq overlapped'
      /\ work'[w].kind = "edit" =>
           WritersOf(work'[w].id) = {} \/ work'[w].id \in overlapped'
  BY BeginTodo
<1>3. ~Indexing(w)' /\ (Engaged(w)' => work'[w].kind = "edit")
  BY <1>1 DEF Began, Indexing, Indexes, Engaged, In
<1>4. Prepared(w)'
  <2> DEFINE T == TermsIn(work'[w].text)
  <2>1. TermsIn(work[w].text)' = T
    BY DEF TermsIn
  <2> HIDE DEF T
  <2>2. work'[w].kind \in {"reply", "edit", "inReply"} => work'[w].todo = T \cap Tags
    BY <1>2 DEF T
  <2>3. work'[w].kind \in {"reply", "edit", "inReply"} =>
          work'[w].todo = TermsIn(work[w].text)' \cap Tags
    BY <2>1, <2>2
  <2> QED
    BY <1>3, <2>3 DEF Prepared
<1>5. Engaged(w)' /\ work'[w].id \notin overlapped' =>
        \A v \in Workers : Doing(v) => Of(v) # work'[w].id
  BY <1>2, <1>3 DEF WritersOf
<1> QED
  BY <1>1, <1>2, <1>3, <1>4, <1>5, IndexStill

LEMMA IndexAside ==
  ASSUME Typed, IndexInv, scene' = scene, UNCHANGED writing
  PROVE  IndexInv'
<1>1. UNCHANGED <<writer, text, past, terms, work, unfinished, overlapped>>
  BY DEF writing, rowVars, textVars, notes
<1>2. \A v \in Workers : Doing(v) => Of(v) \in Replies
  BY DoingWork DEF Typed
<1>3. ASSUME NEW v \in Workers
      PROVE  Prepared(v)'
  BY <1>1, <1>2, PreparedUnmoved DEF IndexInv
<1>4. ASSUME NEW v \in Workers, Doing(v)', Clear(Of(v))'
      PROVE  Progress(v)'
  <2>1. Doing(v) /\ Clear(Of(v))
    BY <1>1, <1>4 DEF Doing, Clear, Of
  <2> QED
    BY <1>1, <2>1, ProgressUnmoved DEF IndexInv
<1>5. ASSUME NEW i \in Replies, Clear(i)'
      PROVE  Engages(i)' /\ Indexed(i)'
  <2>1. Engages(i) /\ Indexed(i)
    BY <1>1, <1>5 DEF IndexInv, Clear
  <2>2. \A v \in Workers : /\ Indexing(v)' <=> Indexing(v)
                           /\ Engaged(v)' <=> Engaged(v)
                           /\ Of(v)' = Of(v)
    BY <1>1, Unmoved
  <2>3. Match(i) => Match(i)'
    BY <1>1, MatchUnmoved
  <2> QED
    BY <1>1, <2>1, <2>2, <2>3 DEF Engages, Indexed
<1> QED
  BY <1>3, <1>4, <1>5 DEF IndexInv
LEMMA SceneStays == Inv /\ [AuthoringNext]_<<vars, writing>> => scene' = scene
<1> SUFFICES ASSUME Inv, [AuthoringNext]_<<vars, writing>>
             PROVE  scene' = scene
  OBVIOUS
<1>1. ASSUME NEW w \in Workers, WorkStep(w) \/ BeginWork(w)
      PROVE  scene' = scene
  <2>1. crashes \in 0 .. MaxCrashes
    BY DEF Inv, TypeInv, RestType
  <2> QED
    BY <1>1, <2>1, SettledStep DEF settled, fixed
<1>2. ASSUME NEW w \in Workers, FavouriteStep(w) \/ BoostStep(w) \/ PollStep(w)
      PROVE  UNCHANGED others
  <2>1. CASE FavouriteStep(w)
    BY <2>1 DEF FavouriteStep, FindFavourite, AddFavourite, SeekFavourite, DropFavourite,
       InsertLike, CountLike, FindLike, DeleteLike, UncountLike
  <2>2. CASE BoostStep(w)
    BY <2>2 DEF BoostStep, FindBoost, InsertBoost, InsertAnnounce, CountBoost, SeekBoost,
       RemoveBoost, UncountBoost
  <2>3. CASE PollStep(w)
    BY <2>3 DEF PollStep, FindVote, Vote, InsertVote, CountVoters, WriteVote
  <2> QED
    BY <1>2, <2>1, <2>2, <2>3
<1>3. CASE Next
  <2>1. CASE DeleteStatus \/ \E w \in Workers : Crash(w)
    BY <2>1 DEF DeleteStatus, Crash, fixed
  <2>2. CASE \E w \in Workers : Redeliver(w) \/ FavouriteStep(w) \/ BoostStep(w) \/ PollStep(w)
    BY <1>2, <2>2 DEF Redeliver, others, fixed
  <2>3. CASE \E w \in Workers, kind \in scene, a \in Actors :
               Start(w, kind, a) \/ \E C \in SUBSET Options : StartVote(w, kind, a, C)
    BY <2>3 DEF Start, StartVote, others, fixed
  <2> QED
    BY <1>3, <2>1, <2>2, <2>3 DEF Next
<1>4. CASE UNCHANGED vars
  BY <1>4 DEF vars, fixed
<1> QED
  BY <1>1, <1>3, <1>4, NextCases

LEMMA IndexNext == Inv /\ Typed /\ IndexInv /\ [AuthoringNext]_<<vars, writing>> => IndexInv'
<1> SUFFICES ASSUME Inv, Typed, IndexInv, [AuthoringNext]_<<vars, writing>>
             PROVE  IndexInv'
  OBVIOUS
<1>1. scene' = scene
  BY SceneStays
<1>2. ASSUME NEW w \in Workers, WorkStep(w)
      PROVE  IndexInv'
  <2>1. CASE Indexing(w)
    <3>1. IndexStep(w) \/ Interrupt(w)
      BY <1>2, <2>1, IndexingActions
    <3> QED
      BY <1>1, <1>2, <2>1, <3>1, IndexAdvanced, IndexInterrupted
  <2>2. CASE ~Indexing(w)
    <3>1. Outside(w) /\ (Aloof(w) \/ Inserted(w) \/ Replaced(w))
      BY <1>2, <2>2, OutsideStep
    <3> QED
      BY <1>1, <2>2, <3>1, IndexAloof, IndexInserted, IndexReplaced
  <2> QED
    BY <2>1, <2>2
<1>3. ASSUME NEW w \in Workers, BeginWork(w)
      PROVE  IndexInv'
  BY <1>1, <1>3, IndexBegun
<1>4. ASSUME UNCHANGED writing
      PROVE  IndexInv'
  BY <1>1, <1>4, IndexAside
<1> QED
  BY <1>2, <1>3, <1>4, NextCases

LEMMA IndexInit == AuthoringInit => IndexInv
<1> SUFFICES ASSUME AuthoringInit
             PROVE  IndexInv
  OBVIOUS
<1>1. \A w \in Workers : ~Doing(w)
  BY DEF AuthoringInit, Doing
<1>2. \A i \in Replies : writer[i] = None /\ terms[i] = {}
  BY DEF AuthoringInit
<1> QED
  BY <1>1, <1>2 DEF IndexInv, Prepared, Engages, Engaged, Indexing, Indexed, In

\* Whatever tasks write, edit and remove replies, and in whatever order their
\* statements run: the hashtags and mentions of a live reply that nobody writes to
\* are those of its text, as far as the code promises; a reply whose edits
\* overlapped or whose task ended early is the only exception.
THEOREM TextIsIndexed == AuthoringSpec => []IndexMatchesText
<1>1. Typed /\ IndexInv => IndexMatchesText
  <2> SUFFICES ASSUME Typed, IndexInv,
                      NEW i \in shown \ (overlapped \cup unfinished), WritersOf(i) = {}
               PROVE  Match(i)
    BY DEF IndexMatchesText, Match
  <2>1. i \in Replies /\ writer[i] # None
    BY DEF Typed, RowType
  <2>2. Indexed(i)
    BY <2>1 DEF IndexInv, Clear
  <2>3. \A w \in Workers : Indexing(w) => Of(w) # i
    BY DEF WritersOf, Indexing
  <2> QED
    BY <2>1, <2>2, <2>3 DEF Indexed
<1>2. AuthoringSpec => [](Inv /\ Typed /\ IndexInv)
  <2>1. AuthoringInit => Inv /\ Typed /\ IndexInv
    BY InvInit, TypedInit, IndexInit DEF AuthoringInit
  <2> QED
    BY <2>1, InvWhileWriting, TypedNext, IndexNext, PTL DEF AuthoringSpec
<1> QED
  BY <1>1, <1>2, PTL

==============================================================================
