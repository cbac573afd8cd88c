------------------------------ MODULE Authoring ------------------------------
(***************************************************************************)
(* Writing: the replies that local and remote accounts write to the status *)
(* of Interactions, with their media, hashtags and mentions, how they are  *)
(* edited and removed, and the counters kept of them.  services/status.ts  *)
(* and the endpoint statuses/create.ts serve the local accounts,           *)
(* inboxProcessors/create.ts and delete.ts the remote ones.                *)
(*                                                                         *)
(* The parent may be deleted and requests are interrupted as in            *)
(* Interactions.  No scene has both boosts and replies, so `written` is    *)
(* the part of statuses_count that `posts` is not.                         *)
(***************************************************************************)
EXTENDS Interactions

CONSTANTS
    Replies,          \* ids of replies in statuses
    Media,            \* ids of rows in media_attachments
    Texts,            \* versions of a reply; an edit brings a new one
    Tags, LocalNames, RemoteNames,  \* hashtags and accounts that texts can name
    TermsOf           \* those that a text names

Terms == Tags \cup LocalNames \cup RemoteNames

ASSUME AuthoringAssumption ==
    /\ Tags \cap LocalNames = {} /\ (Tags \cup LocalNames) \cap RemoteNames = {}
    /\ TermsOf \in [Texts -> SUBSET Terms]
    /\ None \notin Replies \cup Texts \cup Actors

VARIABLES
    owner,      \* media_attachments.account_id, None without a row
    holder,     \* media_attachments.status_id
    writer,     \* statuses with in_reply_to_id: the account, None without a row
    shown,      \* replies with deleted_at IS NULL
    replies,    \* replies_count of the parent
    written,    \* accounts.statuses_count of local accounts, replies only
    text,       \* what the row of a reply says
    terms,      \* status_tags and mentions of a reply
    known,      \* tags: the hashtags with a row
    snapshots,  \* status_edits: the versions recorded for a reply
    work,       \* what each worker is writing
    past,       \* history: the texts of a reply that were replaced
    miscounted, \* history: a counter moved without its row, or lost its move
    unfinished, \* history: replies of which a task ended before its last step
    overlapped, \* history: replies that were edited while they were written to
    skipped     \* history: replies with a version replaced by one who had not read it

mediaVars == <<owner, holder>>
rowVars   == <<writer, shown, replies, written>>
textVars  == <<text, terms, known, snapshots, past>>
notes     == <<miscounted, unfinished, overlapped, skipped>>
writing   == <<mediaVars, rowVars, textVars, work, notes>>
settled   == <<fixed, favVars, boostVars, pollVars, task, drifted>>

OwnKinds  == {"reply", "edit", "deleteReply"}
SentKinds == {"inReply", "inDeleteReply"}

NoWork == [kind |-> "none"]
Works == [kind : OwnKinds \cup SentKinds, actor : Actors, id : Replies, text : Texts \cup {None},
          phase : {"claiming", "releasing", "absent", "inserted", "counted", "read", "updated",
                   "attaching", "tagging", "tagsRead", "tagged", "cleared", "mentioned",
                   "found", "removed", "queued"},
          files : SUBSET Media, claimed : SUBSET Media, seen : Texts \cup {None},
          todo : SUBSET Tags, batch : SUBSET Tags, missing : SUBSET Tags]

\* Every variable has its type, those of Interactions too: no counter is ever
\* negative (MAX(0, ...)), and only rows are live or say something.
AuthoringTypeOK ==
    /\ TypeOK
    /\ owner \in [Media -> Locals \cup {None}]
    /\ holder \in [Media -> Replies \cup {None}]
    /\ writer \in [Replies -> Actors \cup {None}]
    /\ shown \subseteq {i \in Replies : writer[i] # None}
    /\ replies \in Nat
    /\ written \in [Locals -> Nat]
    /\ text \in [Replies -> Texts \cup {None}]
    /\ \A i \in Replies : text[i] = None <=> writer[i] = None
    /\ terms \in [Replies -> SUBSET Terms]
    /\ known \subseteq Tags
    /\ snapshots \in [Replies -> SUBSET Texts] /\ past \in [Replies -> SUBSET Texts]
    /\ work \in [Workers -> Works \cup {NoWork}]
    /\ miscounted \in BOOLEAN
    /\ unfinished \subseteq Replies /\ overlapped \subseteq Replies /\ skipped \subseteq Replies

AuthoringInit ==
    /\ Init
    /\ \E a \in Locals : owner = [m \in Media |-> IF "media" \in scene THEN a ELSE None]
    /\ holder = [m \in Media |-> None]
    /\ writer = [i \in Replies |-> None]
    /\ shown = {}
    /\ replies = 0
    /\ written = [a \in Locals |-> 0]
    /\ text = [i \in Replies |-> None]
    /\ terms = [i \in Replies |-> {}]
    /\ known = {}
    /\ snapshots = [i \in Replies |-> {}] /\ past = [i \in Replies |-> {}]
    /\ work = [w \in Workers |-> NoWork]
    /\ miscounted = FALSE
    /\ unfinished = {} /\ overlapped = {} /\ skipped = {}

-----------------------------------------------------------------------------
(* Helpers. *)

\* Bounds: where there are media to compete for, every request brings some, and
\* texts name nothing.
Uploads == IF "media" \in scene THEN SUBSET Media \ {{}} ELSE {{}}
TermsIn(t) == IF "media" \in scene THEN {} ELSE TermsOf[t]

Doing(w) == work[w] # NoWork
In(w, kinds, phase) == Doing(w) /\ work[w].kind \in kinds /\ work[w].phase = phase
By(w) == work[w].actor
Of(w) == work[w].id

Proceed(w, phase) == work' = [work EXCEPT ![w].phase = phase]
Finish(w) == work' = [work EXCEPT ![w] = NoWork]
CanBegin(w, kind) == ~Doing(w) /\ kind \in scene
Begin(w, kind, a, i, phase, t, F) ==
    work' = [work EXCEPT ![w] =
              [kind |-> kind, actor |-> a, id |-> i, text |-> t, phase |-> phase,
               files |-> F, claimed |-> {},
               seen |-> IF kind = "edit" THEN text[i] ELSE None,
               todo |-> IF t = None THEN {} ELSE TermsIn(t) \cap Tags,
               batch |-> {}, missing |-> {}]]

\* Whoever is writing to reply i.
WritersOf(i) == {w \in Workers : Doing(w) /\ Of(w) = i}

\* A new ULID.
Unborn == {i \in Replies : writer[i] = None /\ i \notin unfinished /\ WritersOf(i) = {}}

\* canAttachMediaToStatus: media of the account that are on no status, or on
\* the one they are for.
AttachableTo(i, a) == {m \in Media : owner[m] = a /\ holder[m] \in {None, i}}

-----------------------------------------------------------------------------
(* Creating. *)

\* createStatus finds its parent visible and its media attachable.
StartReply(w, a, t, F) ==
    /\ CanBegin(w, "reply") /\ live
    /\ \E i \in Unborn : /\ F \subseteq AttachableTo(i, a)
                         /\ Begin(w, "reply", a, i, "claiming", t, F)
    /\ UNCHANGED <<settled, live, crashes, mediaVars, rowVars, textVars, notes>>

ClaimMediaHeld(w) ==   \* a mistake: without status_id IS NULL
    /\ In(w, {"reply"}, "claiming")
    /\ \E m \in work[w].files :
         /\ holder' = [holder EXCEPT ![m] = Of(w)]
         /\ work' = [work EXCEPT ![w].files = @ \ {m}, ![w].claimed = @ \cup {m}]
    /\ UNCHANGED <<settled, live, crashes, owner, rowVars, textVars, notes>>

\* It claims them one by one, in the order of the request; the first that is on
\* a status by now ends the request.
ClaimMedia(w) ==
    /\ In(w, {"reply"}, "claiming")
    /\ \E m \in work[w].files :
         IF holder[m] = None
           THEN /\ holder' = [holder EXCEPT ![m] = Of(w)]
                /\ work' = [work EXCEPT ![w].files = @ \ {m}, ![w].claimed = @ \cup {m}]
           ELSE /\ IF work[w].claimed = {} THEN Finish(w) ELSE Proceed(w, "releasing")
                /\ UNCHANGED holder
    /\ UNCHANGED <<settled, live, crashes, owner, rowVars, textVars, notes>>

\* The batch that would insert the status throws.
FailReply(w) ==
    /\ In(w, {"reply"}, "claiming") /\ work[w].files = {} /\ crashes < MaxCrashes
    /\ crashes' = crashes + 1
    /\ IF work[w].claimed = {} THEN Finish(w) ELSE Proceed(w, "releasing")
    /\ UNCHANGED <<settled, live, mediaVars, rowVars, textVars, notes>>

\* What was claimed is given back.
ReleaseMedia(w) ==
    /\ In(w, {"reply"}, "releasing")
    /\ holder' = [m \in Media |->
                   IF m \in work[w].claimed /\ holder[m] = Of(w) THEN None ELSE holder[m]]
    /\ Finish(w)
    /\ UNCHANGED <<settled, live, crashes, owner, rowVars, textVars, notes>>

Insert(w) ==
    /\ writer' = [writer EXCEPT ![Of(w)] = By(w)]
    /\ shown' = shown \cup {Of(w)}
    /\ text' = [text EXCEPT ![Of(w)] = work[w].text]

\* The main batch: the row and both counters.
InsertReply(w) ==
    /\ In(w, {"reply"}, "claiming") /\ work[w].files = {}
    /\ Insert(w)
    /\ replies' = replies + 1
    /\ written' = [written EXCEPT ![By(w)] = @ + 1]
    /\ Proceed(w, "tagging")
    /\ UNCHANGED <<settled, live, crashes, mediaVars, terms, known, snapshots, past, notes>>

\* A Create finds no live status with the uri of its note, and may interact with
\* the parent.  The note may come again, from another inbox or a relay.
StartInReply(w, a, i, t) ==
    /\ CanBegin(w, "inReply") /\ live
    /\ i \in Unborn \/ (writer[i] = a /\ i \notin shown)
         \/ \E v \in WritersOf(i) : work[v].kind = "inReply" /\ By(v) = a /\ i \notin shown
    /\ Begin(w, "inReply", a, i, "absent", t, {})
    /\ UNCHANGED <<settled, live, crashes, mediaVars, rowVars, textVars, notes>>

InsertInReplyAgain(w) ==   \* a mistake: INSERT OR IGNORE, and on
    /\ In(w, {"inReply"}, "absent")
    /\ IF writer[Of(w)] = None THEN Insert(w) ELSE UNCHANGED <<writer, shown, text>>
    /\ Proceed(w, "inserted")
    /\ UNCHANGED <<settled, live, crashes, mediaVars, replies, written, terms, known,
                   snapshots, past, notes>>

\* statuses.uri is UNIQUE: a note that was inserted before, live or not, throws and
\* the queue tries again.
InsertInReply(w) ==
    /\ In(w, {"inReply"}, "absent")
    /\ IF writer[Of(w)] = None
         THEN Insert(w) /\ Proceed(w, "inserted")
         ELSE Proceed(w, "queued") /\ UNCHANGED <<writer, shown, text>>
    /\ UNCHANGED <<settled, live, crashes, mediaVars, replies, written, terms, known,
                   snapshots, past, notes>>

CountInReply(w) ==
    /\ In(w, {"inReply"}, "inserted")
    /\ replies' = replies + 1
    /\ Proceed(w, "counted")
    /\ UNCHANGED <<settled, live, crashes, mediaVars, writer, shown, written, textVars, notes>>

-----------------------------------------------------------------------------
(* Hashtags and mentions. *)

\* createStatus and editStatus look up all hashtags at once, Create each alone.
ReadTags(w) ==
    /\ In(w, {"reply", "edit", "inReply"}, "tagging")
    /\ \E B \in IF work[w].kind = "inReply" THEN {{g} : g \in work[w].todo}
                                            ELSE {work[w].todo} \ {{}} :
         work' = [work EXCEPT ![w].phase = "tagsRead", ![w].batch = B,
                              ![w].missing = B \ known]
    /\ UNCHANGED <<settled, live, crashes, mediaVars, rowVars, textVars, notes>>

\* Create is done, or goes on with its next hashtag.
NextTag(w, todo) ==
    IF todo = {} THEN Finish(w)
    ELSE work' = [work EXCEPT ![w].phase = "tagging", ![w].todo = todo,
                              ![w].batch = {}, ![w].missing = {}]

\* Rows for the hashtags that had none.  tags.name is UNIQUE: one that has a row
\* by now ends the request, whose status is there; Create skips that hashtag.
AddTags(w) ==
    /\ In(w, {"reply", "edit", "inReply"}, "tagsRead")
    /\ IF work[w].missing \cap known = {}
         THEN /\ known' = known \cup work[w].missing
              /\ Proceed(w, "tagged")
              /\ UNCHANGED unfinished
         ELSE /\ IF work[w].kind = "inReply" THEN NextTag(w, work[w].todo \ work[w].batch)
                                             ELSE Finish(w)
              /\ unfinished' = unfinished \cup {Of(w)}
              /\ UNCHANGED known
    /\ UNCHANGED <<settled, live, crashes, mediaVars, rowVars, text, terms, snapshots, past,
                   miscounted, overlapped, skipped>>

Name(w, N) == terms' = [terms EXCEPT ![Of(w)] = @ \cup (TermsIn(work[w].text) \cap N)]

\* INSERT OR IGNORE INTO status_tags
LinkTags(w) ==
    /\ In(w, {"reply", "edit", "inReply"}, "tagged")
    /\ Name(w, work[w].batch)
    /\ IF work[w].kind = "inReply"
         THEN NextTag(w, work[w].todo \ work[w].batch)
         ELSE work' = [work EXCEPT ![w].phase = "tagging", ![w].todo = {},
                                   ![w].batch = {}, ![w].missing = {}]
    /\ UNCHANGED <<settled, live, crashes, mediaVars, rowVars, text, known, snapshots, past,
                   notes>>

\* createStatus and editStatus mention local accounts last, Create before the
\* hashtags.
MentionLocals(w) ==
    /\ \/ /\ In(w, {"reply"}, "tagging") /\ work[w].todo = {}
          /\ IF TermsIn(work[w].text) \cap RemoteNames = {} THEN Finish(w)
                                                        ELSE Proceed(w, "mentioned")
       \/ In(w, {"edit"}, "cleared") /\ Finish(w)
       \/ In(w, {"inReply"}, "counted") /\ NextTag(w, work[w].todo)
    /\ Name(w, LocalNames)
    /\ UNCHANGED <<settled, live, crashes, mediaVars, rowVars, text, known, snapshots, past,
                   notes>>

\* The endpoint that called createStatus looks up the remote accounts.
MentionRemotes(w) ==
    /\ In(w, {"reply"}, "mentioned")
    /\ Name(w, RemoteNames)
    /\ Finish(w)
    /\ UNCHANGED <<settled, live, crashes, mediaVars, rowVars, text, known, snapshots, past,
                   notes>>

-----------------------------------------------------------------------------
(* Editing. *)

\* editStatus reads the row it will snapshot, and finds the media attachable.
StartEdit(w, a, i, t, F) ==
    /\ CanBegin(w, "edit")
    /\ i \in shown /\ writer[i] = a
    /\ t \notin past[i] \cup {text[i]}
    /\ F \subseteq AttachableTo(i, a)
    /\ Begin(w, "edit", a, i, "read", t, F)
    /\ overlapped' = IF WritersOf(i) = {} THEN overlapped ELSE overlapped \cup {i}
    /\ UNCHANGED <<settled, live, crashes, mediaVars, rowVars, textVars, miscounted,
                   unfinished, skipped>>

\* The guarded UPDATE, whatever the row says by now.
UpdateText(w) ==
    LET i == Of(w) IN
    /\ In(w, {"edit"}, "read")
    /\ IF i \in shown
         THEN /\ text' = [text EXCEPT ![i] = work[w].text]
              /\ past' = [past EXCEPT ![i] = @ \cup {text[i]}]
              /\ skipped' = IF text[i] = work[w].seen THEN skipped ELSE skipped \cup {i}
              /\ Proceed(w, "updated")
         ELSE Finish(w) /\ UNCHANGED <<text, past, skipped>>
    /\ UNCHANGED <<settled, live, crashes, mediaVars, rowVars, terms, known, snapshots,
                   miscounted, unfinished, overlapped>>

SnapshotOfNow(w) ==   \* a mistake: the row is read after it was updated
    /\ In(w, {"edit"}, "updated")
    /\ snapshots' = [snapshots EXCEPT ![Of(w)] = @ \cup {text[Of(w)]}]
    /\ Proceed(w, "attaching")
    /\ UNCHANGED <<settled, live, crashes, mediaVars, rowVars, text, terms, known, past, notes>>

\* INSERT INTO status_edits what was read.
Snapshot(w) ==
    /\ In(w, {"edit"}, "updated")
    /\ snapshots' = [snapshots EXCEPT ![Of(w)] = @ \cup {work[w].seen}]
    /\ Proceed(w, "attaching")
    /\ UNCHANGED <<settled, live, crashes, mediaVars, rowVars, text, terms, known, past, notes>>

\* The media one by one.  One that is on another status by now ends the request
\* with 422, after its text is published.
AttachMedia(w) ==
    /\ In(w, {"edit"}, "attaching")
    /\ \E m \in work[w].files :
         IF m \in AttachableTo(Of(w), By(w))
           THEN /\ holder' = [holder EXCEPT ![m] = Of(w)]
                /\ work' = [work EXCEPT ![w].files = @ \ {m}]
                /\ UNCHANGED unfinished
           ELSE /\ Finish(w)
                /\ unfinished' = unfinished \cup {Of(w)}
                /\ UNCHANGED holder
    /\ UNCHANGED <<settled, live, crashes, owner, rowVars, textVars, miscounted, overlapped,
                   skipped>>

Forget(w, N) == terms' = [terms EXCEPT ![Of(w)] = @ \ N]

\* DELETE FROM status_tags
ClearTags(w) ==
    /\ In(w, {"edit"}, "attaching") /\ work[w].files = {}
    /\ Forget(w, Tags)
    /\ Proceed(w, "tagging")
    /\ UNCHANGED <<settled, live, crashes, mediaVars, rowVars, text, known, snapshots, past,
                   notes>>

ClearNoMentions(w) ==   \* a mistake: the old mentions stay
    /\ In(w, {"edit"}, "tagging") /\ work[w].todo = {}
    /\ Proceed(w, "cleared")
    /\ UNCHANGED <<settled, live, crashes, mediaVars, rowVars, textVars, notes>>

\* DELETE FROM mentions, those of remote accounts too, which nothing puts back.
ClearMentions(w) ==
    /\ In(w, {"edit"}, "tagging") /\ work[w].todo = {}
    /\ Forget(w, LocalNames \cup RemoteNames)
    /\ IF TermsIn(work[w].text) \cap LocalNames = {} THEN Finish(w) ELSE Proceed(w, "cleared")
    /\ UNCHANGED <<settled, live, crashes, mediaVars, rowVars, text, known, snapshots, past,
                   notes>>

-----------------------------------------------------------------------------
(* Removing. *)

\* deleteStatus and Delete read a live status of the account.
StartDelete(w, kind, a, i) ==
    /\ CanBegin(w, kind) /\ kind \in {"deleteReply", "inDeleteReply"}
    /\ i \in shown /\ writer[i] = a
    /\ Begin(w, kind, a, i, "found", None, {})
    /\ UNCHANGED <<settled, live, crashes, mediaVars, rowVars, textVars, notes>>

\* deleteStatus updates a row that is not deleted yet and ends if there is none;
\* Delete does neither.
RemoveReply(w) ==
    LET hit == Of(w) \in shown IN
    /\ In(w, {"deleteReply", "inDeleteReply"}, "found")
    /\ shown' = shown \ {Of(w)}
    /\ IF hit \/ work[w].kind = "inDeleteReply" THEN Proceed(w, "removed") ELSE Finish(w)
    /\ miscounted' = (miscounted \/ (~hit /\ work[w].kind = "inDeleteReply"))
    /\ UNCHANGED <<settled, live, crashes, mediaVars, writer, replies, written, textVars,
                   unfinished, overlapped, skipped>>

UncountReply(w) ==
    /\ In(w, {"deleteReply", "inDeleteReply"}, "removed")
    /\ replies' = Less(replies)
    /\ written' = [a \in Locals |-> IF a = By(w) THEN Less(written[a]) ELSE written[a]]
    /\ miscounted' = (miscounted \/ replies = 0 \/ (By(w) \in Locals /\ written[By(w)] = 0))
    /\ Finish(w)
    /\ UNCHANGED <<settled, live, crashes, mediaVars, writer, shown, textVars, unfinished,
                   overlapped, skipped>>

-----------------------------------------------------------------------------
(* Interruptions. *)

\* A statement throws or the worker dies.  A request ends where it is, and keeps
\* the media it claimed; a task of the queue comes again.
Interrupt(w) ==
    /\ Doing(w) /\ work[w].phase # "queued" /\ crashes < MaxCrashes
    /\ crashes' = crashes + 1
    /\ IF work[w].kind \in SentKinds THEN Proceed(w, "queued") ELSE Finish(w)
    /\ unfinished' = IF work[w].phase \in {"read", "found", "absent"} THEN unfinished
                     ELSE unfinished \cup {Of(w)}
    /\ miscounted' = (miscounted \/ work[w].phase \in {"inserted", "removed"})
    /\ UNCHANGED <<settled, live, mediaVars, rowVars, textVars, overlapped, skipped>>

\* From the first statement; what was started before is not taken up.
Retry(w) ==
    /\ Doing(w) /\ work[w].phase = "queued"
    /\ \/ work[w].kind = "inReply" /\ Of(w) \notin shown /\ live /\ Proceed(w, "absent")
       \/ work[w].kind = "inReply" /\ (Of(w) \in shown \/ ~live) /\ Finish(w)
       \/ work[w].kind = "inDeleteReply" /\ Of(w) \in shown /\ Proceed(w, "found")
       \/ work[w].kind = "inDeleteReply" /\ Of(w) \notin shown /\ Finish(w)
    /\ UNCHANGED <<settled, live, crashes, mediaVars, rowVars, textVars, notes>>

-----------------------------------------------------------------------------
CreateStep(w) ==
    \/ ClaimMedia(w) \/ FailReply(w) \/ ReleaseMedia(w) \/ InsertReply(w)
    \/ InsertInReply(w) \/ CountInReply(w)
    \/ ReadTags(w) \/ AddTags(w) \/ LinkTags(w) \/ MentionLocals(w) \/ MentionRemotes(w)

EditStep(w) ==
    \/ UpdateText(w) \/ Snapshot(w) \/ AttachMedia(w) \/ ClearTags(w) \/ ClearMentions(w)

BeginWork(w) ==
    \/ \E a \in Locals, t \in Texts, F \in Uploads :
         \/ StartReply(w, a, t, F)
         \/ \E i \in Replies : StartEdit(w, a, i, t, F)
    \/ \E a \in Remotes, i \in Replies, t \in Texts : StartInReply(w, a, i, t)
    \/ \E a \in Locals, i \in Replies : StartDelete(w, "deleteReply", a, i)
    \/ \E a \in Remotes, i \in Replies : StartDelete(w, "inDeleteReply", a, i)

AuthoringNext ==
    \/ Next /\ UNCHANGED writing
    \/ \E w \in Workers :
         \/ BeginWork(w) \/ CreateStep(w) \/ EditStep(w)
         \/ RemoveReply(w) \/ UncountReply(w)
         \/ Interrupt(w) \/ Retry(w)

AuthoringSpec == AuthoringInit /\ [][AuthoringNext]_<<vars, writing>>

-----------------------------------------------------------------------------
(* Properties. *)

Underway(kinds, phase) == {w \in Workers : In(w, kinds, phase)}

\* replies_count of the parent, and what replies add to statuses_count, are the
\* numbers of live replies, give or take what tasks in flight still have to count,
\* as long as no Delete met a reply that was gone, no counter was held at zero and
\* no task was interrupted while it owed a count.
RepliesCounted ==
    ~miscounted =>
      /\ replies + Cardinality(Underway({"inReply"}, "inserted"))
           = Cardinality(shown)
             + Cardinality(Underway({"deleteReply", "inDeleteReply"}, "removed"))
      /\ \A a \in Locals :
           written[a] = Cardinality({i \in shown : writer[i] = a})
                        + Cardinality({w \in Underway({"deleteReply"}, "removed") : By(w) = a})

\* Whatever requests compete for an upload: what a createStatus has claimed stays
\* its own until it gives it back, media are on statuses of their owner, and media
\* that are on no status there is belong to a request under way or to one that was
\* interrupted.
MediaAccountedFor ==
    /\ \A w \in Workers : Doing(w) => \A m \in work[w].claimed : holder[m] = Of(w)
    /\ \A m \in Media : holder[m] # None =>
         \/ writer[holder[m]] = owner[m]
         \/ \E w \in WritersOf(holder[m]) : work[w].kind = "reply" /\ By(w) = owner[m]
         \/ holder[m] \in unfinished

\* Once nobody writes to a reply, its hashtags and local mentions are those of the
\* text it says, and those to remote accounts too as long as it was never edited,
\* unless edits overlapped or a task ended before its last statement.
IndexMatchesText ==
    \A i \in shown \ (overlapped \cup unfinished) : WritersOf(i) = {} =>
      /\ terms[i] \ RemoteNames = TermsIn(text[i]) \ RemoteNames
      /\ writer[i] \in Locals /\ past[i] = {} =>
           terms[i] \cap RemoteNames = TermsIn(text[i]) \cap RemoteNames

\* The edit history shows nothing that was not said.  It also leaves nothing out,
\* unless an edit replaced a version it had not read or was interrupted, or has
\* yet to record what it replaced.
HistoryIsTrue ==
    \A i \in Replies :
      /\ snapshots[i] \subseteq past[i]
      /\ i \notin skipped \cup unfinished =>
           past[i] \subseteq snapshots[i]
                       \cup {work[w].seen : w \in Underway({"edit"}, "updated")}
=============================================================================
