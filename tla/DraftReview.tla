----------------------------- MODULE DraftReview -----------------------------
(***************************************************************************)
(* The review queue of one investigate ticket (commentReview.ts): the      *)
(* comment its run drafts (analyzeFlow.ts), the editor in which a person   *)
(* rewrites it, the processes that post it to the issue (analyzeCmd.ts,    *)
(* from the command line and the dashboard) and the replay of a post that  *)
(* had to be queued (the comment case of githubOutbox.ts).                 *)
(*                                                                         *)
(* The draft is one JSON file: who posts or edits it reads it first and    *)
(* archives or replaces whatever is there at the end. Texts are numbered   *)
(* in the order in which they are written.                                 *)
(***************************************************************************)
EXTENDS Naturals

CONSTANTS
    Posters,     \* processes that post
    TryLimit,    \* MAX_OP_ATTEMPTS
    TextBound,   \* bound on texts written: runs and edits
    PostBound,   \* bound on posts
    MishapBound  \* bound on network failures, kills, discards, unwatches and refused
                 \* posts, all together

ASSUME DraftReviewAssumption ==
    /\ TryLimit \in Nat \ {0} /\ TextBound \in Nat /\ PostBound \in Nat
    /\ MishapBound \in Nat

VARIABLES
    draft,     \* the parked text; 0 when there is none
    editor,    \* the text open in an editor; 0 when closed
    post,      \* per poster: the text it posts, and whether it is out
    queue,     \* queued comment ops
    buried,    \* texts of dead-lettered ops
    replay,    \* the replay of the queue
    comments,  \* GitHub: comments with each text
    posted,    \* texts archived to posted/
    count,     \* how much of each bound is used
    twice,     \* history: texts of which a second post began before the first was
               \* archived, or while its replay was under way
    swapped    \* history: texts put in place while another one was being posted, and
               \* texts whose queued post was deleted

draftVars == <<draft, editor, post, queue, buried, replay, comments, posted, count, twice, swapped>>

Texts == 1 .. TextBound
IdlePost == [at |-> "idle", text |-> 0]
NoNote == [t |-> 0, attempts |-> 0, name |-> 0]
\* A replay works on `op`; the others it listed are still to come.
IdleReplay == [at |-> "idle", op |-> NoNote, todo |-> {}]
Limit == [texts |-> TextBound, posts |-> PostBound, mishaps |-> MishapBound]

DraftInit ==
    /\ draft = 0 /\ editor = 0
    /\ post = [p \in Posters |-> IdlePost]
    /\ queue = {} /\ buried = {} /\ replay = IdleReplay
    /\ comments = [t \in Texts |-> 0] /\ posted = {}
    /\ count = [b \in DOMAIN Limit |-> 0]
    /\ twice = {} /\ swapped = {}

Take(b) == count[b] < Limit[b] /\ count' = [count EXCEPT ![b] = @ + 1]
InQueue(t) == \E o \in queue : o.t = t
Comment(t) == comments' = [comments EXCEPT ![t] = @ + 1]
Posting == {p \in Posters : post[p] # IdlePost}

\* A fresh text takes the draft's place.
Put ==
    LET t == count.texts + 1
    IN  /\ Take("texts") /\ draft' = t
        /\ swapped' = IF Posting # {} THEN swapped \cup {t} ELSE swapped

\* An analysis run ends with a draft, which replaces what an earlier run left.
Draft ==
    /\ Put
    /\ UNCHANGED <<editor, post, queue, buried, replay, comments, posted, twice>>

OpenEditor ==
    /\ editor = 0 /\ draft # 0
    /\ editor' = draft
    /\ UNCHANGED <<draft, post, queue, buried, replay, comments, posted, count, twice, swapped>>

\* The edited text is written back whatever became of the draft meanwhile; an
\* empty text or an editor that failed changes nothing.
CloseEditor ==
    /\ editor # 0 /\ editor' = 0
    /\ Put \/ UNCHANGED <<draft, count, swapped>>
    /\ UNCHANGED <<post, queue, buried, replay, comments, posted, twice>>

StartPost(p) ==
    /\ post[p] = IdlePost /\ draft # 0 /\ Take("posts")
    /\ post' = [post EXCEPT ![p] = [at |-> "send", text |-> draft]]
    /\ twice' = IF \/ comments[draft] > 0 \/ InQueue(draft)
                   \/ \E q \in Posters : post[q].text = draft
                THEN twice \cup {draft} ELSE twice
    /\ UNCHANGED <<draft, editor, queue, buried, replay, comments, posted, swapped>>

\* The live post does not look for an earlier one. Unreachable: the comment is
\* queued, whether or not it arrived. Refused: the draft stays.
Send(p) ==
    /\ post[p].at = "send"
    /\ LET t == post[p].text
           Out == post' = [post EXCEPT ![p].at = "out"]
       IN  \/ Out /\ Comment(t) /\ UNCHANGED <<queue, count>>
           \/ /\ Out /\ Take("mishaps")
              /\ Comment(t) \/ UNCHANGED comments
              /\ queue' = queue \cup {[t |-> t, attempts |-> 0, name |-> count.mishaps]}
           \/ /\ post' = [post EXCEPT ![p] = IdlePost] /\ Take("mishaps")
              /\ UNCHANGED <<queue, comments>>
    /\ UNCHANGED <<draft, editor, buried, replay, posted, twice, swapped>>

\* Mutant: the draft is archived before its post is tried.
ArchiveFirst(p) ==
    /\ post[p].at \in {"send", "out"}
    /\ draft' = 0 /\ posted' = IF draft = 0 THEN posted ELSE posted \cup {draft}
    /\ post' = [post EXCEPT ![p] = IdlePost]
    /\ UNCHANGED <<editor, queue, buried, replay, comments, count, twice, swapped>>
\* Whatever is parked under the ticket's id is archived as posted.
Archive(p) ==
    /\ post[p].at = "out"
    /\ draft' = 0 /\ posted' = IF draft = 0 THEN posted ELSE posted \cup {draft}
    /\ post' = [post EXCEPT ![p] = IdlePost]
    /\ UNCHANGED <<editor, queue, buried, replay, comments, count, twice, swapped>>

\* The first op of those listed has its turn.
InTurnOf(listed) ==
    \E op \in listed :
        /\ \A o \in listed : op.name <= o.name
        /\ replay' = [at |-> "scan", op |-> op, todo |-> listed \ {op}]

Replay ==
    /\ replay = IdleReplay
    /\ InTurnOf(queue)
    /\ UNCHANGED <<draft, editor, post, queue, buried, comments, posted, count, twice, swapped>>

Onward == InTurnOf(replay.todo) \/ (replay.todo = {} /\ replay' = IdleReplay)
Gone == queue' = queue \ {replay.op} /\ Onward /\ UNCHANGED buried
Cut == replay' = IdleReplay /\ UNCHANGED <<queue, buried>>

\* As of an issue-create op: the last refusal buries what is still there, an
\* earlier one writes the file anew.
Denied ==
    LET op == replay.op
        again == [op EXCEPT !.attempts = @ + 1]
    IN  /\ queue' = (queue \ {op}) \cup (IF again.attempts < TryLimit THEN {again} ELSE {})
        /\ buried' = IF again.attempts >= TryLimit /\ op \in queue THEN buried \cup {op.t} ELSE buried
        /\ Onward /\ UNCHANGED count

\* The marker is derived from the text: a post whose answer was lost is found.
Look ==
    /\ replay.at = "scan"
    /\ LET t == replay.op.t
       IN  \/ comments[t] > 0 /\ Gone /\ UNCHANGED count
           \/ comments[t] = 0 /\ replay' = [replay EXCEPT !.at = "send"]
              /\ UNCHANGED <<queue, buried, count>>
           \/ Take("mishaps") /\ Cut
           \/ Denied
    /\ UNCHANGED <<draft, editor, post, comments, posted, twice, swapped>>

Deliver ==
    /\ replay.at = "send"
    /\ LET t == replay.op.t
       IN  \/ Comment(t) /\ Gone /\ UNCHANGED count
           \/ Take("mishaps") /\ Cut /\ (Comment(t) \/ UNCHANGED comments)
           \/ Denied /\ UNCHANGED comments
    /\ UNCHANGED <<draft, editor, post, posted, twice, swapped>>

Toss ==
    /\ draft # 0 /\ Take("mishaps") /\ draft' = 0
    /\ UNCHANGED <<editor, post, queue, buried, replay, comments, posted, twice, swapped>>

\* Unwatching the repository deletes its queued ops with the draft.
Forget ==
    /\ Take("mishaps") /\ draft' = 0 /\ queue' = {}
    /\ swapped' = swapped \cup {t \in Texts : InQueue(t)}
    /\ UNCHANGED <<editor, post, buried, replay, comments, posted, twice>>

KillPoster(p) ==
    /\ post[p] # IdlePost /\ Take("mishaps")
    /\ post' = [post EXCEPT ![p] = IdlePost]
    /\ UNCHANGED <<draft, editor, queue, buried, replay, comments, posted, twice, swapped>>

KillReplay ==
    /\ replay # IdleReplay /\ Take("mishaps")
    /\ replay' = IdleReplay
    /\ UNCHANGED <<draft, editor, post, queue, buried, comments, posted, twice, swapped>>

PostStep(p) == Send(p) \/ Archive(p)
ReplayStep == Replay \/ Look \/ Deliver
DraftNext ==
    \/ Draft \/ OpenEditor \/ CloseEditor \/ ReplayStep \/ Toss \/ Forget \/ KillReplay
    \/ \E p \in Posters : StartPost(p) \/ PostStep(p) \/ KillPoster(p)
-----------------------------------------------------------------------------
Note == [t : Texts, attempts : 0 .. TryLimit - 1, name : Nat]
DraftTypeOK ==
    /\ draft \in 0 .. TextBound /\ editor \in 0 .. TextBound
    /\ \A p \in Posters : post[p] \in [at : {"idle", "send", "out"}, text : 0 .. TextBound]
    /\ queue \subseteq Note /\ replay.todo \subseteq Note
    /\ replay.at \in {"idle", "scan", "send"} /\ (replay.at # "idle" => replay.op \in Note)
    /\ comments \in [Texts -> Nat] /\ posted \subseteq Texts

\* A text reaches the issue once, through lost acknowledgements, kills of the
\* replay and refused calls. The exception is a second post of a draft whose first
\* one is out but not archived: the live post does not look (analyzeCmd.ts:325).
OneCommentEach == \A t \in Texts : comments[t] > 1 => t \in twice

\* What is archived as posted is on the issue, still queued, or given up in
\* outbox/dead/. The exception is a text that took the draft's place during a
\* post, which removes by id what it did not send (analyzeCmd.ts:328).
PostedWasSent ==
    \A t \in posted : comments[t] > 0 \/ InQueue(t) \/ t \in buried \cup swapped

\* A parked text goes away only because it was posted, queued, thrown out, or
\* replaced by a text of a run or an edit; nothing but a run or an edit brings one.
DraftStands ==
    draft' # draft =>
        \/ draft' = count.texts + 1
        \/ draft' = 0 /\ (draft \in posted' \/ count'.mishaps > count.mishaps)

\* Every queued comment is sent or given up.
CommentsSettle == queue # {} ~> queue = {}
=============================================================================
