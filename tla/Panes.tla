-------------------------------- MODULE Panes --------------------------------
(***************************************************************************)
(* Three overlays of the dashboard that show what comes back later: the    *)
(* transcript of a ticket, polled while its file grows                     *)
(* (tui/hooks/useTranscript.ts), the output of a palette command           *)
(* (useCmdOutput.ts), and the review list with its previews (useReview.ts, *)
(* useViewActions.ts, useChatDrafts.ts).  `pane` says which one a          *)
(* behaviour is about.                                                     *)
(***************************************************************************)
EXTENDS Naturals, Sequences, FiniteSets, SequencesExt

CONSTANTS
    MaxRecords,   \* bound: records appended to the transcript
    MaxTokens,    \* bound: palette commands run
    Parked,       \* ids of the parked drafts, in the order they are listed
    MaxVisits     \* bound: what the operator and failures do in an overlay

ASSUME PanesBounds ==
    /\ MaxRecords \in Nat /\ MaxTokens \in Nat /\ MaxVisits \in Nat
    /\ Parked \subseteq Nat \ {0} /\ IsFiniteSet(Parked)

VARIABLES
    pane,      \* "transcript", "command", "review" or "none"
    log,       \* the transcript file: its records, whether a run is open, whether
               \* the ticket is over
    view,      \* the transcript overlay
    read,      \* the read under way: the size its stat saw
    resumed,   \* a further run began after a read had seen the last one end
    cmd,       \* the command overlay
    runs,      \* the commands under way
    store,     \* the drafts on disk
    kind,      \* what the drafts are: "chat", reconciled by id, or "comment"
    items,     \* the review list as loaded
    preview,   \* the index of the open preview, 0 for none
    meant,     \* the draft the operator opened
    loads,     \* the loads under way: what each has read, or "asked"
    posts,     \* the verbs under way: the draft each is about
    reaimed,   \* a load changed which comment draft lies at the open index
    visits

transcriptVars == <<log, view, read, resumed>>
commandVars == <<cmd, runs>>
reviewVars == <<store, kind, items, preview, meant, loads, posts, reaimed>>
paneVars == <<pane, transcriptVars, commandVars, reviewVars, visits>>

Visit == visits > 0 /\ visits' = visits - 1

-----------------------------------------------------------------------------
(* The transcript.  Sizes and contents are record counts.                  *)

NoView == [open |-> FALSE, expect |-> FALSE, shown |-> 0, live |-> FALSE, size |-> 0, error |-> FALSE]

\* A run appends records, ends, and a further run of the ticket may follow.
Grows ==
    /\ ~log.over /\ log.count < MaxRecords
    /\ \E running \in BOOLEAN :
        /\ log.running \/ running
        /\ log' = [log EXCEPT !.count = @ + 1, !.running = running]
        /\ resumed' = (resumed \/ (~log.running /\ view.shown > 0 /\ ~view.live))
    /\ UNCHANGED <<view, read, visits>>
TicketOver ==
    /\ ~log.running /\ ~log.over /\ log' = [log EXCEPT !.over = TRUE]
    /\ UNCHANGED <<view, read, resumed, visits>>

\* From the queue row: the snapshot, which may be behind, says whether it runs.
OpenTranscript ==
    /\ ~view.open /\ Visit
    /\ \E expect \in BOOLEAN : view' = [NoView EXCEPT !.open = TRUE, !.expect = expect]
    /\ read' = log.count /\ resumed' = FALSE
    /\ UNCHANGED log
CloseTranscript ==
    /\ view.open /\ view' = NoView
    /\ UNCHANGED <<log, read, resumed, visits>>

\* The interval reads while the run is open or the file is still to come, one
\* read at a time.
Polling == view.open /\ ~view.error /\ IF view.shown > 0 THEN view.live ELSE view.expect
NoRead == MaxRecords + 1
Tick ==
    /\ Polling /\ read = NoRead /\ read' = log.count
    /\ UNCHANGED <<log, view, resumed, visits>>

\* Between the stat and the read the file may have grown: the size shown is the
\* stat's, so the next tick reads again.
ReadLands ==
    /\ read # NoRead /\ read' = NoRead
    /\ \/ /\ view' = IF ~view.open \/ (read = view.size /\ view.shown > 0) THEN view
                     ELSE IF read = 0 THEN [view EXCEPT !.error = ~view.expect]
                     ELSE [view EXCEPT !.shown = log.count, !.live = log.running, !.size = read]
          /\ UNCHANGED visits
       \/ Visit /\ view' = IF view.open THEN [view EXCEPT !.error = TRUE] ELSE view
    /\ UNCHANGED <<log, resumed>>

TranscriptStep == Tick \/ ReadLands
TranscriptNext == Grows \/ TicketOver \/ OpenTranscript \/ CloseTranscript \/ TranscriptStep

-----------------------------------------------------------------------------
(* A palette command: the newest token owns the overlay.                   *)

NoCmd == [token |-> 0, result |-> 0]
RunPaletteCommand ==
    /\ cmd.token < MaxTokens
    /\ cmd' = [token |-> cmd.token + 1, result |-> 0]
    /\ runs' = runs \cup {cmd.token + 1}
    /\ UNCHANGED visits
\* A refused draft submit lands its result at once.
ShowCmdResult ==
    /\ cmd.token < MaxTokens
    /\ cmd' = [token |-> cmd.token + 1, result |-> cmd.token + 1]
    /\ UNCHANGED <<runs, visits>>
\* Mutant: any command that comes back fills the overlay.
TakesAny(t) == TRUE
\* Only the newest run owns the overlay.
Takes(t) == t = cmd.token
CommandBack ==
    \E t \in runs :
        /\ runs' = runs \ {t}
        /\ cmd' = IF Takes(t) THEN [cmd EXCEPT !.result = t] ELSE cmd
        /\ UNCHANGED visits
CommandNext == RunPaletteCommand \/ ShowCmdResult \/ CommandBack

-----------------------------------------------------------------------------
(* The review list.                                                        *)

Listed(ids) == SetToSortSeq(ids, <)
Asked == {0}

\* `v`: the list on screen stays while the new one is loaded; no preview is open.
VisitReview ==
    /\ Visit /\ preview = 0 /\ Asked \notin loads
    /\ loads' = loads \cup {Asked}
    /\ UNCHANGED <<store, kind, items, preview, meant, posts, reaimed>>
LoadRead ==
    /\ Asked \in loads /\ loads' = (loads \ {Asked}) \cup {store}
    /\ UNCHANGED <<store, kind, items, preview, meant, posts, reaimed, visits>>

\* An open chat draft is found again by its id, or closed; the preview of a
\* comment draft keeps its index.
Reconciled(list) ==
    IF preview = 0 THEN 0
    ELSE IF kind = "chat"
         THEN IF items[preview] \in Range(list)
              THEN CHOOSE n \in DOMAIN list : list[n] = items[preview] ELSE 0
         ELSE preview
LoadLands ==
    \E l \in loads \ {Asked} :
        LET list == Listed(l)
            at == Reconciled(list)
        IN /\ loads' = loads \ {l}
           /\ items' = list
           /\ preview' = IF at > Len(list) THEN 0 ELSE at
           /\ reaimed' = (reaimed \/ (kind = "comment" /\ preview # 0
                                      /\ (at > Len(list) \/ list[at] # items[preview])))
           /\ UNCHANGED <<store, kind, meant, posts, visits>>

OpenPreview ==
    /\ preview = 0
    /\ \E n \in DOMAIN items : preview' = n /\ meant' = items[n]
    /\ UNCHANGED <<store, kind, items, loads, posts, reaimed, visits>>
ClosePreview ==
    /\ preview # 0 /\ preview' = 0
    /\ UNCHANGED <<store, kind, items, meant, loads, posts, reaimed, visits>>

\* post, submit or discard of the draft in the preview.
PressVerb ==
    /\ preview # 0 /\ items[preview] \notin posts
    /\ posts' = posts \cup {items[preview]}
    /\ UNCHANGED <<store, kind, items, preview, meant, loads, reaimed, visits>>

\* The draft leaves the disk.  A comment draft is dropped from the list and any
\* preview closed; a chat draft has the list loaded again.
VerbBack ==
    \E d \in posts :
        /\ posts' = posts \ {d}
        /\ \/ /\ store' = store \ {d}
              /\ IF kind = "comment"
                 THEN /\ items' = SelectSeq(items, LAMBDA i : i # d)
                      /\ preview' = 0 /\ UNCHANGED loads
                 ELSE loads' = loads \cup {Asked} /\ UNCHANGED <<items, preview>>
              /\ UNCHANGED visits
           \/ Visit /\ UNCHANGED <<store, items, preview, loads>>
        /\ UNCHANGED <<kind, meant, reaimed>>

\* The daemon parks a draft.
Parks ==
    /\ Visit
    /\ \E d \in Parked \ store : store' = store \cup {d}
    /\ UNCHANGED <<kind, items, preview, meant, loads, posts, reaimed>>

ReviewNext ==
    \/ VisitReview \/ LoadRead \/ LoadLands \/ OpenPreview \/ ClosePreview
    \/ PressVerb \/ VerbBack \/ Parks

-----------------------------------------------------------------------------
NothingOpen ==
    /\ log = [count |-> 0, running |-> FALSE, over |-> FALSE]
    /\ view = NoView /\ read = NoRead /\ resumed = FALSE
    /\ cmd = NoCmd /\ runs = {}
    /\ items = <<>> /\ preview = 0 /\ meant = 0 /\ loads = {} /\ posts = {} /\ reaimed = FALSE

PanesInit ==
    /\ NothingOpen /\ pane \in {"transcript", "command", "review"}
    /\ kind \in IF pane = "review" THEN {"chat", "comment"} ELSE {"chat"}
    /\ store \in IF pane = "review" THEN SUBSET Parked ELSE {{}}
    /\ visits = MaxVisits

PanesIdle == NothingOpen /\ pane = "none" /\ kind = "chat" /\ store = {} /\ visits = 0

OfTranscript(A) == pane = "transcript" /\ A /\ UNCHANGED <<pane, commandVars, reviewVars>>
PanesNext ==
    \/ OfTranscript(TranscriptNext)
    \/ pane = "command" /\ CommandNext /\ UNCHANGED <<pane, transcriptVars, reviewVars>>
    \/ pane = "review" /\ ReviewNext /\ UNCHANGED <<pane, transcriptVars, commandVars>>

PanesTypeOK ==
    /\ log \in [count : 0 .. MaxRecords, running : BOOLEAN, over : BOOLEAN]
    /\ read \in 0 .. NoRead /\ {view.shown, view.size} \subseteq 0 .. MaxRecords
    /\ cmd.token \in 0 .. MaxTokens /\ runs \subseteq 1 .. MaxTokens
    /\ store \subseteq Parked /\ posts \subseteq Parked /\ Range(items) \subseteq Parked
    /\ preview \in 0 .. Len(items) /\ visits \in 0 .. MaxVisits

\* The result on screen is that of the command on screen.
OutputIsOfItsCommand == cmd.result \in {0, cmd.token}

\* A poll that has stopped stopped at the end of the file, unless a further run
\* of the ticket began after that.
PollStopsAtTheEnd ==
    view.shown > 0 /\ ~Polling /\ ~view.error /\ ~resumed => view.shown = log.count

\* A verb is about the draft the operator opened: of a comment draft only while no
\* load has put another one at its index.
VerbMeetsTheOpened ==
    [][\A d \in posts' \ posts : d = meant \/ reaimed]_paneVars

\* The overlay gets to the end of a transcript that ends.
TranscriptIsComplete ==
    view.open /\ log.over /\ log.count > 0 /\ ~view.error /\ ~resumed => view.shown = log.count
=============================================================================
