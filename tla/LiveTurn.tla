------------------------------- MODULE LiveTurn -------------------------------
(***************************************************************************)
(* The turn being streamed, on both sides of the event stream: the         *)
(* daemon's accumulator, which splits <think> tags out of the text and     *)
(* numbers the records it publishes, and the dashboard's reducer, which    *)
(* starts from a snapshot whenever it attaches in the middle.              *)
(*                                                                         *)
(* Text is a sequence of symbols: "<" begins either tag, "<t" opens one    *)
(* and "</" closes it, " " and "n" are white space, "n" being the newline. *)
(* The stream is in order, so a dashboard that lags is one that detaches   *)
(* earlier: an attached dashboard applies each record as it is published.  *)
(***************************************************************************)
EXTENDS Integers, Sequences, SequencesExt, FiniteSets

CONSTANTS
    Chunks,         \* bound: the text a provider may send in one delta
    Snapshots,      \* bound: what a tool may have printed so far
    OutputCap,      \* CHAT_TOOL_OUTPUT_CAP, in symbols
    ResultCap,      \* CHAT_TOOL_RESULT_CAP, in symbols
    MaxEvents       \* bound on the provider's events in the turn

ASSUME LiveTurnAssumption ==
    /\ Chunks \subseteq Seq({"<", "t", "/", "a", " ", "n"}) \ {<<>>}
    /\ OutputCap \in Nat \ {0} /\ ResultCap \in Nat \ {0} /\ MaxEvents \in Nat

VARIABLES
    thinkTags,  \* chat.thinkTags: "auto", "on" or "off"
    acc,        \* the accumulator
    view,       \* the dashboard's turn, or NoView while it is not attached
    said,       \* what the provider sent, one record for each content block
    ran,        \* what the tool printed and returned
    events      \* how many of MaxEvents were sent; MaxEvents + 1 when finished

liveVars == <<thinkTags, acc, view, said, ran, events>>

-----------------------------------------------------------------------------
(* Splitting tags out of a stream of chunks.                               *)

Open == <<"<", "t">>
Close == <<"<", "/">>
White == {" ", "n"}

SeqFrom(s, i) == SubSeq(s, i, Len(s))
Find(s, tag) ==
    LET at == {i \in 1 .. Len(s) - 1 : SubSeq(s, i, i + 1) = tag}
    IN  IF at = {} THEN 0 ELSE CHOOSE i \in at : \A j \in at : i <= j

TrimRight(s) ==
    LET ends == {i \in 1 .. Len(s) : s[i] \notin White}
    IN  IF ends = {} THEN <<>> ELSE SubSeq(s, 1, CHOOSE i \in ends : \A j \in ends : j <= i)
TrimLeft(s) == Reverse(TrimRight(Reverse(s)))

\* A splitter: inside a tag pair or not, what it holds back, whether the
\* block's leading white space is still to be dropped, and a newline after it.
NewSplitter == [in |-> FALSE, held |-> <<>>, start |-> FALSE, after |-> FALSE]
Result(st, out) == [st |-> st, out |-> out]

Emit(st, out, kind, delta) ==
    LET d == IF kind = "thinking" /\ st.start THEN TrimLeft(delta) ELSE delta IN
    IF d = <<>> THEN Result(st, out)
    ELSE Result([st EXCEPT !.start = @ /\ kind = "text"], Append(out, [kind |-> kind, delta |-> d]))

\* Nothing more of a tag in `buf`: all of it goes out but the tail that may
\* turn out to begin one, or to be white space before the closing one.
HoldBack(st, buf, out) ==
    LET keep == IF buf # <<>> /\ Last(buf) = "<" THEN <<"<">> ELSE <<>>
        body == SubSeq(buf, 1, Len(buf) - Len(keep))
        shown == IF st.in THEN TrimRight(body) ELSE body
        e == Emit(st, out, IF st.in THEN "thinking" ELSE "text", shown)
    IN  [e EXCEPT !.st.held = SeqFrom(body, Len(shown) + 1) \o keep]

RECURSIVE Scan(_, _, _)
Scan(st, buf, out) ==
    IF st.after /\ buf = <<>> THEN Result([st EXCEPT !.held = <<>>], out)
    ELSE
    LET b == IF st.after /\ Head(buf) = "n" THEN Tail(buf) ELSE buf
        s == [st EXCEPT !.after = FALSE, !.held = <<>>]
        i == Find(b, IF s.in THEN Close ELSE Open)
        before == SubSeq(b, 1, i - 1)
    IN  IF i = 0 THEN HoldBack(s, b, out)
        ELSE IF s.in
             THEN LET e == Emit(s, out, "thinking", TrimRight(before))
                  IN  Scan([e.st EXCEPT !.in = FALSE, !.after = TRUE], SeqFrom(b, i + 2), e.out)
             ELSE LET e == Emit(s, out, "text", before)
                  IN  Scan([e.st EXCEPT !.in = TRUE, !.start = TRUE], SeqFrom(b, i + 2), e.out)

\* Mutant: what was held back is dropped.
PushFreshHeld(st, delta) == Scan(st, delta, <<>>)
Push(st, delta) == Scan(st, st.held \o delta, <<>>)

End(st) ==
    Emit([st EXCEPT !.after = FALSE, !.held = <<>>], <<>>,
         IF st.in THEN "thinking" ELSE "text", IF st.in THEN TrimRight(st.held) ELSE st.held)

-----------------------------------------------------------------------------
(* The accumulator. `out` is what the current event publishes.             *)

Block(kind, at, body) ==
    [kind |-> kind, at |-> at, body |-> body, done |-> FALSE,
     result |-> <<>>, error |-> FALSE, cut |-> FALSE]
Start == [seq |-> 0, blocks |-> <<>>, sp |-> NewSplitter, at |-> 0, splitting |-> FALSE,
          native |-> FALSE, base |-> 0, max |-> -1, out |-> <<>>]

Close1(b) == IF b.kind = "thinking" THEN [b EXCEPT !.done = TRUE] ELSE b
CloseThinking(blocks) == FoldLeft(LAMBDA s, b : Append(s, Close1(b)), <<>>, blocks)
BlockAt(blocks, kind, at) ==
    LET is == {i \in DOMAIN blocks : blocks[i].kind = kind /\ blocks[i].at = at}
    IN  IF is = {} THEN 0 ELSE CHOOSE i \in is : \A j \in is : i <= j

Emitted(a, rec) == [a EXCEPT !.seq = @ + 1, !.out = Append(@, [rec EXCEPT !.seq = a.seq + 1])]
Delta(kind, at, body) == [type |-> kind, seq |-> 0, at |-> at, body |-> body]

Grow(blocks, kind, at, delta) ==
    LET i == BlockAt(blocks, kind, at)
    IN  IF i = 0 THEN Append(blocks, Block(kind, at, delta))
        ELSE [blocks EXCEPT ![i].body = @ \o delta]
AddDelta(a, kind, at, delta) ==
    Emitted([a EXCEPT !.blocks =
                Grow(IF kind = "text" THEN CloseThinking(@) ELSE @, kind, at, delta)],
            Delta(kind, at, delta))
Pieces(a, pieces, at) == FoldLeft(LAMBDA x, p : AddDelta(x, p.kind, at, p.delta), a, pieces)

FlushSplitter(a) ==
    IF ~a.splitting THEN a
    ELSE LET e == End(a.sp) IN Pieces([a EXCEPT !.sp = e.st], e.out, a.at)
Raw(a) == thinkTags = "off" \/ (thinkTags = "auto" /\ a.native)

OnTextDelta(a, at, delta) ==
    IF Raw(a)
    THEN AddDelta([FlushSplitter(a) EXCEPT !.splitting = FALSE], "text", at, delta)
    ELSE LET f == IF a.splitting /\ a.at # at THEN FlushSplitter(a) ELSE a
             p == Push(IF f.splitting THEN f.sp ELSE NewSplitter, delta)
         IN  Pieces([f EXCEPT !.splitting = TRUE, !.at = at, !.sp = p.st], p.out, at)
OnThinkingDelta(a, at, delta) == AddDelta([a EXCEPT !.native = TRUE], "thinking", at, delta)
OnThinkingEnd(a, at) ==
    LET i == BlockAt(a.blocks, "thinking", at)
    IN  IF i = 0 THEN a ELSE [a EXCEPT !.blocks[i].done = TRUE]

\* The provider's index restarts with each message; the turn's does not.
OnMessageStart(a) == [a EXCEPT !.base = a.max + 1]
SeenIndex(a, sdk) == IF a.base + sdk > a.max THEN [a EXCEPT !.max = a.base + sdk] ELSE a

LastOf(s, n) == SeqFrom(s, IF Len(s) > n THEN Len(s) - n + 1 ELSE 1)
ToolRec(phase, body) ==
    [type |-> phase, seq |-> 0, at |-> 0, body |-> body, replace |-> FALSE, cut |-> FALSE,
     error |-> FALSE]

\* The tool's output, whole each time: what extends the last one goes out as
\* its new end, anything else replaces it.
OnToolUpdate(a, last, snapshot) ==
    LET i == BlockAt(a.blocks, "tool", 0)
        extends == IsPrefix(last, snapshot)
        delta == SeqFrom(snapshot, Len(last) + 1)
        all == IF extends THEN a.blocks[i].body \o delta ELSE snapshot
        b == [a.blocks[i] EXCEPT !.body = LastOf(all, OutputCap),
                                 !.cut = (extends /\ @) \/ Len(all) > OutputCap]
    IN  IF extends /\ delta = <<>> THEN a
        ELSE Emitted([a EXCEPT !.blocks[i] = b],
                     [ToolRec("output", IF extends THEN delta ELSE snapshot)
                        EXCEPT !.replace = ~extends])
OnToolStart(a) ==
    Emitted([a EXCEPT !.blocks = Append(@, Block("tool", 0, <<>>))], ToolRec("start", <<>>))
OnToolEnd(a, result, error) ==
    LET i == BlockAt(a.blocks, "tool", 0)
        cut == Len(result) > ResultCap
        r == IF cut THEN SubSeq(result, 1, ResultCap) ELSE result
    IN  Emitted([a EXCEPT !.blocks[i] = [@ EXCEPT !.result = r, !.error = error, !.done = TRUE,
                                                  !.cut = @ \/ cut]],
                [ToolRec("end", r) EXCEPT !.cut = cut, !.error = error])

Finish(a) ==
    LET f == FlushSplitter(a) IN [f EXCEPT !.splitting = FALSE, !.blocks = CloseThinking(@)]

-----------------------------------------------------------------------------
(* The dashboard's reducer.                                                *)

NoView == [seq |-> -1, blocks |-> <<>>, dropped |-> 0]
Watching == view # NoView

\* The snapshot is taken as it is; records up to its number are in it already.
Partial(a) == [seq |-> a.seq, blocks |-> a.blocks, dropped |-> 0]

Rank(b) == 2 * b.at + (IF b.kind = "thinking" THEN 0 ELSE 1)
InsertFresh(blocks, b) ==
    LET before == {i \in DOMAIN blocks : blocks[i].kind = "tool" \/ Rank(blocks[i]) <= Rank(b)}
        k == IF before = {} THEN 0 ELSE CHOOSE i \in before : \A j \in before : j <= i
    IN  SubSeq(blocks, 1, k) \o <<b>> \o SeqFrom(blocks, k + 1)

ApplyDelta(v, r) ==
    LET blocks == IF r.type = "text" THEN CloseThinking(v.blocks) ELSE v.blocks
        i == BlockAt(blocks, r.type, r.at)
    IN  [v EXCEPT !.seq = r.seq,
                  !.blocks = IF i = 0 THEN InsertFresh(blocks, Block(r.type, r.at, r.body))
                             ELSE [blocks EXCEPT ![i].body = @ \o r.body]]

ApplyOutput(b, r) ==
    LET joined == IF r.replace THEN r.body ELSE b.body \o r.body
    IN  [b EXCEPT !.body = LastOf(joined, OutputCap),
                  !.cut = (~r.replace /\ @) \/ Len(joined) > OutputCap]
ApplyEnd(b, r) ==
    [b EXCEPT !.result = r.body, !.error = r.error, !.done = TRUE, !.cut = @ \/ r.cut]
ApplyTool(v, r) ==
    LET i == BlockAt(v.blocks, "tool", r.at) IN
    IF r.type = "start"
    THEN [v EXCEPT !.seq = r.seq, !.blocks = Append(@, Block("tool", r.at, <<>>))]
    ELSE IF i = 0 THEN [v EXCEPT !.seq = r.seq, !.dropped = @ + 1]
    ELSE [v EXCEPT !.seq = r.seq,
                   !.blocks[i] = IF r.type = "output" THEN ApplyOutput(@, r) ELSE ApplyEnd(@, r)]

Apply(v, r) ==
    IF r.seq <= v.seq THEN v
    ELSE IF r.type \in {"text", "thinking"} THEN ApplyDelta(v, r) ELSE ApplyTool(v, r)

-----------------------------------------------------------------------------
(* A turn: messages of content blocks, and one tool between two of them.   *)

Sent(sdk) == [sdk |-> sdk, tagged |-> <<>>, raw |-> <<>>, native |-> <<>>]
CurrentBlock == said[Len(said)]
Streamed == CurrentBlock.tagged \o CurrentBlock.raw \o CurrentBlock.native
NativeSeen == \E i \in DOMAIN said : said[i].native # <<>>

LiveInit ==
    /\ thinkTags \in {"auto", "on", "off"}
    /\ acc = Start /\ view \in {NoView, Partial(Start)}
    /\ said = <<Sent(0)>> /\ ran = [phase |-> "none", last |-> <<>>, result |-> <<>>, error |-> FALSE]
    /\ events = 0

\* emitSdk: an event goes through the accumulator, and what comes out to the
\* subscribers.
Observe(a) ==
    /\ events < MaxEvents /\ events' = events + 1
    /\ acc' = [a EXCEPT !.out = <<>>]
    /\ view' = IF Watching THEN FoldLeft(Apply, view, a.out) ELSE view
    /\ UNCHANGED thinkTags

InMessage == ran.phase \in {"none", "over"}
Index == acc.base + CurrentBlock.sdk

TextDelta == \E delta \in Chunks :
    /\ InMessage /\ CurrentBlock.native = <<>>
    /\ Observe(OnTextDelta(SeenIndex(acc, CurrentBlock.sdk), Index, delta))
    /\ said' = [said EXCEPT ![Len(said)] =
            IF thinkTags = "off" \/ (thinkTags = "auto" /\ NativeSeen)
            THEN [@ EXCEPT !.raw = @ \o delta] ELSE [@ EXCEPT !.tagged = @ \o delta]]
    /\ UNCHANGED ran

ThinkingDelta ==
    /\ InMessage /\ CurrentBlock.tagged \o CurrentBlock.raw = <<>>
    /\ Observe(OnThinkingDelta(SeenIndex(acc, CurrentBlock.sdk), Index, <<"a">>))
    /\ said' = [said EXCEPT ![Len(said)].native = Append(@, "a")]
    /\ UNCHANGED ran

ThinkingEnd ==
    /\ InMessage /\ CurrentBlock.native # <<>>
    /\ Observe(OnThinkingEnd(SeenIndex(acc, CurrentBlock.sdk), Index))
    /\ UNCHANGED <<said, ran>>

\* The provider goes on to its next content block: no event that counts here.
NextBlock ==
    /\ InMessage /\ Streamed # <<>> /\ events < MaxEvents
    /\ said' = Append(said, Sent(CurrentBlock.sdk + 1))
    /\ UNCHANGED <<thinkTags, acc, view, ran, events>>

MessageStart ==
    /\ (ran.phase = "none" /\ Streamed # <<>>) \/ ran.phase = "ended"
    /\ Observe(OnMessageStart(acc))
    /\ said' = Append(said, Sent(0))
    /\ ran' = [ran EXCEPT !.phase = IF @ = "ended" THEN "over" ELSE @]

ToolStart ==
    /\ ran.phase = "none"
    /\ Observe(OnToolStart(acc))
    /\ ran' = [ran EXCEPT !.phase = "running"] /\ UNCHANGED said

ToolUpdate == \E snapshot \in Snapshots :
    /\ ran.phase = "running"
    /\ Observe(OnToolUpdate(acc, ran.last, snapshot))
    /\ ran' = [ran EXCEPT !.last = snapshot] /\ UNCHANGED said

ToolEnd == \E result \in Snapshots, error \in BOOLEAN :
    /\ ran.phase = "running"
    /\ Observe(OnToolEnd(acc, result, error))
    /\ ran' = [ran EXCEPT !.phase = "ended", !.result = result, !.error = error]
    /\ UNCHANGED said

\* settle: what the splitter still holds goes out before the turn's last record.
FinishTurn ==
    LET a == Finish(acc) IN
    /\ events <= MaxEvents /\ ran.phase # "running" /\ events' = MaxEvents + 1
    /\ acc' = [a EXCEPT !.out = <<>>]
    /\ view' = IF Watching THEN FoldLeft(Apply, view, a.out) ELSE view
    /\ UNCHANGED <<thinkTags, said, ran>>

Watch ==
    /\ ~Watching /\ events <= MaxEvents /\ view' = Partial(acc)
    /\ UNCHANGED <<thinkTags, acc, said, ran, events>>
Unwatch == Watching /\ view' = NoView /\ UNCHANGED <<thinkTags, acc, said, ran, events>>

LiveNext ==
    \/ TextDelta \/ ThinkingDelta \/ ThinkingEnd \/ NextBlock \/ MessageStart
    \/ ToolStart \/ ToolUpdate \/ ToolEnd \/ FinishTurn \/ Watch \/ Unwatch

-----------------------------------------------------------------------------
(* What the turn should show: the tags read from the whole text of a block. *)

DropNewline(s) == IF s # <<>> /\ Head(s) = "n" THEN Tail(s) ELSE s

\* ReadText `s` from inside a tag pair or outside it; `trim` says that nothing
\* was thought inside it yet, so leading white space does not count.
RECURSIVE ReadText(_, _, _)
ReadText(s, inside, trim) ==
    LET i == Find(s, IF inside THEN Close ELSE Open)
        part == IF i = 0 THEN s ELSE SubSeq(s, 1, i - 1)
        thought == IF trim THEN TrimLeft(TrimRight(part)) ELSE TrimRight(part)
        rest == SeqFrom(s, i + 2)
        r == IF inside THEN ReadText(DropNewline(rest), FALSE, FALSE) ELSE ReadText(rest, TRUE, TRUE)
        here == [text |-> IF inside THEN <<>> ELSE part, thinking |-> IF inside THEN thought ELSE <<>>]
    IN  IF i = 0 THEN [here EXCEPT !.text = @] @@ [inside |-> inside, trim |-> trim /\ thought = <<>>]
        ELSE [r EXCEPT !.text = here.text \o @, !.thinking = here.thinking \o @]

\* A tag left open in one block is still open in the next.
RECURSIVE Shown(_, _, _)
Shown(blocks, inside, trim) ==
    IF blocks = <<>> THEN <<>>
    ELSE LET b == Head(blocks)
             r == ReadText(b.tagged, inside, trim)
             left == IF b.tagged = <<>> THEN [inside |-> inside, trim |-> trim]
                     ELSE [inside |-> r.inside, trim |-> r.trim]
         IN  <<[text |-> (IF b.tagged = <<>> THEN <<>> ELSE r.text) \o b.raw,
                thinking |-> (IF b.tagged = <<>> THEN <<>> ELSE r.thinking) \o b.native]>>
             \o Shown(Tail(blocks), left.inside, left.trim)

Told(field) ==
    LET s == Shown(said, FALSE, FALSE)
    IN  SelectSeq([i \in DOMAIN s |-> s[i][field]], LAMBDA t : t # <<>>)

InOrder(blocks, kind) ==
    LET of == SelectSeq(blocks, LAMBDA b : b.kind = kind)
    IN  [i \in DOMAIN of |-> SortSeq(of, LAMBDA x, y : x.at < y.at)[i].body]

\* Every symbol the provider sent is shown once, in its own block and as text
\* or as thinking as the tags say, however it was cut into deltas; and a tool's
\* card shows the end of what the tool printed last, and its result.
TurnIsWhole ==
    LET f == Finish(acc)
        i == BlockAt(f.blocks, "tool", 0)
    IN  /\ InOrder(f.blocks, "text") = Told("text")
        /\ InOrder(f.blocks, "thinking") = Told("thinking")
        /\ i # 0 =>
            /\ f.blocks[i].body = LastOf(ran.last, OutputCap)
            /\ f.blocks[i].done = (ran.phase \in {"ended", "over"})
            /\ f.blocks[i].result = SubSeq(ran.result, 1, Min({Len(ran.result), ResultCap}))
            /\ f.blocks[i].cut = (Len(ran.last) > OutputCap \/ Len(ran.result) > ResultCap)

\* A dashboard shows the blocks the daemon holds, from whichever snapshot it
\* started; the end of thinking alone it may learn later (liveBlocks.ts:190).
ViewFollows ==
    Watching =>
        /\ view.seq = acc.seq /\ view.dropped = 0 /\ Len(view.blocks) = Len(acc.blocks)
        /\ \A i \in DOMAIN view.blocks :
            LET mine == view.blocks[i]
                j == BlockAt(acc.blocks, mine.kind, mine.at)
            IN  /\ j # 0 /\ [acc.blocks[j] EXCEPT !.done = mine.done] = mine
                /\ mine.done => acc.blocks[j].done

LiveTypeOK ==
    /\ thinkTags \in {"auto", "on", "off"} /\ events \in 0 .. MaxEvents + 1
    /\ ran.phase \in {"none", "running", "ended", "over"}
    /\ acc.seq \in Nat /\ view.seq \in Nat \cup {-1} /\ Len(said) >= 1
=============================================================================
