----------------------------- MODULE ReplyBlocks -----------------------------
(***************************************************************************)
(* The text of a reply.  The web client renders it while it grows: it is   *)
(* cut into blocks, and a block that is complete should not change any     *)
(* more, or it is rendered again (splitMarkdownBlocks).  The terminal      *)
(* client renders it once, when it is final, from the blocks that it can   *)
(* show as such; the others stay as they were written                      *)
(* (parseFinalizedBlocks).                                                 *)
(*                                                                         *)
(* In a growing text a symbol is a character or one of the marks "~~~" and *)
(* "]:"; a final text consists of lines, each of a kind.                   *)
(***************************************************************************)
EXTENDS EventBudget, Sequences, SequencesExt

CONSTANTS
    Openings,   \* what growing texts begin with
    Symbols,    \* what is appended to them
    FinalLines   \* the kinds of lines of a final text

ASSUME ReplyAssumption == Openings \subseteq Seq(Symbols)

VARIABLES
    text,       \* the growing text
    lines       \* the final text

replyVars == <<text, lines>>

----------------------------------------------------------------------------
(* splitMarkdownBlocks. *)

\* The lines of s, each with its newline.
AddSymbol(acc, c) ==
    IF acc # <<>> /\ Last(Last(acc)) # "nl" THEN Append(Front(acc), Append(Last(acc), c))
    ELSE Append(acc, <<c>>)
RawLines(s) ==
    LET raw[n \in 0 .. Len(s)] == IF n = 0 THEN <<>> ELSE AddSymbol(raw[n - 1], s[n])
    IN  raw[Len(s)]

Bare(line) == IF line # <<>> /\ Last(line) = "nl" THEN Front(line) ELSE line
IsBlank(line) == Range(Bare(line)) \subseteq {"_"}

\* How often c is repeated from position i of s on.
Run(s, i, c) == Cardinality({k \in i .. Len(s) : \A j \in i .. k : s[j] = c})

\* MUTANT: a marker counts once its space is there.
MarksBefore(line, n) == n > 0 /\ Len(line) > n /\ line[n + 1] = "_"
\* A marker, then a space or the end.
Marks(line, n) == n > 0 /\ (Len(line) = n \/ line[n + 1] = "_")
Digits(line) == Run(line, 1, "1")
OrderedItem(line) == Digits(line) > 0 /\ Len(line) > Digits(line) /\ line[Digits(line) + 1] = "."
                     /\ Marks(line, Digits(line) + 1)
BulletItem(line) == line # <<>> /\ line[1] = "-" /\ Marks(line, 1)
StartsNewBlock(raw) ==
    LET line == Bare(raw) IN line[1] # "_" /\ ~BulletItem(line) /\ ~OrderedItem(line)

\* The length of the marker of a fence, 0 for none.
FenceOpen(raw) ==
    LET spaces == Run(raw, 1, "_") IN IF spaces > 3 THEN 0 ELSE Run(raw, spaces + 1, "~~~")
ClosesFence(raw, marker) ==
    LET rest == Run(raw, 1, "_") + FenceOpen(raw)
    IN  FenceOpen(raw) >= marker /\ \A i \in rest + 1 .. Len(Bare(raw)) : raw[i] = "_"

\* One line of the loop: a block ends before a line that begins one after a blank line.
AddRaw(acc, raw) ==
    LET into(a) == [a EXCEPT !.blocks[Len(a.blocks)] = @ \o raw]
        flush == [acc EXCEPT !.blank = FALSE, !.blocks =
                    IF acc.blank /\ StartsNewBlock(raw) THEN Append(@, <<>>) ELSE @]
    IN  IF acc.fence > 0 THEN [into(acc) EXCEPT !.fence = IF ClosesFence(raw, @) THEN 0 ELSE @]
        ELSE IF IsBlank(raw) THEN [into(acc) EXCEPT !.blank = TRUE]
        ELSE [into(flush) EXCEPT !.fence = FenceOpen(raw)]

\* The loop.
Joined(raws) ==
    LET joined[n \in 0 .. Len(raws)] ==
            IF n = 0 THEN [blocks |-> <<<<>>>>, fence |-> 0, blank |-> FALSE]
            ELSE AddRaw(joined[n - 1], raws[n])
    IN  joined[Len(raws)]

Possible_reference(s) == "]:" \in Range(s)
SplitMarkdownBlocks(s) ==
    IF s = <<>> THEN <<>>
    ELSE IF Possible_reference(s) THEN <<s>>
    ELSE Joined(RawLines(s)).blocks

----------------------------------------------------------------------------
(* parseFinalizedBlocks. *)

Fences == {"fence", "lang", "draft"}            \* they begin with a fence
Headings == {"heading", "hash"}                 \* and one that is none
Indents == [item0 |-> 0, item1 |-> 1, item2 |-> 2, item4 |-> 4, item6 |-> 6, dash |-> 0]
Items == DOMAIN Indents \union {"tabbed", "odd_item"}
Rules == {"rule", "dash"}                       \* TABLE_DELIMITER
Pipes == {"pipe", "rule", "dash"}
Odd == {"odd_text", "odd_item", "rule", "pipe"} \* what is not supported inline, or in a paragraph

StartsNew(l) == l = "blank" \/ l \in Fences \union Headings \union Items

\* The length of the longest prefix of ls whose lines are all of the given kinds.
While(ls, kinds) == Cardinality({k \in DOMAIN ls : \A j \in 1 .. k : ls[j] \in kinds})

\* parseFence: up to the first closing line, or to the end.
Closers(ls) == {k \in 2 .. Len(ls) : ls[k] = "fence"}
FenceLength(ls) == IF Closers(ls) = {} THEN Len(ls) ELSE CHOOSE k \in Closers(ls) : \A j \in Closers(ls) : k <= j
ParseFence(ls) ==
    IF Closers(ls) = {} \/ ls[1] = "draft" \/ \E k \in 2 .. Len(ls) - 1 : ls[k] \in Fences
    THEN [kind |-> "literal", lines |-> ls]
    ELSE [kind |-> "code", lines |-> SubSeq(ls, 2, Len(ls) - 1), opener |-> ls[1]]

\* MUTANT: the columns that an item leaves are kept.
AddItemDeeper(acc, l) ==
    IF ~acc.ok \/ l \notin DOMAIN Indents THEN [acc EXCEPT !.ok = FALSE]
    ELSE [acc EXCEPT !.columns = Append(@, Indents[l]), !.depths = Append(@, Len(acc.columns))]
\* parseListRun: the columns of the items a line is nested in, and the depth of each so far.
AddItem(acc, l) ==
    LET c == acc.columns
        to == {i \in DOMAIN c : c[i] = Indents[l]}
    IN  IF ~acc.ok \/ l \notin DOMAIN Indents THEN [acc EXCEPT !.ok = FALSE]
        ELSE LET now == IF c = <<>> \/ Indents[l] > Last(c) THEN Append(c, Indents[l])
                        ELSE IF to = {} THEN <<>> ELSE SubSeq(c, 1, CHOOSE i \in to : TRUE)
             IN  IF Len(now) \in 1 .. 3 THEN [acc EXCEPT !.columns = now, !.depths = Append(@, Len(now) - 1)]
                 ELSE [acc EXCEPT !.ok = FALSE]
ParseListRun(ls) ==
    LET item[n \in 0 .. Len(ls)] == IF n = 0 THEN [ok |-> TRUE, columns |-> <<>>, depths |-> <<>>]
                                    ELSE AddItem(item[n - 1], ls[n])
        run == item[Len(ls)]
    IN  IF run.ok THEN [kind |-> "list", lines |-> ls, depths |-> run.depths]
        ELSE [kind |-> "literal", lines |-> ls]

Plain(kind, ls) == [kind |-> IF Range(ls) \cap (Odd \union {"hash"}) = {} THEN kind ELSE "literal", lines |-> ls]

\* How many of the lines the next block takes.
Extent(ls) ==
    LET l == ls[1] IN
    CASE l = "blank" \/ l \in Headings -> 1
      [] l \in Fences -> FenceLength(ls)
      [] l \in Items -> IF l \in Rules THEN 1 ELSE While(ls, Items)
      [] l \in Pipes \ Items /\ Len(ls) > 1 /\ ls[2] \in Rules ->
            2 + While(SubSeq(ls, 3, Len(ls)), Pipes)
      [] OTHER -> 1 + While(Tail(ls), {k \in FinalLines : ~StartsNew(k)})

Block(ls) ==
    LET l == ls[1] IN
    CASE l = "blank" -> [kind |-> "blank", lines |-> ls]
      [] l \in Fences -> ParseFence(ls)
      [] l \in Headings -> Plain("heading", ls)
      [] l \in Items -> IF l \in Rules THEN [kind |-> "literal", lines |-> ls] ELSE ParseListRun(ls)
      [] OTHER -> Plain("paragraph", ls)

\* One turn of the loop, as long as there are lines.
TakeBlock(a) ==
    IF a.rest = <<>> THEN a
    ELSE [blocks |-> Append(a.blocks, Block(SubSeq(a.rest, 1, Extent(a.rest)))),
          rest |-> SubSeq(a.rest, Extent(a.rest) + 1, Len(a.rest))]
ParseFinalizedBlocks(ls) ==
    LET taken[n \in 0 .. Len(ls)] == IF n = 0 THEN [blocks |-> <<>>, rest |-> ls] ELSE TakeBlock(taken[n - 1])
    IN  taken[Len(ls)].blocks

----------------------------------------------------------------------------
(* What is drawn. *)

\* MarkdownBody: a block has its index for its key, and is rendered anew only when it changed.
MarkdownBody(old, new) ==
    {i \in DOMAIN new : i \notin DOMAIN old \/ new[i] # old[i]}

\* FinalizedText: a list has three kinds of bullets, and the marks of a code block are not drawn.
Bullets == <<"first", "second", "third">>
Drawn(b) ==
    CASE b.kind = "code" -> (IF b.opener = "lang" THEN <<"language">> ELSE <<>>)
                            \o (IF b.lines = <<>> THEN <<"blank">> ELSE b.lines)
      [] b.kind = "list" -> [k \in DOMAIN b.lines |->
                              IF b.depths[k] + 1 \in DOMAIN Bullets THEN b.lines[k] ELSE "no bullet"]
      [] OTHER -> b.lines

----------------------------------------------------------------------------
(* The texts. *)

ReplyInit == text \in Openings /\ lines = <<>>

TextGrows ==
    /\ Left("symbols") /\ Spend("symbols")
    /\ \E c \in Symbols : text' = Append(text, c)
    /\ UNCHANGED lines

LineIsAdded ==
    /\ Left("lines") /\ Spend("lines")
    /\ \E l \in FinalLines : lines' = Append(lines, l)
    /\ UNCHANGED text

ReplyNext == TextGrows \/ LineIsAdded

----------------------------------------------------------------------------
(* Properties. *)

\* A block that was complete stays as it was while the text grows, but for two cases: the text
\* turns out to define a reference, or its last line to be an item of a list, which the
\* block before goes on with.
BlocksStand ==
    [][\/ text = <<>> \/ Possible_reference(text') \/ OrderedItem(Bare(Last(RawLines(text'))))
       \/ LET old == SplitMarkdownBlocks(text)
              new == SplitMarkdownBlocks(text')
          IN  Len(new) >= Len(old) /\ \A i \in MarkdownBody(old, new) : i >= Len(old)]_text

\* Nothing that was written gets lost or moves: the blocks of the web client are the text, and
\* those of the terminal client all its lines, each of them drawn but for the marks of code; a
\* list is never deeper than the three levels that have a bullet, nor by more than one level
\* at a time.
Marks_of == Fences \union {"language", "blank"}
Said(ls) == FlattenSeq([k \in DOMAIN ls |-> IF ls[k] \in Marks_of THEN <<>> ELSE <<ls[k]>>])
Source(b) == IF b.kind = "code" THEN <<b.opener>> \o b.lines \o <<"fence">> ELSE b.lines
NothingIsLost ==
    /\ FlattenSeq(SplitMarkdownBlocks(text)) = text
    /\ LET blocks == ParseFinalizedBlocks(lines) IN
        /\ FlattenSeq([i \in DOMAIN blocks |-> Source(blocks[i])]) = lines
        /\ Said(FlattenSeq([i \in DOMAIN blocks |-> Drawn(blocks[i])])) = Said(lines)
        /\ \A i \in DOMAIN blocks : blocks[i].kind = "list" =>
            LET d == blocks[i].depths IN
            Len(d) = Len(blocks[i].lines) /\ d[1] = 0 /\ \A k \in 2 .. Len(d) : d[k] <= d[k - 1] + 1
=============================================================================
