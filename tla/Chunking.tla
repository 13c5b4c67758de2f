----------------------------- MODULE Chunking ------------------------------
(***************************************************************************)
(* The four chunkers: one iteration of their loops is one step.  What they *)
(* return is what index_document_version makes rows of (Ingestion takes    *)
(* the parents of these candidates as its constant Candidates).  Indexing  *)
(* runs them on what the parsers return.                                   *)
(*                                                                         *)
(* A text is the sequence of its words, and a word its place in the        *)
(* document.  encode cuts a text into runs of non-blanks and of blanks, so *)
(* the count of tokens of a text that begins and ends with a word depends  *)
(* on its number of words alone, whichever separator joins them.           *)
(***************************************************************************)
EXTENDS Places, Sequences, SequencesExt

CONSTANT
    Configs         \* chunking configurations: [size, overlap, min]

Strategies == {"fixed", "recursive", "structural", "semantic"}

ASSUME ConfigsAreValid ==
    \A c \in Configs : c.size \in Nat \ {0} /\ c.overlap \in Nat /\ c.min \in Nat

VARIABLES
    doc,        \* the parsed document: its elements, [sentences, heading]
    strategy, config,
    loop,       \* "idle", the loop that runs, or "done" after the last one
    rest,       \* structural: elements of the sections to come
    parent,     \* structural: position of the parent chunk of this section
    todo,       \* elements (semantic: sentences) the loop has yet to take
    buffer,     \* elements (semantic: sentences) gathered for the next chunk
    windows,    \* fixed: the token windows [from, to) so far
    out         \* the candidates: [index, text, heading, parent, whole]

chunkerVars == <<doc, strategy, config, loop, rest, parent, todo, buffer, windows, out>>

----------------------------------------------------------------------------
(* Texts *)

Tokens(text) == IF text = <<>> THEN 0 ELSE 2 * Len(text) - 1

Element(d, i) ==
    [heading |-> d[i].heading,
     sentences |-> [k \in DOMAIN d[i].sizes |->
                        [w \in 1 .. d[i].sizes[k] |-> <<i, k, w>>]]]

Text(e) == FlattenSeq(e.sentences)

\* The texts of several elements, joined by blank lines.
Joined(es) == FlattenSeq([k \in DOMAIN es |-> Text(es[k])])

\* buffer_tokens: the elements' own tokens, the separators not counted.
Weight(es) == SumFunction([k \in DOMAIN es |-> Tokens(Text(es[k]))])

\* The pieces so far, with the text that has not become one.
Closed(acc) == IF acc.text = <<>> THEN acc.pieces ELSE Append(acc.pieces, acc.text)

\* One more part: it is added to the text if both fit; a part that does not fit
\* by itself is cut, and its pieces are not merged with others.
Take(acc, part, cut, max) ==
    IF Tokens(acc.text \o part) <= max THEN [acc EXCEPT !.text = @ \o part]
    ELSE IF Tokens(part) <= max THEN [pieces |-> Closed(acc), text |-> part]
    ELSE [pieces |-> Closed(acc) \o cut, text |-> <<>>]

\* Parts put together again as far as they fit, cuts[k] being part k cut.
Packed(parts, cuts, max) ==
    LET packed[n \in 0 .. Len(parts)] ==
            IF n = 0 THEN [pieces |-> <<>>, text |-> <<>>]
            ELSE Take(packed[n - 1], parts[n], cuts[n], max)
    IN  Closed(packed[Len(parts)])

\* A single word is one token, fits, and is never cut: blanks between words are
\* taken to be spaces, so that the cut by token windows, which follows the last
\* separator, is never needed.
Words(text, max) ==
    LET words == [k \in DOMAIN text |-> <<text[k]>>]
    IN  Packed(words, [k \in DOMAIN text |-> <<words[k]>>], max)

\* recursive_split_text of an element: by sentences, then by words.  Blank lines
\* and line ends, its two coarser separators, cut in the same way as a sentence's
\* end does.
Pieces(e, max) ==
    Packed(e.sentences, [k \in DOMAIN e.sentences |-> Words(e.sentences[k], max)], max)

----------------------------------------------------------------------------

\* A candidate at the end of the list; order_index is its position there.
Candidate(text, heading, par, whole) ==
    [index |-> Len(out), text |-> text, heading |-> heading,
     parent |-> par, whole |-> whole]

Idle ==
    /\ doc = <<>>
    /\ strategy = "none"
    /\ config = <<>>
    /\ loop = "idle"
    /\ rest = <<>>
    /\ parent = 0
    /\ todo = <<>>
    /\ buffer = <<>>
    /\ windows = <<>>
    /\ out = <<>>

\* The sentences of a document, each as an element of its own.
Sentences(d) ==
    FlattenSeq([i \in DOMAIN d |->
        [k \in DOMAIN d[i].sentences |->
            [sentences |-> <<d[i].sentences[k]>>, heading |-> d[i].heading]]])

\* chunk() of the chunker that get_chunker returns is called on the document
\* with elements d, given as [sizes, heading]; sizes are the numbers of words
\* of an element's sentences.
Begin(d) ==
    /\ loop = "idle"
    /\ config' \in Configs
    /\ \E s \in Strategies :
          LET parsed == [i \in DOMAIN d |-> Element(d, i)]
          IN  /\ doc' = parsed
              /\ strategy' = s
              /\ loop' = IF d = <<>> THEN "done" ELSE s
              /\ rest' = IF s = "structural" THEN parsed ELSE <<>>
              /\ todo' = CASE s = "recursive" -> parsed
                           [] s = "semantic" -> Sentences(parsed)
                           [] OTHER -> <<>>
    /\ UNCHANGED <<parent, buffer, windows, out>>

----------------------------------------------------------------------------
(* FixedSizeChunker: the document is one stream of tokens, of which the    *)
(* even ones (from 0) are words.                                           *)

Total == Tokens(Joined(doc))

Greater(a, b) == IF a > b THEN a ELSE b

\* Mutant: the windows leave the overlap out instead of repeating it.
StepWithGap == config.size + config.overlap

Step == Greater(config.size - config.overlap, 1)

SlideWindow ==
    /\ loop = "fixed"
    /\ IF windows = <<>> THEN TRUE ELSE windows[Len(windows)][2] < Total
    /\ LET from == Len(windows) * Step
           to == IF from + config.size < Total THEN from + config.size ELSE Total
       IN  windows' = Append(windows, <<from, to>>)
    /\ UNCHANGED <<doc, strategy, config, loop, rest, parent, todo, buffer, out>>

\* A last window that is too small joins the one before it.
Merged(ws) ==
    LET n == Len(ws)
    IN  IF n > 1 /\ ws[n][2] - ws[n][1] < config.min
        THEN Append(SubSeq(ws, 1, n - 2), <<ws[n - 1][1], ws[n][2]>>)
        ELSE ws

\* The text of a window, blanks at its ends stripped.
WindowText(w) == SubSeq(Joined(doc), ((w[1] + 1) \div 2) + 1, (w[2] + 1) \div 2)

\* element_at: the last element that begins at or before this token.
ElementAt(t) ==
    CHOOSE i \in DOMAIN doc :
        LET start(k) == 2 * Len(Joined(SubSeq(doc, 1, k - 1)))
        IN  start(i) <= t /\ \A k \in DOMAIN doc : k > i => start(k) > t

EmitWindows ==
    /\ loop = "fixed"
    /\ windows # <<>>
    /\ windows[Len(windows)][2] = Total
    /\ LET ws == Merged(windows)
           all == [k \in DOMAIN ws |->
                     [index |-> k - 1, text |-> WindowText(ws[k]),
                      heading |-> doc[ElementAt(ws[k][1])].heading,
                      parent |-> 0, whole |-> FALSE]]
       IN  out' = At(all, {k \in DOMAIN ws : all[k].text # <<>>})
    /\ loop' = "done"
    /\ UNCHANGED <<doc, strategy, config, rest, parent, todo, buffer, windows>>

----------------------------------------------------------------------------
(* RecursiveChunker, over the document or over a section of it *)

\* The end of the buffer that is carried into the next chunk.
\* Mutant: all of it.
OverlapWhole(es) == es

Overlap(es) ==
    LET fits(n) == Weight(SubSeq(es, Len(es) - n + 1, Len(es))) <= config.overlap
        n == CHOOSE n \in 0 .. Len(es) :
                /\ fits(n)
                /\ \A m \in n + 1 .. Len(es) : ~ fits(m)
    IN  SubSeq(es, Len(es) - n + 1, Len(es))

\* Mutant: a chunk has the heading it ends under.
FlushedUnderLast ==
    IF buffer = <<>> THEN out
    ELSE Append(out, Candidate(Joined(buffer), buffer[Len(buffer)].heading, parent, FALSE))

\* What flush appends, if the buffer holds anything.
Flushed ==
    IF buffer = <<>> THEN out
    ELSE Append(out, Candidate(Joined(buffer), Head(buffer).heading, parent, FALSE))

Oversized(e) == Tokens(Text(e)) > config.size

SplitElement ==
    /\ loop = "recursive"
    /\ todo # <<>>
    /\ Oversized(Head(todo))
    /\ LET e == Head(todo)
           pieces == Pieces(e, config.size)
       IN  out' = Flushed \o [k \in DOMAIN pieces |->
                    [index |-> Len(Flushed) + k - 1, text |-> pieces[k],
                     heading |-> e.heading, parent |-> parent, whole |-> FALSE]]
    /\ buffer' = Overlap(buffer)
    /\ todo' = Tail(todo)
    /\ UNCHANGED <<doc, strategy, config, loop, rest, parent, windows>>

BufferElement ==
    /\ loop = "recursive"
    /\ todo # <<>>
    /\ ~ Oversized(Head(todo))
    /\ IF Weight(buffer) + Weight(<<Head(todo)>>) > config.size
       THEN /\ out' = Flushed
            /\ buffer' = Append(Overlap(buffer), Head(todo))
       ELSE /\ out' = out
            /\ buffer' = Append(buffer, Head(todo))
    /\ todo' = Tail(todo)
    /\ UNCHANGED <<doc, strategy, config, loop, rest, parent, windows>>

\* Mutant: the buffer belongs to the chunker, not to the call.
FinishElementsKeepingBuffer ==
    /\ loop = "recursive"
    /\ todo = <<>>
    /\ out' = Flushed
    /\ buffer' = Overlap(buffer)
    /\ loop' = IF strategy = "structural" THEN "structural" ELSE "done"
    /\ UNCHANGED <<doc, strategy, config, rest, parent, todo, windows>>

FinishElements ==
    /\ loop = "recursive"
    /\ todo = <<>>
    /\ out' = Flushed
    /\ buffer' = <<>>
    /\ loop' = IF strategy = "structural" THEN "structural" ELSE "done"
    /\ UNCHANGED <<doc, strategy, config, rest, parent, todo, windows>>

----------------------------------------------------------------------------
(* StructuralChunker *)

\* The length of the first run of elements under one heading.
SectionLength(es) ==
    CHOOSE n \in 1 .. Len(es) :
        /\ \A k \in 1 .. n : es[k].heading = es[1].heading
        /\ n < Len(es) => es[n + 1].heading # es[1].heading

NextSection ==
    /\ loop = "structural"
    /\ rest # <<>>
    /\ LET n == SectionLength(rest)
           section == SubSeq(rest, 1, n)
           large == Tokens(Joined(section)) > config.size
       IN  /\ out' = Append(out, Candidate(Joined(section), section[1].heading, 0, large))
           /\ IF large
              THEN loop' = "recursive" /\ todo' = section /\ parent' = Len(out) + 1
              ELSE UNCHANGED <<loop, todo, parent>>
           /\ rest' = SubSeq(rest, n + 1, Len(rest))
    /\ UNCHANGED <<doc, strategy, config, buffer, windows>>

FinishSections ==
    /\ loop = "structural"
    /\ rest = <<>>
    /\ loop' = "done"
    /\ UNCHANGED <<doc, strategy, config, rest, parent, todo, buffer, windows, out>>

----------------------------------------------------------------------------
(* SemanticChunker: whether the next sentence is similar enough to the one *)
(* before it is the embedding's choice.                                    *)

TakeSentence ==
    /\ loop = "semantic"
    /\ todo # <<>>
    /\ \E similar \in BOOLEAN :
          IF buffer = <<>> \/ (/\ similar
                               /\ Tokens(Joined(Append(buffer, Head(todo)))) <= config.size)
          THEN /\ out' = out
               /\ buffer' = Append(buffer, Head(todo))
          ELSE /\ out' = Flushed
               /\ buffer' = <<Head(todo)>>
    /\ todo' = Tail(todo)
    /\ UNCHANGED <<doc, strategy, config, loop, rest, parent, windows>>

FinishSentences ==
    /\ loop = "semantic"
    /\ todo = <<>>
    /\ out' = Flushed
    /\ buffer' = <<>>
    /\ loop' = "done"
    /\ UNCHANGED <<doc, strategy, config, rest, parent, todo, windows>>

----------------------------------------------------------------------------

ChunkStep ==
    \/ SlideWindow \/ EmitWindows
    \/ SplitElement \/ BufferElement \/ FinishElements
    \/ NextSection \/ FinishSections
    \/ TakeSentence \/ FinishSentences

----------------------------------------------------------------------------
(* Properties *)

WordsIn(text) == {text[k] : k \in DOMAIN text}

\* w comes before x in the document.
Before(w, x) ==
    \/ w[1] < x[1]
    \/ w[1] = x[1] /\ w[2] < x[2]
    \/ w[1] = x[1] /\ w[2] = x[2] /\ w[3] < x[3]

\* Cutting, packing, overlap and the merge of the last window leave a chunk's
\* words in the order of the document.
TextInOrder ==
    \A k \in DOMAIN out : \A a, b \in DOMAIN out[k].text :
        a < b => Before(out[k].text[a], out[k].text[b])

\* What index_document_version and its tables rely on: no two candidates have
\* the same chunk_index, a parent comes before its children, is nobody's child
\* and covers their text, and a structural chunk has the text of one heading.
CandidatesWellFormed ==
    /\ \A k, l \in DOMAIN out : k # l => out[k].index # out[l].index
    /\ \A k \in DOMAIN out : LET p == out[k].parent IN
         p # 0 => /\ p < k
                  /\ out[p].whole /\ out[p].parent = 0
                  /\ WordsIn(out[k].text) \subseteq WordsIn(out[p].text)
    /\ strategy = "structural" =>
         \A k \in DOMAIN out : \A w \in WordsIn(out[k].text) :
            doc[w[1]].heading = out[k].heading

\* What RecursiveChunker says of its chunks: "guaranteeing every chunk fits the
\* configured budget".  Violated: the separators a buffer is joined with are
\* not counted, nor is the overlap it starts with.
ChunksFitBudget ==
    strategy = "recursive" =>
        \A k \in DOMAIN out : Tokens(out[k].text) <= config.size

\* How far above its budget a chunk gets, which is not what is promised of it.
\* The separators a buffer is joined with and the overlap it starts with come
\* on top, a merged last window may exceed the budget by min, and a sentence is
\* never cut by SemanticChunker.
ChunkExcessBounded ==
    \A k \in DOMAIN out : ~ out[k].whole =>
        LET n == Tokens(out[k].text)
        IN  /\ strategy = "fixed" => n <= config.size + config.min
            /\ strategy = "semantic" =>
                 \/ n <= config.size
                 \/ \E i \in DOMAIN doc : \E s \in DOMAIN doc[i].sentences :
                       out[k].text = doc[i].sentences[s]
            /\ strategy \in {"recursive", "structural"} =>
                 n < 2 * (config.size + config.overlap)

============================================================================
