------------------------------ MODULE Indexing ------------------------------
(***************************************************************************)
(* What POST /documents/{id}/ingest does between loading a file and        *)
(* embedding its chunks: the parser of its type makes elements of it, the  *)
(* chunker of the request's strategy makes candidates of those.            *)
(***************************************************************************)
EXTENDS Chunking

CONSTANTS Files, MaxUploadSize

VARIABLES file, phase, page, at, heading, elements

Parser == INSTANCE Parsing

ASSUME FilesAssumption == Parser!FilesAreFiles

parserVars == <<file, phase, page, at, heading, elements>>

IndexInit == Parser!Init /\ Idle

Parse == Parser!Next /\ UNCHANGED chunkerVars

\* text_elements are all of the elements, none is blank.
Chunk ==
    /\ phase = "parsed"
    /\ Begin(elements)
    /\ UNCHANGED parserVars

IndexNext == Parse \/ Chunk \/ (ChunkStep /\ UNCHANGED parserVars)

IndexSpec == IndexInit /\ [][IndexNext]_<<chunkerVars, parserVars>>

----------------------------------------------------------------------------
(* Properties *)

\* Whatever the format and the strategy, every block that the parser is meant
\* to keep has all of its words in chunks that are searched, and chunks have
\* their words in the order of the elements.
TextSurvives ==
    /\ loop = "done" =>
         \A p \in DOMAIN file.pages : \A k \in DOMAIN file.pages[p] :
            Parser!Kept(p, k) =>
                \E i \in DOMAIN elements :
                    /\ elements[i].page = p /\ elements[i].at = k
                    /\ \A s \in DOMAIN elements[i].sizes :
                         \A w \in 1 .. elements[i].sizes[s] :
                            \E c \in DOMAIN out :
                                /\ ~ out[c].whole
                                /\ <<i, s, w>> \in WordsIn(out[c].text)
    /\ TextInOrder

\* The heading stored with a chunk, which answers are cited under, is the one
\* that the element has where the chunk's text begins: the nearest in the file,
\* or for a PDF's table the last one of the pages before.  A fixed window may
\* begin with the blank before that and then has the heading of the text that
\* ends there.
ChunkHeadingsInForce ==
    \A c \in DOMAIN out :
        LET first == out[c].text[1][1]
        IN  \/ Parser!InForce(elements[first], out[c].heading)
            \/ /\ strategy = "fixed"
               /\ first > 1 /\ out[c].text[1] = <<first, 1, 1>>
               /\ Parser!InForce(elements[first - 1], out[c].heading)

\* Of the parser alone: an element is a block that is to be kept, under the
\* heading nearest to it unless it is a table of a PDF (see Parsing).
HeadingsInForce == Parser!HeadingsInForce

\* What DocumentElement says of every element.
HeadingsAreNearest == Parser!HeadingsAreNearest

=============================================================================
