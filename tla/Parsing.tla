------------------------------ MODULE Parsing -------------------------------
(***************************************************************************)
(* From an uploaded file to the elements the chunkers work on:             *)
(* validate_upload and the seven parsers, whose loops walk the blocks a    *)
(* library finds in the file and carry the heading in force along.         *)
(*                                                                         *)
(* A block is a line of the file in reading order, as the library tells    *)
(* it:                                                                     *)
(*   heading   a heading; in a PDF, a block that passes for one by its font*)
(*   text      a paragraph, list item, code fence, caption, row or record  *)
(*   table     a table                                                     *)
(*   other     what the parser has no branch for: indented code or HTML in *)
(*             Markdown, text outside of block tags in HTML, images        *)
(* An HTML block inside another one follows it, as in find_all.  A fence   *)
(* with only blanks in it, an element without words in Markdown, is not    *)
(* among the blocks.                                                       *)
(***************************************************************************)
EXTENDS Integers, Sequences

CONSTANTS
    Files,          \* what may be uploaded: [extension, size, signature, pages]
    MaxUploadSize   \* max_upload_size_bytes

Kinds == {"heading", "text", "table", "other"}

\* No heading, in the type of headings: None in the code.
NoHeading == ""

TypeOf == [e \in {"pdf", "docx", "txt", "md", "markdown", "html", "htm", "csv", "json"} |->
             CASE e \in {"md", "markdown"} -> "markdown"
               [] e \in {"html", "htm"} -> "html"
               [] OTHER -> e]

\* sizes are the numbers of words of the block's sentences once cleaned, none
\* if nothing is left; covered says that it meets the box of a table.
Blocks == [kind : Kinds, sizes : Seq(Nat \ {0}), title : STRING, covered : BOOLEAN]

\* What a library can make of a file; Indexing assumes it.
FilesAreFiles ==
    \A f \in Files :
        /\ f.size \in Nat
        /\ f.pages \in Seq(Seq(Blocks))
        /\ \A p \in DOMAIN f.pages : \A k \in DOMAIN f.pages[p] :
             LET b == f.pages[p][k]
             IN  /\ b.kind = "heading" => b.title # NoHeading
                 /\ b.kind = "heading" => f.extension \notin {"txt", "csv", "json"}
                 /\ b.kind = "table" => f.extension \in {"pdf", "docx", "html", "htm"}
                 /\ b.covered => f.extension = "pdf"

VARIABLES
    file,       \* the upload
    phase,      \* "upload", "tables", "blocks", "parsed" or "refused"
    page,       \* the page the loop is at
    at,         \* the block it takes next
    heading,    \* current_heading
    elements    \* the elements so far: [page, at, sizes, heading]

vars == <<file, phase, page, at, heading, elements>>

IsPdf == file.extension = "pdf"

\* The first pass over a page: PdfParser looks for its tables beforehand.
FirstPass == IF IsPdf THEN "tables" ELSE "blocks"

Init ==
    /\ file \in Files
    /\ phase = "upload"
    /\ page = 1
    /\ at = 1
    /\ heading = NoHeading
    /\ elements = <<>>

\* detect_document_type, the size limits and the signatures of the two
\* binary formats; "zip" is that of DOCX and of other archives.
Valid(f) ==
    /\ f.extension \in DOMAIN TypeOf
    /\ f.size \in 1 .. MaxUploadSize
    /\ f.extension = "pdf" => f.signature = "pdf"
    /\ f.extension = "docx" => f.signature = "zip"

\* The library opens the file, too.
Accept ==
    /\ phase = "upload"
    /\ Valid(file)
    /\ phase' = FirstPass
    /\ UNCHANGED <<file, page, at, heading, elements>>

\* validate_upload refuses the file, or the parser cannot make sense of it.
Refuse ==
    /\ phase = "upload"
    /\ phase' = "refused"
    /\ UNCHANGED <<file, page, at, heading, elements>>

Reading == phase \in {"tables", "blocks"}

InPage == page <= Len(file.pages) /\ at <= Len(file.pages[page])

Block == file.pages[page][at]

\* A block of this pass.  A text block of a PDF that meets the box of a table
\* is left to the table.
Taken(b, pass, pdf) ==
    CASE pass = "tables" -> b.kind = "table"
      [] pass = "blocks" /\ pdf -> b.kind \in {"heading", "text"} /\ ~ b.covered
      [] OTHER -> b.kind # "other"

\* clean_text, or rendering a table, left something.
HasText(b) == b.sizes # <<>>

Skip ==
    /\ Reading
    /\ InPage
    /\ ~ (Taken(Block, phase, IsPdf) /\ HasText(Block))
    /\ at' = at + 1
    /\ UNCHANGED <<file, phase, page, heading, elements>>

Element(h) ==
    [page |-> page, at |-> at, sizes |-> Block.sizes, heading |-> h]

TakeHeading ==
    /\ Reading
    /\ InPage
    /\ Taken(Block, phase, IsPdf) /\ HasText(Block)
    /\ Block.kind = "heading"
    /\ heading' = Block.title
    /\ elements' = Append(elements, Element(Block.title))
    /\ at' = at + 1
    /\ UNCHANGED <<file, phase, page>>

TakeBlock ==
    /\ Reading
    /\ InPage
    /\ Taken(Block, phase, IsPdf) /\ HasText(Block)
    /\ Block.kind # "heading"
    /\ elements' = Append(elements, Element(heading))
    /\ at' = at + 1
    /\ UNCHANGED <<file, phase, page, heading>>

\* The page's tables are done, its text blocks follow.
TurnToBlocks ==
    /\ phase = "tables"
    /\ page <= Len(file.pages) /\ ~ InPage
    /\ phase' = "blocks"
    /\ at' = 1
    /\ UNCHANGED <<file, page, heading, elements>>

\* Mutant: the heading is a local of the page.
TurnPageForgetting ==
    /\ phase = "blocks"
    /\ page <= Len(file.pages) /\ ~ InPage
    /\ phase' = FirstPass
    /\ page' = page + 1
    /\ at' = 1
    /\ heading' = NoHeading
    /\ UNCHANGED <<file, elements>>

TurnPage ==
    /\ phase = "blocks"
    /\ page <= Len(file.pages) /\ ~ InPage
    /\ phase' = FirstPass
    /\ page' = page + 1
    /\ at' = 1
    /\ UNCHANGED <<file, heading, elements>>

Finish ==
    /\ Reading
    /\ page > Len(file.pages)
    /\ phase' = "parsed"
    /\ UNCHANGED <<file, page, at, heading, elements>>

Next ==
    \/ Accept \/ Refuse
    \/ Skip \/ TakeHeading \/ TakeBlock
    \/ TurnToBlocks \/ TurnPage \/ Finish

Spec == Init /\ [][Next]_vars

----------------------------------------------------------------------------
(* Properties *)

Before(p, k, q, l) == p < q \/ (p = q /\ k < l)

Has(p, k) == p \in DOMAIN file.pages /\ k \in DOMAIN file.pages[p]

\* Block k of page p becomes an element.
Kept(p, k) ==
    /\ Has(p, k)
    /\ HasText(file.pages[p][k])
    /\ \E pass \in {"tables", "blocks"} :
          (pass = "tables" => IsPdf) /\ Taken(file.pages[p][k], pass, IsPdf)

IsHeading(p, k) == Kept(p, k) /\ file.pages[p][k].kind = "heading"

\* h is the title of the last heading before block l of page q, or there is
\* none and h is no heading.
LastHeadingBefore(q, l, h) ==
    \/ /\ h = NoHeading
       /\ \A p \in DOMAIN file.pages : \A k \in DOMAIN file.pages[p] :
             IsHeading(p, k) => ~ Before(p, k, q, l)
    \/ \E p \in DOMAIN file.pages : \E k \in DOMAIN file.pages[p] :
          /\ IsHeading(p, k) /\ Before(p, k, q, l)
          /\ file.pages[p][k].title = h
          /\ \A r \in DOMAIN file.pages : \A m \in DOMAIN file.pages[r] :
                IsHeading(r, m) /\ Before(r, m, q, l)
                  => ~ Before(p, k, r, m)

\* The "nearest enclosing heading": an element's own title, or the last heading
\* before it.
Nearest(e, h) ==
    LET b == file.pages[e.page][e.at]
    IN  IF b.kind = "heading" THEN h = b.title ELSE LastHeadingBefore(e.page, e.at, h)

TableOfPdf(e) == IsPdf /\ file.pages[e.page][e.at].kind = "table"

\* The nearest heading; for a table of a PDF, which is read before the text of
\* its page, the nearest one on the pages before.
InForce(e, h) ==
    IF TableOfPdf(e) THEN LastHeadingBefore(e.page, 1, h) ELSE Nearest(e, h)

\* Whatever is skipped, covered or blank in between and however many passes and
\* pages it takes, an element is a block that is to be kept.  Unless it is a
\* table of a PDF, it has the heading nearest to it in the file; such a table
\* has the last one of the pages before, which need not be the nearest.
HeadingsInForce ==
    \A i \in DOMAIN elements :
        /\ Kept(elements[i].page, elements[i].at)
        /\ InForce(elements[i], elements[i].heading)

\* What DocumentElement says: "heading/section carry the nearest enclosing
\* heading/section title".  Violated: a PDF's table has not even the heading
\* right above it, on its own page.
HeadingsAreNearest ==
    \A i \in DOMAIN elements : Nearest(elements[i], elements[i].heading)

=============================================================================
