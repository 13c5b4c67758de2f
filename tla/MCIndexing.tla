---------------------------- MODULE MCIndexing -----------------------------
(* Constants of the run of Indexing.                                       *)
EXTENDS Indexing

CONSTANTS
    MaxBlocks,      \* bound: blocks of a DOCX
    MaxOnPage       \* bound: blocks on each of the two pages of a PDF

Plain(kind, sizes) == [kind |-> kind, sizes |-> sizes, title |-> "", covered |-> FALSE]

Heading(title) == [Plain("heading", <<1>>) EXCEPT !.title = title]

\* Sizes that fill a chunk, are cut, or are put together with what is next.
MCBlocks ==
    {Heading("h1"), Heading("h2")} \union
    {Plain("text", sizes) : sizes \in {<<1>>, <<2>>, <<1, 2>>, <<4, 1>>}} \union
    {Plain("table", <<2>>), Plain("text", <<>>)}

MCPdfBlocks ==
    {Heading("h1"), Heading("h2"), Plain("text", <<1, 2>>),
     [Plain("text", <<2>>) EXCEPT !.covered = TRUE], Plain("table", <<2>>)}

MCHtmlBlocks ==
    {Heading("h1"), [Heading("h2") EXCEPT !.sizes = <<>>], Plain("text", <<2>>),
     Plain("other", <<1>>), Plain("table", <<4, 1>>)}

UpTo(n, S) == UNION {[1 .. k -> S] : k \in 0 .. n}

File(extension, signature, pages) ==
    [extension |-> extension, size |-> 1, signature |-> signature, pages |-> pages]

MCFiles ==
    {File("docx", "zip", <<blocks>>) : blocks \in UpTo(MaxBlocks, MCBlocks)} \union
    {File("pdf", "pdf", <<first, second>>) :
        first \in UpTo(MaxOnPage, MCPdfBlocks), second \in UpTo(MaxOnPage, MCPdfBlocks)} \union
    {File(extension, "none", <<blocks>>) :
        extension \in {"html"}, blocks \in UpTo(MaxBlocks, MCHtmlBlocks)} \union
    {File("md", "none", <<blocks>>) : blocks \in UpTo(2, MCHtmlBlocks \ {Plain("table", <<4, 1>>)})} \union
    {File("csv", "none", <<blocks>>) : blocks \in UpTo(2, {Plain("text", <<>>), Plain("text", <<2>>)})} \union
    {File("exe", "none", <<<<>>>>), File("docx", "pdf", <<<<>>>>)}

\* No overlap, a little of it, and more than the budget; a budget of one token.
MCConfigs ==
    {[size |-> 3, overlap |-> 0, min |-> 2],
     [size |-> 4, overlap |-> 2, min |-> 3],
     [size |-> 3, overlap |-> 5, min |-> 0],
     [size |-> 1, overlap |-> 0, min |-> 0]}

============================================================================
