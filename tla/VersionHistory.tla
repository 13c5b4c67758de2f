--------------------------- MODULE VersionHistory ---------------------------
(***************************************************************************)
(* What uploading and indexing promise together: every document has an     *)
(* append-only history of contents in which no two neighbours are equal,   *)
(* and a version, once indexed, stays indexed.  Nothing is said of who     *)
(* uploads, of transactions or of the object store.                        *)
(***************************************************************************)
EXTENDS Sequences, Integers

CONSTANTS Documents, Contents

VARIABLES
    history,    \* the contents of each document's versions, oldest first
    indexed     \* the (document, number) pairs whose chunks are searchable

historyVars == <<history, indexed>>

Init ==
    /\ history = [d \in Documents |-> <<>>]
    /\ indexed = {}

\* A new document is a history that was empty.
Record(d, c) ==
    /\ history[d] # <<>> => history[d][Len(history[d])] # c
    /\ history' = [history EXCEPT ![d] = Append(@, c)]
    /\ UNCHANGED indexed

Index(d, n) ==
    /\ n \in 1 .. Len(history[d])
    /\ indexed' = indexed \union {<<d, n>>}
    /\ UNCHANGED history

Next ==
    \/ \E d \in Documents, c \in Contents : Record(d, c)
    \/ \E d \in Documents : \E n \in 1 .. Len(history[d]) : Index(d, n)

Spec == Init /\ [][Next]_historyVars

=============================================================================
