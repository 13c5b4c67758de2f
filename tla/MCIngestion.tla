---------------------------- MODULE MCIngestion ----------------------------
(* Constants and initial states of the runs of Ingestion.                  *)
EXTENDS Ingestion, TLC

CONSTANTS u1, u2, u3, i1, i2, name, other, fixed, nested, blank, long, revised

\* What each configuration makes of each content: no text has no chunks, and
\* the nested configuration cuts a long text into a parent and two children.
MCCandidates ==
    [c \in {blank, long, revised} |->
        [g \in {fixed, nested} |->
            CASE c = blank -> <<>>
              [] c = revised -> <<0>>
              [] c = long /\ g = fixed -> <<0, 0>>
              [] c = long /\ g = nested -> <<0, 1, 1>>]]

\* Requests come in any order, so one way to give them names and contents
\* stands for all its permutations.  Three overlapping uploads of one document,
\* two of them of the same bytes, so that they can be stored, met again, and
\* left and gone back to; two indexings under different configurations.
Overlapping ==
    /\ ~ serial
    /\ \A u \in Uploads : up[u].name = name
    /\ up[u1].content = long /\ up[u2].content = revised /\ up[u3].content = revised
    /\ ~ up[u1].retitles /\ ~ up[u2].retitles /\ up[u3].retitles
    /\ ix[i1].config = fixed /\ ix[i2].config = nested

\* Uploads one at a time: two of one document, with text and without, and a
\* third of the same one or of another; two indexings with equal or different
\* configurations, at any time.
OneAtATime ==
    /\ serial
    /\ up[u1].name = name /\ up[u2].name = name
    /\ up[u1].content = long /\ up[u2].content = blank /\ up[u3].content = revised
    /\ \A u \in Uploads : ~ up[u].retitles
    /\ ix[i1].config = fixed

MCInit == Init /\ (Overlapping \/ OneAtATime)

MCSpec == MCInit /\ [][Next]_vars /\ Fairness

MCSymmetry == Permutations(Uploads) \union Permutations(Indexings)

=============================================================================
