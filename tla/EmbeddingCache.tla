--------------------------- MODULE EmbeddingCache ---------------------------
(***************************************************************************)
(* CachedEmbeddingProvider.embed_texts before the OpenAI embeddings        *)
(* service, and the cache it shares with every other call: calls of one    *)
(* process overlap at each await, and processes that serve different       *)
(* models share a Redis while one is deployed after the other.             *)
(*                                                                         *)
(* The vector that a model makes of a text stands for itself, <<m, t>>.    *)
(***************************************************************************)
EXTENDS Places, Sequences, Functions

CONSTANTS
    Callers,    \* calls of embed_texts that can be under way at a time
    Texts,      \* what may be embedded
    Models,     \* the embedding models processes are deployed with
    MaxTexts    \* bound: length of a call's list

ASSUME BoundIsNatural == MaxTexts \in Nat

Vectors == Models \X Texts

\* A key the cache has no entry of: None in the code.
NoVector == <<>>

VARIABLES
    store,      \* the cache: key -> vector or NoVector
    omitted,    \* the service once left a text out of an answer
    pc,         \* what a call awaits, or how it ended
    model,      \* model_name in the call's process
    texts,      \* its argument
    values,     \* cached_values
    misses,     \* the positions it asks the service for
    fresh       \* what the service answered

callVars == <<pc, texts, values, misses, fresh>>
vars == <<store, omitted, model, callVars>>

\* The key names the model and the text.
Key(m, t) == <<m, t>>

Init ==
    /\ store = [k \in Vectors |-> NoVector]
    /\ omitted = FALSE
    /\ pc = [c \in Callers |-> "idle"]
    /\ model \in [Callers -> Models]
    /\ texts = [c \in Callers |-> <<>>]
    /\ values = [c \in Callers |-> <<>>]
    /\ misses = [c \in Callers |-> {}]
    /\ fresh = [c \in Callers |-> <<>>]

\* A call ends without a result.
Forget(c) ==
    /\ texts' = [texts EXCEPT ![c] = <<>>]
    /\ values' = [values EXCEPT ![c] = <<>>]
    /\ misses' = [misses EXCEPT ![c] = {}]
    /\ fresh' = [fresh EXCEPT ![c] = <<>>]

Awaiting(c) == pc[c] \in {"get", "ask", "set"}

Lists == UNION {[1 .. n -> Texts] : n \in 0 .. MaxTexts}

\* embed_texts is called; an empty list is answered at once.
Call(c) ==
    /\ ~ Awaiting(c)
    /\ \E list \in Lists :
          /\ texts' = [texts EXCEPT ![c] = list]
          /\ pc' = [pc EXCEPT ![c] = IF list = <<>> THEN "returned" ELSE "get"]
    /\ values' = [values EXCEPT ![c] = <<>>]
    /\ misses' = [misses EXCEPT ![c] = {}]
    /\ fresh' = [fresh EXCEPT ![c] = <<>>]
    /\ UNCHANGED <<store, omitted, model>>

\* cache.get returns for the next text.  After the last, the positions without
\* a value are the misses: a text that occurs twice is missed twice.
Get(c) ==
    /\ pc[c] = "get"
    /\ LET i == Len(values[c]) + 1
           found == Append(values[c], store[Key(model[c], texts[c][i])])
           missed == {k \in DOMAIN found : found[k] = NoVector}
       IN  /\ values' = [values EXCEPT ![c] = found]
           /\ IF i < Len(texts[c])
              THEN UNCHANGED <<pc, misses>>
              ELSE /\ misses' = [misses EXCEPT ![c] = missed]
                   /\ pc' = [pc EXCEPT ![c] =
                               IF missed = {} THEN "returned" ELSE "ask"]
    /\ UNCHANGED <<store, omitted, model, texts, fresh>>

\* The position of the k-th text that call c sends to the service.
Asked(c, k) == Nth(misses[c], k)

\* The indexes in an answer, in the order of its items: any order, and perhaps
\* not all.
Answers(n) == {a \in UNION {[1 .. l -> 1 .. n] : l \in 0 .. n} : IsInjective(a)}

\* Mutant: items are taken in the order of the answer.
AsAnswered(answer) == answer

\* sorted(data, key = index).
Sorted(answer) == [k \in DOMAIN answer |-> Nth(Range(answer), k)]

\* The provider returns.  Nothing in it compares the answer's length with the
\* number of texts.
Answer(c) ==
    /\ pc[c] = "ask"
    /\ \E answer \in Answers(Cardinality(misses[c])) :
          /\ fresh' = [fresh EXCEPT ![c] =
                [k \in DOMAIN answer |->
                    <<model[c], texts[c][Asked(c, Sorted(answer)[k])]>>]]
          /\ omitted' = (omitted \/ Len(answer) < Cardinality(misses[c]))
    /\ pc' = [pc EXCEPT ![c] = "set"]
    /\ UNCHANGED <<store, model, texts, values, misses>>

Missing(c) == {i \in misses[c] : values[c][i] = NoVector}

\* The next round of zip(misses, fresh, strict=True): cache.set is done and the
\* value is kept.
Set(c) ==
    /\ pc[c] = "set"
    /\ \E i \in Missing(c) :
          /\ \A j \in Missing(c) : i <= j
          /\ LET k == Place(misses[c], i)
             IN  /\ k <= Len(fresh[c])
                 /\ store' = [store EXCEPT ![Key(model[c], texts[c][i])] = fresh[c][k]]
                 /\ values' = [values EXCEPT ![c][i] = fresh[c][k]]
    /\ UNCHANGED <<omitted, model, pc, texts, misses, fresh>>

\* The rounds are over, and only now zip notices a short answer; json.loads
\* would raise for a value that is still missing.
Return(c) ==
    /\ pc[c] = "set"
    /\ \A i \in Missing(c) : Place(misses[c], i) > Len(fresh[c])
    /\ IF \/ Len(fresh[c]) # Cardinality(misses[c])
          \/ \E i \in DOMAIN values[c] : values[c][i] = NoVector
       THEN pc' = [pc EXCEPT ![c] = "raised"] /\ Forget(c)
       ELSE /\ pc' = [pc EXCEPT ![c] = "returned"]
            /\ misses' = [misses EXCEPT ![c] = {}]
            /\ fresh' = [fresh EXCEPT ![c] = <<>>]
            /\ UNCHANGED <<texts, values>>
    /\ UNCHANGED <<store, omitted, model>>

\* The cache or the provider raises at an await, or the caller is cancelled.
Fail(c) ==
    /\ Awaiting(c)
    /\ pc' = [pc EXCEPT ![c] = "raised"]
    /\ Forget(c)
    /\ UNCHANGED <<store, omitted, model>>

\* The time to live of an entry is over, Redis evicts it, or InMemoryCache ends
\* with its process.
Evict ==
    /\ \E k \in Vectors :
          store[k] # NoVector /\ store' = [store EXCEPT ![k] = NoVector]
    /\ UNCHANGED <<omitted, model, callVars>>

\* The call's process is replaced by one that may serve another model.
Restart(c) ==
    /\ \E m \in Models : model' = [model EXCEPT ![c] = m]
    /\ pc' = [pc EXCEPT ![c] = "idle"]
    /\ Forget(c)
    /\ UNCHANGED <<store, omitted>>

Next ==
    \/ Evict
    \/ \E c \in Callers : Call(c) \/ Get(c) \/ Answer(c) \/ Set(c) \/ Return(c)
                            \/ Fail(c) \/ Restart(c)

Spec == Init /\ [][Next]_vars

----------------------------------------------------------------------------
(* Properties *)

\* The types of the cache and of the calls.
TypeOK ==
    /\ store \in [Vectors -> Vectors \cup {NoVector}]
    /\ omitted \in BOOLEAN
    /\ pc \in [Callers -> {"idle", "get", "ask", "set", "returned", "raised"}]
    /\ model \in [Callers -> Models]
    /\ texts \in [Callers -> Seq(Texts)]
    /\ values \in [Callers -> Seq(Vectors \cup {NoVector})]
    /\ misses \in [Callers -> SUBSET (Nat \ {0})]
    /\ fresh \in [Callers -> Seq(Vectors)]

\* "so switching embedding models never serves a stale vector computed by a
\* different model for the same text": a call that returns has one vector per
\* text, made by the model of its process, whatever other calls stored meanwhile
\* and whatever answers were short; and as long as the service leaves nothing
\* out, they are the vectors of its texts, in their order.
VectorsMatch ==
    \A c \in Callers : pc[c] = "returned" =>
        /\ Len(values[c]) = Len(texts[c])
        /\ \A i \in DOMAIN texts[c] :
              /\ values[c][i] # NoVector
              /\ values[c][i][1] = model[c]
              /\ ~ omitted => values[c][i] = <<model[c], texts[c][i]>>

=============================================================================
