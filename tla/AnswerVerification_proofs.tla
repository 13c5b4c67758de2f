---------------------- MODULE AnswerVerification_proofs ----------------------
(***************************************************************************)
(* Proofs about AnswerVerification for every set of chunks and every bound *)
(* on the evidence, the claims and their citations: what an answer says    *)
(* and cites, the refinement of AnswerContract, and that all of it carries *)
(* over to SynthesisCall.                                                  *)
(***************************************************************************)
EXTENDS SynthesisCall, Places_proofs, SequenceTheorems

\* The prompts show chunks of the loop that nothing was found in.
EvidenceInv ==
    \A k \in 1 .. Len(evidence) :
        /\ evidence[k] \notin flagged
        /\ \E i \in 1 .. Len(given) : given[i] = evidence[k]

\* Claims name positions of the prompt.
ClaimsInv ==
    /\ Len(claims) <= MaxClaims
    /\ \A c \in 1 .. Len(claims) :
          /\ Len(claims[c]) <= MaxCites
          /\ \A j \in 1 .. Len(claims[c]) : claims[c][j] \in 1 .. Len(evidence)

\* What is supported was entailed, in the order of the claims.
SupportInv ==
    /\ \A k \in 1 .. Len(supported) :
          /\ supported[k] \in 1 .. Len(verdicts)
          /\ verdicts[supported[k]]
          /\ \E j \in 1 .. Len(citations) : citations[j].claim = supported[k]
    /\ \A j, k \in 1 .. Len(supported) : j < k => supported[j] < supported[k]

\* Citations come from the positions their claims name.
CitationsInv ==
    \A k \in 1 .. Len(citations) :
        /\ citations[k].claim \in 1 .. Len(verdicts)
        /\ \E j \in 1 .. Len(claims[citations[k].claim]) :
              evidence[claims[citations[k].claim][j]] = citations[k].chunk

\* The counters agree with the lists they are returned with.
CountsInv ==
    /\ Len(verdicts) <= Len(claims)
    /\ Len(supported) <= Len(verdicts)
    /\ Len(supported) <= entailed
    /\ entailed = Len(citations)
    /\ entailed <= total
    /\ total <= Len(verdicts) * MaxCites

\* What is known at each await.
PhaseInv ==
    /\ pc = "filter" => evidence = <<>>
    /\ pc \in {"filter", "synthesize"} =>
          /\ claims = <<>> /\ verdicts = <<>> /\ supported = <<>>
          /\ citations = <<>> /\ total = 0 /\ entailed = 0
    /\ pc \in {"validate", "grounded"} => evidence # <<>>
    /\ pc = "grounded" => supported # <<>>

IInv ==
    /\ TypeOK /\ EvidenceInv /\ ClaimsInv /\ SupportInv /\ CitationsInv
    /\ CountsInv /\ PhaseInv

\* A bounded sequence is a sequence.
LEMMA SeqOfIsSeq ==
    ASSUME NEW R, NEW n \in Nat, NEW s \in SeqOf(R, n)
    PROVE  s \in Seq(R) /\ Len(s) <= n
<1>1. PICK l \in 0 .. n : s \in [1 .. l -> R]
  BY DEF SeqOf
<1> QED
  BY <1>1

\* Appending one sequence to another.
LEMMA ConcatIsBoth ==
    ASSUME NEW R, NEW s \in Seq(R), NEW t \in Seq(R)
    PROVE  /\ s \o t \in Seq(R) /\ Len(s \o t) = Len(s) + Len(t)
           /\ \A k \in 1 .. Len(s) : (s \o t)[k] = s[k]
           /\ \A k \in 1 .. Len(t) : (s \o t)[Len(s) + k] = t[k]
  OBVIOUS

\* A number up to n + 1 is n + 1 or smaller.
LEMMA UpToNext ==
    ASSUME NEW n \in Nat, NEW k \in 1 .. n + 1
    PROVE  k \in 1 .. n \/ k = n + 1
  OBVIOUS

LEMMA InitIsRight == Init => IInv
<1> SUFFICES ASSUME Init PROVE IInv
  OBVIOUS
<1> USE BoundsAreNatural
<1>1. given \in Seq(Chunks)
  BY SeqOfIsSeq DEF Init
<1>2. TypeOK
  BY <1>1 DEF Init, TypeOK
<1>3. EvidenceInv /\ ClaimsInv /\ SupportInv /\ CitationsInv
  BY DEF Init, EvidenceInv, ClaimsInv, SupportInv, CitationsInv
<1>4. CountsInv /\ PhaseInv
  BY DEF Init, CountsInv, PhaseInv
<1> QED
  BY <1>2, <1>3, <1>4 DEF IInv

LEMMA FilterStep ==
    ASSUME IInv, Filter
    PROVE  IInv'
<1>1. /\ pc = "filter" /\ pc' = "synthesize"
      /\ evidence' = At(given, Clean)
      /\ UNCHANGED <<given, flagged, claims, verdicts, supported, removed,
                     citations, total, entailed>>
  BY DEF Filter, tallies
<1>2. Clean \in SUBSET (1 .. Len(given)) /\ \A i \in Clean : given[i] \notin flagged
  BY DEF IInv, TypeOK, Clean
<1>3. given \in Seq(Chunks)
  BY DEF IInv, TypeOK
<1>4. /\ evidence' \in Seq(Chunks)
      /\ \A k \in 1 .. Len(evidence') : \E i \in Clean : evidence'[k] = given[i]
  BY <1>1, <1>2, <1>3, AtIsSelection, Zenon
<1>5. TypeOK'
  BY <1>1, <1>4 DEF IInv, TypeOK
<1>6. EvidenceInv'
  BY <1>1, <1>2, <1>4 DEF EvidenceInv
<1>7. /\ claims = <<>> /\ supported = <<>> /\ citations = <<>>
      /\ PhaseInv'
  BY <1>1 DEF IInv, PhaseInv
<1>8. ClaimsInv' /\ SupportInv' /\ CitationsInv'
  BY <1>1, <1>7, BoundsAreNatural DEF ClaimsInv, SupportInv, CitationsInv
<1>9. CountsInv'
  BY <1>1 DEF IInv, CountsInv
<1> QED
  BY <1>5, <1>6, <1>7, <1>8, <1>9 DEF IInv

LEMMA SynthesizeStep ==
    ASSUME IInv, Synthesize
    PROVE  IInv'
<1>1. /\ pc = "synthesize"
      /\ UNCHANGED <<given, flagged, evidence, verdicts, supported, removed,
                     citations, total, entailed>>
  BY DEF Synthesize, tallies
<1>2. /\ claims = <<>> /\ verdicts = <<>> /\ supported = <<>>
      /\ citations = <<>> /\ total = 0 /\ entailed = 0
  BY <1>1 DEF IInv, PhaseInv
<1>3. /\ pc' \in {"insufficient_evidence", "validate"}
      /\ pc' = "validate" => evidence # <<>>
      /\ claims' \in Seq(Seq(Nat \ {0}))
      /\ ClaimsInv'
  <2>1. CASE evidence = <<>> /\ pc' = "insufficient_evidence" /\ UNCHANGED claims
    BY <1>1, <1>2, <2>1 DEF IInv, TypeOK, ClaimsInv
  <2>2. ASSUME evidence # <<>>,
               NEW insufficient \in BOOLEAN,
               NEW cites \in SeqOf(SeqOf(0 .. MaxEvidence + 1, MaxCites), MaxClaims),
               claims' = [k \in DOMAIN cites |-> At(cites[k], InRange(cites[k]))],
               pc' = IF insufficient \/ cites = <<>>
                     THEN "insufficient_evidence" ELSE "validate"
        PROVE  /\ pc' \in {"insufficient_evidence", "validate"}
               /\ pc' = "validate" => evidence # <<>>
               /\ claims' \in Seq(Seq(Nat \ {0}))
               /\ ClaimsInv'
    <3> DEFINE R == 0 .. MaxEvidence + 1
    <3>1. cites \in Seq(SeqOf(R, MaxCites)) /\ Len(cites) <= MaxClaims
      BY BoundsAreNatural, SeqOfIsSeq
    <3>2. ASSUME NEW k \in 1 .. Len(cites)
          PROVE  /\ At(cites[k], InRange(cites[k])) \in Seq(Nat \ {0})
                 /\ Len(At(cites[k], InRange(cites[k]))) <= MaxCites
                 /\ \A j \in 1 .. Len(At(cites[k], InRange(cites[k]))) :
                       At(cites[k], InRange(cites[k]))[j] \in 1 .. Len(evidence)
      <4> DEFINE s == cites[k]
                 a == At(s, InRange(s))
      <4>1. s \in SeqOf(R, MaxCites)
        BY <3>1
      <4>2. s \in Seq(R) /\ Len(s) <= MaxCites
        BY <4>1, BoundsAreNatural, SeqOfIsSeq
      <4>3. InRange(s) \in SUBSET (1 .. Len(s))
        BY <4>2 DEF InRange
      <4>4. \A i \in InRange(s) : s[i] \in 1 .. Len(evidence)
        BY DEF InRange, IInv, TypeOK
      <4> HIDE DEF s, R
      <4>5. /\ a \in Seq(R) /\ Len(a) = Cardinality(InRange(s))
            /\ Cardinality(InRange(s)) <= Len(s)
            /\ \A j \in 1 .. Len(a) : \E i \in InRange(s) : a[j] = s[i]
        BY <4>2, <4>3, AtIsSelection, Zenon
      <4> HIDE DEF a
      <4>6. Len(a) <= MaxCites /\ Len(a) \in Nat
        BY <4>2, <4>5, BoundsAreNatural
      <4>7. \A j \in 1 .. Len(a) : a[j] \in 1 .. Len(evidence)
        BY <4>4, <4>5
      <4>8. Len(evidence) \in Nat
        BY DEF IInv, TypeOK
      <4>9. a \in Seq(Nat \ {0})
        BY <4>5, <4>6, <4>7, <4>8
      <4> QED
        BY <4>6, <4>7, <4>9 DEF a, s
    <3>3. DOMAIN cites = 1 .. Len(cites) /\ Len(cites) \in Nat
      BY <3>1
    <3>4. claims' = [k \in 1 .. Len(cites) |-> At(cites[k], InRange(cites[k]))]
      BY <2>2, <3>3
    <3>5. claims' \in Seq(Seq(Nat \ {0})) /\ Len(claims') = Len(cites)
      BY <3>2, <3>3, <3>4
    <3>6. \A k \in 1 .. Len(cites) : claims'[k] = At(cites[k], InRange(cites[k]))
      BY <3>4
    <3>7. ClaimsInv'
      BY <1>1, <3>1, <3>2, <3>5, <3>6 DEF ClaimsInv
    <3> QED
      BY <2>2, <3>5, <3>7
  <2> QED
    BY <2>1, <2>2 DEF Synthesize
<1>4. TypeOK'
  BY <1>1, <1>3 DEF IInv, TypeOK
<1>5. EvidenceInv'
  BY <1>1 DEF IInv, EvidenceInv
<1>6. SupportInv' /\ CitationsInv'
  BY <1>1, <1>2 DEF SupportInv, CitationsInv
<1>7. CountsInv'
  <2>1. Len(claims') \in Nat /\ MaxCites \in Nat /\ Len(<<>>) = 0
    BY <1>3, BoundsAreNatural
  <2> QED
    BY <1>1, <1>2, <2>1 DEF CountsInv
<1>8. PhaseInv'
  BY <1>1, <1>3 DEF PhaseInv
<1> QED
  BY <1>3, <1>4, <1>5, <1>6, <1>7, <1>8 DEF IInv

\* Facts of both outcomes of a validation.
LEMMA ClaimTaken ==
    ASSUME IInv, pc = "validate", Claim <= Len(claims),
           NEW verdict \in BOOLEAN, verdicts' = Append(verdicts, verdict)
    PROVE  /\ Claim \in 1 .. Len(claims) /\ Claim = Len(verdicts) + 1
           /\ claims[Claim] \in Seq(Nat \ {0})
           /\ Len(claims[Claim]) \in 0 .. MaxCites
           /\ \A j \in 1 .. Len(claims[Claim]) :
                 claims[Claim][j] \in 1 .. Len(evidence)
           /\ verdicts' \in Seq(BOOLEAN) /\ Len(verdicts') = Claim
           /\ verdicts'[Claim] = verdict
           /\ \A c \in 1 .. Len(verdicts) : verdicts'[c] = verdicts[c]
<1>1. /\ verdicts \in Seq(BOOLEAN) /\ claims \in Seq(Seq(Nat \ {0}))
      /\ Len(verdicts) \in Nat /\ Len(claims) \in Nat
  BY DEF IInv, TypeOK
<1>2. Claim \in 1 .. Len(claims) /\ Claim = Len(verdicts) + 1
  BY <1>1 DEF Claim
<1>3. claims[Claim] \in Seq(Nat \ {0})
  BY <1>1, <1>2
<1>4. /\ Len(claims[Claim]) <= MaxCites
      /\ \A j \in 1 .. Len(claims[Claim]) :
            claims[Claim][j] \in 1 .. Len(evidence)
  BY <1>2 DEF IInv, ClaimsInv
<1>5. Len(claims[Claim]) \in 0 .. MaxCites
  BY <1>3, <1>4, BoundsAreNatural
<1>6. /\ verdicts' \in Seq(BOOLEAN) /\ Len(verdicts') = Len(verdicts) + 1
      /\ verdicts'[Len(verdicts) + 1] = verdict
      /\ \A c \in 1 .. Len(verdicts) : verdicts'[c] = verdicts[c]
  BY <1>1, AppendProperties
<1> QED
  BY <1>2, <1>3, <1>4, <1>5, <1>6

\* The bound on the proposed citations grows with every validated claim.
LEMMA OneMoreClaim ==
    ASSUME NEW n \in Nat, NEW m \in Nat, NEW t \in Nat, NEW k \in 0 .. m,
           t <= n * m
    PROVE  t + k <= (n + 1) * m
<1>1. (n + 1) * m = n * m + m /\ n * m \in Nat
  OBVIOUS
<1> QED
  BY <1>1

\* A claim is removed.
LEMMA RemoveStep ==
    ASSUME IInv, pc = "validate", Claim <= Len(claims),
           verdicts' = Append(verdicts, FALSE),
           total' = total + Len(claims[Claim]),
           removed' = Append(removed, Claim),
           UNCHANGED <<pc, given, flagged, evidence, claims, entailed,
                       supported, citations>>
    PROVE  IInv'
<1>1. /\ Claim \in 1 .. Len(claims) /\ Claim = Len(verdicts) + 1
      /\ Len(claims[Claim]) \in 0 .. MaxCites
      /\ verdicts' \in Seq(BOOLEAN) /\ Len(verdicts') = Claim
      /\ \A c \in 1 .. Len(verdicts) : verdicts'[c] = verdicts[c]
  BY ClaimTaken
<1>2. TypeOK'
  BY SMTT(30), <1>1 DEF IInv, TypeOK
<1>3. EvidenceInv' /\ ClaimsInv' /\ PhaseInv'
  BY DEF IInv, EvidenceInv, ClaimsInv, PhaseInv
<1>4. Len(verdicts) \in Nat /\ Len(verdicts') = Len(verdicts) + 1
  BY <1>1 DEF IInv, TypeOK
<1>5. SupportInv'
  <2>1. ASSUME NEW k \in 1 .. Len(supported)
        PROVE  /\ supported[k] \in 1 .. Len(verdicts')
               /\ verdicts'[supported[k]]
               /\ \E j \in 1 .. Len(citations) : citations[j].claim = supported[k]
    <3>1. /\ supported[k] \in 1 .. Len(verdicts)
          /\ verdicts[supported[k]]
          /\ \E j \in 1 .. Len(citations) : citations[j].claim = supported[k]
      BY DEF IInv, SupportInv
    <3>2. verdicts'[supported[k]] = verdicts[supported[k]]
      BY <1>1, <3>1
    <3>3. supported[k] \in 1 .. Len(verdicts')
      BY <1>4, <3>1
    <3> QED
      BY <3>1, <3>2, <3>3, Zenon
  <2> QED
    BY <2>1 DEF IInv, SupportInv
<1>6. CitationsInv'
  <2>1. \A k \in 1 .. Len(citations) : citations[k].claim \in 1 .. Len(verdicts')
    BY <1>4 DEF IInv, CitationsInv
  <2> QED
    BY <2>1 DEF IInv, CitationsInv
<1>7. CountsInv'
  <2>1. total' <= Len(verdicts') * MaxCites
    <3>1. total \in Nat /\ total <= Len(verdicts) * MaxCites
      BY DEF IInv, TypeOK, CountsInv
    <3> QED
      BY <1>1, <1>4, <3>1, OneMoreClaim, BoundsAreNatural
  <2>2. total' >= total
    BY <1>1, BoundsAreNatural DEF IInv, TypeOK
  <2>3. Len(supported) \in Nat /\ entailed \in Nat /\ total \in Nat /\ total' \in Nat
    BY <1>2 DEF IInv, TypeOK
  <2>4. Len(verdicts') <= Len(claims)
    BY <1>1
  <2>5. /\ Len(supported) <= Len(verdicts) /\ Len(supported) <= entailed
        /\ entailed = Len(citations) /\ entailed <= total
    BY DEF IInv, CountsInv
  <2>6. Len(supported) <= Len(verdicts') /\ entailed <= total'
    BY <1>4, <2>2, <2>3, <2>5
  <2> QED
    BY <2>1, <2>4, <2>5, <2>6 DEF CountsInv
<1> QED
  BY <1>2, <1>3, <1>5, <1>6, <1>7 DEF IInv

\* A claim is kept with its citations.
LEMMA SupportStep ==
    ASSUME IInv, pc = "validate", Claim <= Len(claims),
           CanEntail(claims[Claim]),
           verdicts' = Append(verdicts, TRUE),
           total' = total + Len(claims[Claim]),
           entailed' = entailed + Len(claims[Claim]),
           supported' = Append(supported, Claim),
           citations' = citations \o Resolve(Claim, claims[Claim]),
           UNCHANGED <<pc, given, flagged, evidence, claims, removed>>
    PROVE  IInv'
<1> DEFINE cites == claims[Claim]
           more == Resolve(Claim, cites)
<1>1. /\ Claim \in 1 .. Len(claims) /\ Claim = Len(verdicts) + 1
      /\ cites \in Seq(Nat \ {0})
      /\ Len(cites) \in 0 .. MaxCites
      /\ \A j \in 1 .. Len(cites) : cites[j] \in 1 .. Len(evidence)
      /\ verdicts' \in Seq(BOOLEAN) /\ Len(verdicts') = Claim
      /\ verdicts'[Claim] = TRUE
      /\ \A c \in 1 .. Len(verdicts) : verdicts'[c] = verdicts[c]
  BY ClaimTaken
<1>2. /\ Len(verdicts) \in Nat /\ Len(supported) \in Nat
      /\ Len(citations) \in Nat /\ Len(evidence) \in Nat
      /\ supported \in Seq(Nat) /\ evidence \in Seq(Chunks)
      /\ citations \in Seq([claim : Nat, chunk : Chunks])
  BY SMTT(30) DEF IInv, TypeOK
<1>3. Len(cites) \in Nat \ {0}
  BY <1>1, BoundsAreNatural DEF CanEntail
<1> HIDE DEF cites
<1>4. /\ more \in Seq([claim : Nat, chunk : Chunks])
      /\ Len(more) = Len(cites)
      /\ \A k \in 1 .. Len(cites) :
            more[k].claim = Claim /\ more[k].chunk = evidence[cites[k]]
  <2>1. DOMAIN cites = 1 .. Len(cites)
    BY <1>1
  <2>2. \A k \in 1 .. Len(cites) : evidence[cites[k]] \in Chunks
    BY SMTT(30), <1>1, <1>2
  <2>3. more = [k \in 1 .. Len(cites) |->
                  [claim |-> Claim, chunk |-> evidence[cites[k]]]]
    BY <2>1 DEF Resolve
  <2>4. Claim \in Nat
    BY <1>1, <1>2
  <2> HIDE DEF more
  <2> QED
    BY <1>3, <2>2, <2>3, <2>4
<1>5. citations' = citations \o more
  BY DEF cites
<1> HIDE DEF more
<1>6. /\ citations' \in Seq([claim : Nat, chunk : Chunks])
      /\ Len(citations') = Len(citations) + Len(cites)
      /\ \A k \in 1 .. Len(citations) : citations'[k] = citations[k]
      /\ \A k \in 1 .. Len(cites) : citations'[Len(citations) + k] = more[k]
  <2>1. /\ citations \o more \in Seq([claim : Nat, chunk : Chunks])
        /\ Len(citations \o more) = Len(citations) + Len(more)
        /\ \A k \in 1 .. Len(citations) : (citations \o more)[k] = citations[k]
        /\ \A k \in 1 .. Len(more) :
              (citations \o more)[Len(citations) + k] = more[k]
    <3> DEFINE R == [claim : Nat, chunk : Chunks]
    <3>1. citations \in Seq(R) /\ more \in Seq(R)
      BY <1>2, <1>4
    <3> HIDE DEF R
    <3>2. /\ citations \o more \in Seq(R)
          /\ Len(citations \o more) = Len(citations) + Len(more)
          /\ \A k \in 1 .. Len(citations) : (citations \o more)[k] = citations[k]
          /\ \A k \in 1 .. Len(more) :
                (citations \o more)[Len(citations) + k] = more[k]
      BY <3>1, ConcatIsBoth
    <3> QED
      BY <3>2 DEF R
  <2> QED
    BY <1>4, <1>5, <2>1, Zenon
<1>7. /\ supported' \in Seq(Nat) /\ Len(supported') = Len(supported) + 1
      /\ supported'[Len(supported) + 1] = Claim
      /\ \A k \in 1 .. Len(supported) : supported'[k] = supported[k]
  BY <1>1, <1>2
<1>8. total' = total + Len(cites) /\ entailed' = entailed + Len(cites)
  BY DEF cites
<1>9. TypeOK'
  <2>1. total' \in Nat /\ entailed' \in Nat
    <3>1. total \in Nat /\ entailed \in Nat
      BY DEF IInv, TypeOK
    <3>2. \A a \in Nat : a + Len(cites) \in Nat
      BY <1>3
    <3> QED
      BY <1>8, <3>1, <3>2, Zenon
  <2>2. verdicts' \in Seq(BOOLEAN) /\ supported' \in Seq(Nat)
        /\ citations' \in Seq([claim : Nat, chunk : Chunks])
    BY <1>1, <1>6, <1>7, Zenon
  <2> QED
    BY <2>1, <2>2 DEF IInv, TypeOK
<1>10. EvidenceInv' /\ ClaimsInv' /\ PhaseInv'
  <2>1. supported' # <<>>
    BY SMTT(30), <1>2, <1>7
  <2> QED
    BY <2>1 DEF IInv, EvidenceInv, ClaimsInv, PhaseInv
<1>11. SupportInv'
  <2>1. ASSUME NEW k \in 1 .. Len(supported')
        PROVE  /\ supported'[k] \in 1 .. Len(verdicts')
               /\ verdicts'[supported'[k]]
               /\ \E j \in 1 .. Len(citations') :
                     citations'[j].claim = supported'[k]
    <3>1. CASE k \in 1 .. Len(supported)
      <4>1. /\ supported[k] \in 1 .. Len(verdicts)
            /\ verdicts[supported[k]]
            /\ \E j \in 1 .. Len(citations) : citations[j].claim = supported[k]
        BY <3>1 DEF IInv, SupportInv
      <4>2. supported'[k] = supported[k]
        BY <1>7, <3>1
      <4>3. verdicts'[supported[k]] = verdicts[supported[k]]
        BY <1>1, <4>1
      <4>4. supported[k] \in 1 .. Len(verdicts')
        BY SMTT(30), <1>1, <1>2, <4>1
      <4>5. \E j \in 1 .. Len(citations') : citations'[j].claim = supported[k]
        BY <1>2, <1>3, <1>6, <4>1
      <4> QED
        BY <4>1, <4>2, <4>3, <4>4, <4>5, Zenon
    <3>2. CASE k = Len(supported) + 1
      <4>1. supported'[k] = Claim
        BY <1>7, <3>2
      <4>2. Len(citations) + 1 \in 1 .. Len(citations')
        BY SMTT(30), <1>2, <1>3, <1>6
      <4>3. citations'[Len(citations) + 1].claim = Claim
        <5>1. 1 \in 1 .. Len(cites)
          BY <1>3
        <5>2. citations'[Len(citations) + 1] = more[1]
          BY <1>6, <5>1
        <5> QED
          BY <1>4, <5>1, <5>2
      <4>4. Claim \in 1 .. Len(verdicts')
        BY <1>1, <1>2
      <4>5. verdicts'[Claim]
        BY <1>1, Zenon
      <4> QED
        BY <4>1, <4>2, <4>3, <4>4, <4>5, Zenon
    <3> QED
      BY <1>2, <1>7, <3>1, <3>2, UpToNext, Zenon
  <2>2. ASSUME NEW j \in 1 .. Len(supported'), NEW k \in 1 .. Len(supported'), j < k
        PROVE  supported'[j] < supported'[k]
    <3>1. j \in 1 .. Len(supported)
      BY <1>2, <1>7, <2>2
    <3>2. CASE k \in 1 .. Len(supported)
      BY <1>7, <2>2, <3>1, <3>2 DEF IInv, SupportInv
    <3>3. CASE k = Len(supported) + 1
      <4>1. supported[j] \in 1 .. Len(verdicts)
        BY <3>1 DEF IInv, SupportInv
      <4> QED
        BY SMTT(30), <1>1, <1>2, <1>7, <3>1, <3>3, <4>1
    <3> QED
      BY <1>2, <1>7, <3>2, <3>3
  <2> QED
    BY <2>1, <2>2 DEF SupportInv
<1>12. CitationsInv'
  <2> SUFFICES ASSUME NEW k \in 1 .. Len(citations')
               PROVE  /\ citations'[k].claim \in 1 .. Len(verdicts')
                      /\ \E j \in 1 .. Len(claims[citations'[k].claim]) :
                            evidence[claims[citations'[k].claim][j]]
                               = citations'[k].chunk
    BY DEF CitationsInv
  <2>1. CASE k \in 1 .. Len(citations)
    <3>1. citations'[k] = citations[k]
      BY <1>6, <2>1
    <3>2. /\ citations[k].claim \in 1 .. Len(verdicts)
          /\ \E j \in 1 .. Len(claims[citations[k].claim]) :
                evidence[claims[citations[k].claim][j]] = citations[k].chunk
      BY <2>1 DEF IInv, CitationsInv
    <3>3. citations[k].claim \in 1 .. Len(verdicts')
      <4>1. \A c \in 1 .. Len(verdicts) : c \in 1 .. Len(verdicts')
        BY <1>1, <1>2
      <4> QED
        BY <3>2, <4>1, Zenon
    <3> QED
      BY <3>1, <3>2, <3>3
  <2>2. ASSUME NEW j \in 1 .. Len(cites), k = Len(citations) + j
        PROVE  /\ citations'[k].claim = Claim
               /\ evidence[cites[j]] = citations'[k].chunk
    BY <1>4, <1>6, <2>2
  <2>3. k \notin 1 .. Len(citations) => k - Len(citations) \in 1 .. Len(cites)
    BY <1>2, <1>3, <1>6
  <2>4. CASE k \notin 1 .. Len(citations)
    <3>1. PICK j \in 1 .. Len(cites) : k = Len(citations) + j
      <4>1. k = Len(citations) + (k - Len(citations))
        BY <1>2
      <4> QED
        BY <2>3, <2>4, <4>1
    <3>2. citations'[k].claim = Claim /\ evidence[cites[j]] = citations'[k].chunk
      BY <2>2, <3>1
    <3>3. Claim \in 1 .. Len(verdicts')
      BY <1>1, <1>2
    <3> QED
      BY <3>2, <3>3 DEF cites
  <2> QED
    BY <2>1, <2>4
<1>13. CountsInv'
  <2>1. /\ total \in Nat /\ total <= Len(verdicts) * MaxCites
        /\ entailed \in Nat /\ entailed <= total
        /\ entailed = Len(citations)
        /\ Len(supported) <= Len(verdicts) /\ Len(supported) <= entailed
    BY DEF IInv, TypeOK, CountsInv
  <2>2. total' <= Len(verdicts') * MaxCites
    BY <1>1, <1>2, <1>8, <2>1, OneMoreClaim, BoundsAreNatural
  <2>3. /\ Len(verdicts') = Len(verdicts) + 1
        /\ Len(verdicts') <= Len(claims')
    BY <1>1, <1>2
  <2>4. /\ entailed' = Len(citations')
        /\ entailed' <= total'
        /\ Len(supported') <= Len(verdicts')
        /\ Len(supported') <= entailed'
    <3>1. Len(citations') = Len(citations) + Len(cites)
      BY <1>6
    <3>2. Len(supported') = Len(supported) + 1
      BY <1>7
    <3> QED
      BY SMTT(30), <1>2, <1>3, <1>8, <2>1, <2>3, <3>1, <3>2
  <2> QED
    BY <2>2, <2>3, <2>4 DEF CountsInv
<1> QED
  BY <1>9, <1>10, <1>11, <1>12, <1>13 DEF IInv

LEMMA ValidateStep ==
    ASSUME IInv, Validate
    PROVE  IInv'
<1>1. /\ pc = "validate" /\ Claim <= Len(claims)
      /\ UNCHANGED <<pc, given, flagged, evidence, claims>>
  BY DEF Validate
<1>2. \/ /\ CanEntail(claims[Claim])
         /\ verdicts' = Append(verdicts, TRUE)
         /\ total' = total + Len(claims[Claim])
         /\ entailed' = entailed + Len(claims[Claim])
         /\ supported' = Append(supported, Claim)
         /\ citations' = citations \o Resolve(Claim, claims[Claim])
         /\ UNCHANGED removed
      \/ /\ verdicts' = Append(verdicts, FALSE)
         /\ total' = total + Len(claims[Claim])
         /\ removed' = Append(removed, Claim)
         /\ UNCHANGED <<entailed, supported, citations>>
  BY DEF Validate
<1> QED
  BY <1>1, <1>2, RemoveStep, SupportStep

\* A call that ends leaves its state as it is.
LEMMA EndStep ==
    ASSUME IInv, Conclude \/ Abandon
    PROVE  IInv'
<1>1. /\ pc' \in {"insufficient_evidence", "grounded", "abandoned"}
      /\ pc' = "grounded" => pc = "validate" /\ supported # <<>>
      /\ UNCHANGED <<given, flagged, evidence, claims, verdicts, supported,
                     removed, citations, total, entailed>>
  BY DEF Conclude, Abandon, tallies
<1> QED
  BY <1>1 DEF IInv, TypeOK, EvidenceInv, ClaimsInv, SupportInv, CitationsInv,
              CountsInv, PhaseInv

LEMMA Invariance == Spec => []IInv
<1>1. IInv /\ [Next]_vars => IInv'
  <2> SUFFICES ASSUME IInv, [Next]_vars PROVE IInv'
    OBVIOUS
  <2>1. CASE UNCHANGED vars
    BY <2>1 DEF vars, IInv, TypeOK, EvidenceInv, ClaimsInv, SupportInv,
                CitationsInv, CountsInv, PhaseInv
  <2> QED
    BY <2>1, FilterStep, SynthesizeStep, ValidateStep, EndStep DEF Next
<1> QED
  BY <1>1, InitIsRight, PTL DEF Spec

\* The call's state keeps its types, for every set of chunks and all bounds.
THEOREM TypeCorrect == Spec => []TypeOK
<1>1. IInv => TypeOK
  BY DEF IInv
<1> QED
  BY <1>1, Invariance, PTL

\* A grounded answer consists of claims that were entailed, in their order, and
\* each has a citation in the result.
THEOREM AnswerAlwaysSupported == Spec => []AnswerIsSupported
<1>1. IInv => AnswerIsSupported
  <2> SUFFICES ASSUME IInv, pc = "grounded" PROVE AnswerIsSupported
    BY DEF AnswerIsSupported
  <2>1. supported # <<>> /\ DOMAIN supported = 1 .. Len(supported)
    BY DEF IInv, TypeOK, PhaseInv
  <2>2. ASSUME NEW k \in 1 .. Len(supported)
        PROVE  verdicts[supported[k]] /\ CitedBy(supported[k]) # {}
    <3>1. PICK j \in 1 .. Len(citations) : citations[j].claim = supported[k]
      BY DEF IInv, SupportInv
    <3>2. j \in DOMAIN citations
      BY DEF IInv, TypeOK
    <3>3. citations[j].chunk \in CitedBy(supported[k])
      BY <3>1, <3>2 DEF CitedBy
    <3>4. verdicts[supported[k]]
      BY DEF IInv, SupportInv
    <3> QED
      BY <3>3, <3>4, Zenon
  <2> QED
    BY <2>1, <2>2 DEF IInv, SupportInv, AnswerIsSupported
<1> QED
  BY <1>1, Invariance, PTL

\* A citation names a chunk the loop handed over, in which no injection was
\* found, and which stood at a position the claim cites.
THEOREM CitationsAlwaysGenuine == Spec => []CitationsAreGenuine
<1>1. IInv => CitationsAreGenuine
  <2> SUFFICES ASSUME IInv, NEW k \in DOMAIN citations
               PROVE  /\ \E i \in DOMAIN given : given[i] = citations[k].chunk
                      /\ citations[k].chunk \notin flagged
                      /\ \E j \in DOMAIN claims[citations[k].claim] :
                            evidence[claims[citations[k].claim][j]]
                               = citations[k].chunk
    BY DEF CitationsAreGenuine
  <2>1. k \in 1 .. Len(citations)
    BY DEF IInv, TypeOK
  <2> DEFINE c == citations[k].claim
  <2>2. /\ c \in 1 .. Len(verdicts)
        /\ \E j \in 1 .. Len(claims[c]) : evidence[claims[c][j]] = citations[k].chunk
    BY <2>1 DEF IInv, CitationsInv
  <2>3. c \in 1 .. Len(claims)
    BY SMTT(30), <2>2 DEF IInv, TypeOK, CountsInv
  <2>4. claims[c] \in Seq(Nat \ {0})
    BY <2>3 DEF IInv, TypeOK
  <2>5. DOMAIN claims[c] = 1 .. Len(claims[c])
    BY <2>4
  <2>6. PICK j \in 1 .. Len(claims[c]) :
           evidence[claims[c][j]] = citations[k].chunk
    BY <2>2
  <2>7. claims[c][j] \in 1 .. Len(evidence)
    BY <2>3 DEF IInv, ClaimsInv
  <2>8. /\ evidence[claims[c][j]] \notin flagged
        /\ \E i \in 1 .. Len(given) : given[i] = evidence[claims[c][j]]
    BY <2>7 DEF IInv, EvidenceInv
  <2>9. DOMAIN given = 1 .. Len(given)
    BY DEF IInv, TypeOK
  <2> QED
    BY <2>5, <2>6, <2>8, <2>9
<1> QED
  BY <1>1, Invariance, PTL

\* The verifier implements AnswerContract, on which the query pipeline and the
\* evaluation rely.
THEOREM ContractImplemented == Spec => ImplementsAnswerContract
<1>1. IInv /\ Init => Contract!Init
  <2> SUFFICES ASSUME IInv, Init PROVE Contract!Init
    OBVIOUS
  <2>1. Len(given) \in Nat
    BY DEF IInv, TypeOK
  <2> QED
    BY <2>1 DEF Init, Contract!Init, Contract!NoMetrics, Finished
<1>2. IInv /\ IInv' /\ [Next]_vars => [Contract!Next]_(Contract!contractVars)
  <2> SUFFICES ASSUME IInv, IInv', [Next]_vars
               PROVE  Contract!Next \/ UNCHANGED Contract!contractVars
    OBVIOUS
  <2>1. CASE Filter \/ Validate \/ UNCHANGED vars
    <3>1. /\ given' = given
          /\ \/ pc \in {"filter", "validate"} /\ pc' \in {"synthesize", "validate"}
             \/ /\ pc' = pc
                /\ UNCHANGED <<claims, supported, citations, total, entailed>>
      BY <2>1 DEF Filter, Validate, vars
    <3> QED
      BY <3>1 DEF Contract!contractVars, Finished, Result
  <2>2. CASE Synthesize
    <3>1. /\ given' = given /\ pc = "synthesize"
          /\ pc' \in {"insufficient_evidence", "validate"}
      BY <2>2 DEF Synthesize
    <3> QED
      BY <3>1 DEF Contract!contractVars, Finished, Contract!Abstain, Contract!Next
  <2>3. CASE Conclude
    <3>1. /\ pc = "validate" /\ UNCHANGED <<given, claims, supported, citations,
                                            total, entailed>>
          /\ \/ pc' = "insufficient_evidence"
             \/ pc' = "grounded" /\ supported # <<>>
      BY <2>3 DEF Conclude, tallies
    <3>2. CASE pc' = "insufficient_evidence"
      BY <3>1, <3>2 DEF Finished, Contract!Abstain, Contract!Next
    <3>3. CASE pc' = "grounded"
      <4>1. /\ Len(supported) \in Nat \ {0} /\ Len(verdicts) \in Nat
            /\ Len(claims) \in Nat /\ total \in Nat /\ entailed \in Nat
        BY <3>1, <3>3 DEF IInv, TypeOK
      <4>2. /\ Len(supported) <= Len(verdicts) /\ Len(verdicts) <= Len(claims)
            /\ Len(claims) <= MaxClaims
            /\ Len(supported) <= entailed /\ entailed <= total
            /\ entailed = Len(citations)
            /\ total <= Len(verdicts) * MaxCites
        BY DEF IInv, CountsInv, ClaimsInv
      <4>3. Len(verdicts) * MaxCites <= MaxClaims * MaxCites
        <5>1. PICK d \in Nat : MaxClaims = Len(verdicts) + d
          <6>1. /\ MaxClaims - Len(verdicts) \in Nat
                /\ MaxClaims = Len(verdicts) + (MaxClaims - Len(verdicts))
            BY <4>1, <4>2, BoundsAreNatural
          <6> QED
            BY <6>1
        <5>2. MaxClaims * MaxCites = Len(verdicts) * MaxCites + d * MaxCites
          BY <4>1, <5>1, BoundsAreNatural
        <5>3. d * MaxCites \in Nat /\ Len(verdicts) * MaxCites \in Nat
          BY <4>1, BoundsAreNatural
        <5> QED
          BY <5>2, <5>3
      <4>4. Len(verdicts) * MaxCites \in Nat /\ MaxClaims * MaxCites \in Nat
        BY <4>1, BoundsAreNatural
      <4>5. /\ Len(claims) \in 1 .. MaxClaims
            /\ total \in 1 .. MaxClaims * MaxCites
            /\ Len(supported) \in 1 .. Len(claims)
            /\ entailed \in 1 .. total
        BY <4>1, <4>2, <4>3, <4>4, BoundsAreNatural
      <4>6. Len(given) > 0
        <5>1. evidence # <<>> /\ evidence \in Seq(Chunks) /\ Len(given) \in Nat
          BY <3>1 DEF IInv, TypeOK, PhaseInv
        <5>2. 1 \in 1 .. Len(evidence)
          BY <5>1
        <5> QED
          BY <5>1, <5>2 DEF IInv, EvidenceInv
      <4>7. Contract!Ground
        BY <3>1, <3>3, <4>2, <4>5, <4>6 DEF Contract!Ground, Finished, Result
      <4> QED
        BY <4>7 DEF Contract!Next
    <3> QED
      BY <3>1, <3>2, <3>3
  <2>4. CASE Abandon
    <3>1. /\ pc \in {"synthesize", "validate"} /\ pc' = "abandoned"
          /\ given' = given
          /\ evidence # <<>>
      BY <2>4 DEF Abandon, IInv, PhaseInv
    <3>2. Len(given) > 0
      <4>1. evidence \in Seq(Chunks) /\ Len(given) \in Nat
        BY DEF IInv, TypeOK
      <4>2. 1 \in 1 .. Len(evidence)
        BY <3>1, <4>1
      <4> QED
        BY <4>1, <4>2 DEF IInv, EvidenceInv
    <3> QED
      BY <3>1, <3>2 DEF Finished, Contract!Abandon, Contract!Next
  <2> QED
    BY <2>1, <2>2, <2>3, <2>4 DEF Next
<1>3. Spec => []IInv
  BY Invariance
<1> QED
  BY <1>1, <1>2, <1>3, PTL DEF Spec, ImplementsAnswerContract, Contract!Spec

----------------------------------------------------------------------------
(* The verifier over a structured call *)

\* Whatever the structured call goes through (complete_structured), the verifier
\* that waits for it in SynthesisAgent.synthesize takes only steps of
\* AnswerVerification: what is proved of Spec holds of SynthesisSpec.
THEOREM SynthesisImplements == SynthesisSpec => Spec
<1>1. SynthesisInit => Init
  BY DEF SynthesisInit
<1>2. [SynthesisNext]_synthesisVars => [Next]_vars
  BY DEF SynthesisNext, synthesisVars, FilterThenAsk, Call, TakeClaims,
     LoseCall, CheckClaims, Next
<1> QED
  BY <1>1, <1>2, PTL DEF SynthesisSpec, Spec

=============================================================================
