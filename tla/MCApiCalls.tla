----------------------------- MODULE MCApiCalls -----------------------------
(* A classroom key and a personal key over two documents.                   *)
EXTENDS ApiCalls, TLC

CONSTANTS c1, c2, kc, kp, m1, m2, m3, lo, hi, q1

Symmetry == Permutations(Calls)

TierNames == <<lo, hi>>

NoTiers == m1 :> None @@ m2 :> None @@ m3 :> None
Bare    == [s \in Shelves |-> <<>>]

\* Two tiers and a Model ID without one; two documents without tiers that have
\* the other shelves.
Tiered == [text |-> <<m1, m2, m3>>, tierOf |-> (m1 :> lo @@ m2 :> None @@ m3 :> hi),
           edition |-> 1, selector |-> TRUE, shelf |-> Bare]
Heard  == [text |-> <<m2>>, tierOf |-> NoTiers, edition |-> 2, selector |-> FALSE,
           shelf |-> [Bare EXCEPT !["transcription"] = <<m1>>, !["speech"] = <<m3>>]]
Drawn  == [text |-> <<>>, tierOf |-> NoTiers, edition |-> 2, selector |-> FALSE,
           shelf |-> [Bare EXCEPT !["image"] = <<m1>>, !["embeddings"] = <<m2>>, !["decision"] = <<m3>>]]
ThreeDocuments == {Tiered, Heard, Drawn}

Called == {ChatCompletions, Responses, Images, Embeddings, Speech, Transcriptions, Decisions, Realtime}
Mixed  == {ChatCompletions, Realtime}

\* Two calls of a mix of endpoints, or one call of any
TwoMixed ==
    /\ \A c \in Calls : call'[c].end \in Mixed \cup {None}
    /\ \A k \in Keys : doc'[k] # Drawn
OneOfAll == Cardinality({c \in Calls : call'[c] # Idle}) <= 1
=============================================================================
