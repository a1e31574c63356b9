-------------------------- MODULE UpstreamFigures --------------------------
(***************************************************************************)
(* What the gateway remembers of the figures upstream accounts report: the *)
(* included monthly usage, the account credit and the monthly limit of a   *)
(* key (openai_compatible_gateway.py), and whether a model of Ollama can   *)
(* think (copilot_compat.py).  All four read the clock, look in the cache, *)
(* await the upstream and store what it said until that clock plus TTL, so *)
(* readers that miss together all ask, and the last to be answered is kept. *)
(*                                                                         *)
(* Instants are ages up to TTL.                                            *)
(***************************************************************************)
EXTENDS Integers

CONSTANTS
    Readers,
    Figures, KeepsFailures,  \* the figures, and those whose failure is kept too
    TTL,                     \* _USAGE_CACHE_TTL_SEC
    Timeout,                 \* bounds the wait for the upstream
    NoFigure

ASSUME FiguresAssumption ==
    /\ KeepsFailures \subseteq Figures /\ NoFigure \notin Figures
    /\ TTL \in Nat \ {0} /\ Timeout \in Nat

VARIABLES
    cached,  \* of a figure: the age of its stamp; history: since its fetch began
    reader   \* where a reader is, and the figure it was shown

figureVars == <<cached, reader>>

Absent == [stamp |-> TTL, began |-> TTL]
Rest   == [at |-> "rest", figure |-> NoFigure, since |-> 0, hit |-> FALSE]

AgedTo(age, cap) == IF age < cap THEN age + 1 ELSE age

\* A fresh figure is shown; else the reader asks the upstream.
Read(r, f) ==
    /\ reader[r].at = "rest"
    /\ reader' = [reader EXCEPT ![r] =
            IF cached[f].stamp < TTL
            THEN [at |-> "shown", figure |-> f, since |-> cached[f].began, hit |-> TRUE]
            ELSE [at |-> "asking", figure |-> f, since |-> 0, hit |-> FALSE]]
    /\ UNCHANGED cached

\* Mutant: the clock is read when the upstream has answered.
StampsAnswer(f, since) == [cached EXCEPT ![f] = [stamp |-> 0, began |-> since]]

\* now + TTL, where now was read before the wait
Stamps(f, since) == [cached EXCEPT ![f] = [stamp |-> since, began |-> since]]

\* supports_thinking keeps what it concludes from an error, the others do not.
Keeps(f, known) == known \/ f \in KeepsFailures

\* A figure, a failure that is kept as one, or nothing to show
Answered(r) ==
    LET f == reader[r].figure
    IN  /\ reader[r].at = "asking"
        /\ \E known \in BOOLEAN :
            /\ reader' = [reader EXCEPT ![r] =
                    IF known THEN [at |-> "shown", figure |-> f, since |-> @.since, hit |-> FALSE] ELSE Rest]
            /\ cached' = IF Keeps(f, known) THEN Stamps(f, reader[r].since) ELSE cached

ReaderLeaves(r) ==
    /\ reader[r].at = "asking" /\ reader' = [reader EXCEPT ![r] = Rest]
    /\ UNCHANGED cached

FigureSeen(r) ==
    /\ reader[r].at = "shown" /\ reader' = [reader EXCEPT ![r] = Rest]
    /\ UNCHANGED cached

FiguresTick ==
    /\ \A r \in Readers : reader[r].at = "asking" => reader[r].since < Timeout
    /\ cached' = [f \in Figures |-> [stamp |-> AgedTo(cached[f].stamp, TTL), began |-> AgedTo(cached[f].began, TTL)]]
    /\ reader' = [r \in Readers |-> IF reader[r].at = "asking" THEN [reader[r] EXCEPT !.since = @ + 1] ELSE reader[r]]

FiguresInit ==
    /\ cached = [f \in Figures |-> Absent]
    /\ reader = [r \in Readers |-> Rest]

FiguresNext ==
    \/ \E r \in Readers : \/ \E f \in Figures : Read(r, f)
                          \/ Answered(r) \/ ReaderLeaves(r) \/ FigureSeen(r)
    \/ FiguresTick

FiguresSpec == FiguresInit /\ [][FiguresNext]_figureVars

-----------------------------------------------------------------------------

FiguresTypeOK ==
    /\ \A f \in Figures : cached[f].stamp \in Nat /\ cached[f].began \in Nat
    /\ reader \in [Readers -> [at : {"rest", "asking", "shown"}, figure : Figures \cup {NoFigure},
                               since : Nat, hit : BOOLEAN]]

\* A figure shown from the cache was asked of the upstream less than TTL ago,
\* however long that answer took and however many readers asked meanwhile.
FigureFresh ==
    \A r \in Readers : reader[r].at = "shown" /\ reader[r].hit => reader[r].since < TTL

=============================================================================
