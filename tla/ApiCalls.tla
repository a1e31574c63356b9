------------------------------ MODULE ApiCalls ------------------------------
(***************************************************************************)
(* The calls under /v1 (presentation/fastapi/routers/api_router.py,        *)
(* application/use_cases/api_use_case.py) from the check of the key to the *)
(* rows a call leaves behind, with the vcr-auto Selector                   *)
(* (application/vcr_auto_selector.py), the memory of its choices           *)
(* (application/vcr_auto_selection_memory.py) and the order it gives the   *)
(* walk (domain/auto_tier.py).                                             *)
(*                                                                         *)
(* Everything between two awaits is one step.  A call reads the key, the   *)
(* sitting's document, its Classroom Model Choice and its logging switch   *)
(* at different steps, while teachers save documents, keys start and end   *)
(* and streams wait to be opened.  How a walk gets a slot is VcrAutoWalk's *)
(* concern: here it ends with one of its Model IDs or with a refusal.      *)
(***************************************************************************)
EXTENDS Integers, SequencesExt, Arrangements

CONSTANTS
    Calls,
    Keys, Personal,   \* the API keys, and which of them are Personal API Keys
    Models, VcrAuto,  \* the Model IDs, and vcr-auto
    Tiers,            \* the Auto Tiers, weakest first
    Documents,        \* the model documents a teacher may save
    Endpoints,        \* which of the endpoints below are called
    Questions,        \* last user messages
    MaxEdits,         \* bounds what teachers change
    MaxFaults,        \* bounds the failures of the database
    None

Shelves == {"image", "embeddings", "speech", "transcription", "decision"}

\* A document: its text shelf in order, the tier of a text Model ID, the
\* version of the tiers' names and descriptions, whether it has a selector
\* shelf, and its other shelves.
DocumentType ==
    [text : Seq(Models), tierOf : [Models -> {Tiers[i] : i \in DOMAIN Tiers} \cup {None}],
     edition : Nat, selector : BOOLEAN, shelf : [Shelves -> Seq(Models)]]

\* normalize_session_chat_language_models: no Model ID twice, none on two shelves
OnOneShelf(d) ==
    /\ IsInjective(d.text) /\ \A s \in Shelves : IsInjective(d.shelf[s]) /\ ToSet(d.text) \cap ToSet(d.shelf[s]) = {}
    /\ \A s, t \in Shelves : s # t => ToSet(d.shelf[s]) \cap ToSet(d.shelf[t]) = {}

ASSUME ApiAssumption ==
    /\ Personal \subseteq Keys /\ VcrAuto \notin Models
    /\ Tiers \in Seq({Tiers[i] : i \in DOMAIN Tiers})
    /\ None \notin Models \cup {Tiers[i] : i \in DOMAIN Tiers} \cup {"ok", "rejected"}
    /\ Documents \subseteq DocumentType /\ \A d \in Documents : OnOneShelf(d)
    /\ MaxEdits \in Nat /\ MaxFaults \in Nat

-----------------------------------------------------------------------------
(* The endpoints: the shelf a call is served from, whether it may stream,  *)
(* where its model is checked, and when it is logged and counted.          *)

Endpoint(shelf, streams, checks, logged) ==
    [shelf |-> shelf, streams |-> streams, checks |-> checks, logged |-> logged]

ChatCompletions == Endpoint("text", BOOLEAN, {"route", "call"}, "answered")
Responses       == Endpoint("text", BOOLEAN, {"route", "call"}, "answered")
Images          == Endpoint("image", BOOLEAN, {"call"}, "answered")
Embeddings      == Endpoint("embeddings", {FALSE}, {"call"}, "answered")
Speech          == Endpoint("speech", {TRUE}, {"route"}, "answered")
Transcriptions  == Endpoint("transcription", BOOLEAN, {"route"}, "answered")
Decisions       == Endpoint("decision", {FALSE}, {"call"}, "never")
\* The websocket: it is logged when it was opened, however it ends.
Realtime        == Endpoint("transcription", {FALSE}, {"call"}, "opened")

ASSUME EndpointsAssumption ==
    Endpoints \subseteq {ChatCompletions, Responses, Images, Embeddings, Speech,
                         Transcriptions, Decisions, Realtime}

VARIABLES
    key,        \* "early", "live" or "ended"
    doc,        \* the document behind a key: its sitting's, or its holder's template
    choice,     \* the sittings' Classroom Model Choice
    logging,    \* their prompt-logging switch
    memory,     \* the tier remembered for a key, a question and a set of tiers
    call,       \* the calls
    usage,      \* the Model IDs of the Token Usage rows a call has left
    log,        \* the status of its Prompt Log
    edits, faults,
    \* history, read by no action
    asked,      \* the tiers used for a key, a question and a set of tiers
    excused     \* those asked for twice at a time

apiVars == <<key, doc, choice, logging, memory, call, usage, log, edits, faults, asked, excused>>
settings == <<key, doc, choice, logging, edits>>
rows     == <<usage, log, faults>>

Held(k) == k \in Personal
ChoiceOf(k) == IF Held(k) THEN "automatic" ELSE choice

-----------------------------------------------------------------------------
(* Access                                                                  *)

Shelf(k, s) == ToSet(IF s = "text" THEN doc[k].text ELSE doc[k].shelf[s])

\* A Personal API Key: _assert_holder_shelf
HolderMay(k, s, m) == Shelf(k, s) # {} /\ m \in Shelf(k, s) \cup {VcrAuto}

\* choice_accepts_model
ChoiceAccepts(m, shelf) ==
    CASE choice = "automatic" -> m = VcrAuto
      [] choice = "picked"    -> m \in shelf
      [] OTHER                -> m \in shelf \cup {VcrAuto}

\* _assert_model_allowed, for a Classroom API Key
TextAllowed(k, m) ==
    /\ ChoiceAccepts(m, Shelf(k, "text"))
    /\ IF m = VcrAuto THEN Shelf(k, "text") # {}
       ELSE m \in Shelf(k, "text") /\ m \notin Shelf(k, "decision")

\* _assert_shelf_allowed and _assert_classroom_decision_allowed
ShelfAllowed(k, s, m) ==
    /\ Shelf(k, s) # {} /\ ChoiceAccepts(m, Shelf(k, s))
    /\ m \in Shelf(k, s) \cup {VcrAuto}

Allowed(k, s, m) ==
    IF Held(k) THEN HolderMay(k, s, m)
    ELSE IF s = "text" THEN TextAllowed(k, m)
    ELSE ShelfAllowed(k, s, m)

\* The model lists of a key: models, images_models, _shelf_student_list
ListedTo(k, s) ==
    IF Shelf(k, s) = {} /\ (Held(k) \/ s \in {"image", "embeddings"}) THEN {}
    ELSE IF Held(k) THEN Shelf(k, s) \cup {VcrAuto}
    ELSE IF choice = "picked" THEN Shelf(k, s)
    ELSE {VcrAuto}

-----------------------------------------------------------------------------
(* Auto Tiers                                                              *)

TierSet == ToSet(Tiers)
Rank(t) == CHOOSE i \in DOMAIN Tiers : Tiers[i] = t

\* The tiers vcr-auto selection chooses among; none when it would not run.
SelectionTiers(d, ch) ==
    LET used == {d.tierOf[m] : m \in ToSet(d.text)} \ {None}
    IN  IF ch = "automatic" /\ d.selector /\ Cardinality(used) >= 2 THEN used ELSE {}

\* The strongest tier with probability >= 0.2, else the selector's own choice
StrongestPlausible(tiers, plausible, own) ==
    IF plausible # {} THEN CHOOSE t \in plausible : \A u \in plausible : Rank(u) <= Rank(t)
    ELSE IF own \in tiers THEN own ELSE None

\* The place of tier u in a walk by tier t: t itself, stronger tiers weakest first,
\* weaker ones strongest first, then the Model IDs without a tier.
Turn(u, t) ==
    IF u = None THEN Len(Tiers)
    ELSE IF Rank(u) >= Rank(t) THEN Rank(u) - Rank(t)
    ELSE Len(Tiers) - Rank(u)

\* The text shelf by the turn of its tiers, each tier in shelf order
TierOrderedWalk(d, t) ==
    LET P       == DOMAIN d.text
        turn(i) == Turn(d.tierOf[d.text[i]], t)
    IN  Arranged(d.text, P,
                 {p \in P \X P : turn(p[1]) < turn(p[2]) \/ (turn(p[1]) = turn(p[2]) /\ p[1] < p[2])})

\* What a choice is remembered for: the key, the question and the tiers
MemoryKey(k, q, d) == <<k, q, d.edition>>
MemoryKeys == {MemoryKey(k, q, d) : k \in Keys, q \in Questions, d \in Documents}

-----------------------------------------------------------------------------
(* A call                                                                  *)

Idle == [at |-> "idle", key |-> None, end |-> None, stream |-> FALSE, model |-> None,
         question |-> None, document |-> None, walk |-> <<>>, answered |-> None, kept |-> FALSE]

\* A call is over: how the client sees it, and what the properties ask of it.
Over(r, how) == [Idle EXCEPT !.at = how, !.end = r.end, !.answered = r.answered, !.kept = r.kept]

Serving(r, ids) == [r EXCEPT !.at = "serving", !.walk = ids]

\* The body of the use case up to its first await: a named Model ID is called,
\* a shelf is walked in order, and a text walk is ordered by a tier, remembered
\* or yet to be asked for.
Begun(r) ==
    LET d     == doc[r.key]
        tiers == SelectionTiers(d, ChoiceOf(r.key))
        known == memory[MemoryKey(r.key, r.question, d)]
    IN  IF r.model # VcrAuto THEN Serving(r, <<r.model>>)
        ELSE IF r.end.shelf # "text" THEN Serving(r, d.shelf[r.end.shelf])
        ELSE IF tiers = {} THEN Serving([r EXCEPT !.document = d], d.text)
        ELSE IF known # None THEN Serving([r EXCEPT !.document = d], TierOrderedWalk(d, known))
        ELSE [r EXCEPT !.at = "asking", !.document = d]

\* Whether Begun uses a remembered tier
Recalls(r) ==
    /\ r.model = VcrAuto /\ r.end.shelf = "text"
    /\ SelectionTiers(doc[r.key], ChoiceOf(r.key)) # {}
    /\ memory[MemoryKey(r.key, r.question, doc[r.key])] # None

Uses(c, t, mk) == asked' = [asked EXCEPT ![mk] = @ \cup {t}]

Asking(mk) ==
    {c \in Calls : call[c].at = "asking" /\ MemoryKey(call[c].key, call[c].question, call[c].document) = mk}

Starts(c, r) ==
    LET mk == MemoryKey(r.key, r.question, doc[r.key])
    IN  /\ call' = [call EXCEPT ![c] = Begun(r)]
        /\ IF Recalls(r) THEN Uses(c, memory[mk], mk) ELSE asked' = asked
        /\ excused' = IF Begun(r).at = "asking" /\ Asking(mk) # {} THEN excused \cup {mk} ELSE excused

Refuses(c, r) ==
    /\ call' = [call EXCEPT ![c] = Over(r, "refused")]
    /\ UNCHANGED <<asked, excused>>

\* The stream will be opened when its response is sent.
Waits(c, r) ==
    /\ call' = [call EXCEPT ![c] = [r EXCEPT !.at = "opening"]]
    /\ UNCHANGED <<asked, excused>>

\* The middleware verifies the key; the route, or the use case in the same
\* step, checks the model.  A stream's body runs when the response is sent.
Arrive(c, k, e, stream, m, q) ==
    LET r == [Idle EXCEPT !.key = k, !.end = e, !.stream = stream, !.model = m, !.question = q,
                          !.kept = TRUE]
        checked == ~stream \/ "route" \in e.checks
    IN  /\ call[c].at = "idle" /\ stream \in e.streams
        /\ IF key[k] # "live" \/ (checked /\ ~Allowed(k, e.shelf, m)) THEN Refuses(c, r)
           ELSE IF stream THEN Waits(c, r)
           ELSE Starts(c, r)
        /\ UNCHANGED <<settings, memory, rows>>

Open(c) ==
    LET r == call[c]
    IN  /\ r.at = "opening"
        /\ IF "call" \in r.end.checks /\ ~Allowed(r.key, r.end.shelf, r.model)
           THEN Refuses(c, r) ELSE Starts(c, r)
        /\ UNCHANGED <<settings, memory, rows>>

\* Mutant: the choice is not remembered.
RemembersNothing(mk, t) == memory

Remembers(mk, t) == IF t = None THEN memory ELSE [memory EXCEPT ![mk] = t]

\* The selector answers; an error, an unreadable answer or 1.5 seconds mean no
\* tier, and the walk keeps document order.
Selected(c) ==
    LET r     == call[c]
        d     == r.document
        mk    == MemoryKey(r.key, r.question, d)
        tiers == SelectionTiers(d, "automatic")
    IN  /\ r.at = "asking"
        /\ \E plausible \in SUBSET tiers, own \in tiers \cup {None} :
            LET t == StrongestPlausible(tiers, plausible, own)
            IN  /\ memory' = Remembers(mk, t)
                /\ call' = [call EXCEPT ![c] =
                        Serving(r, IF t = None THEN d.text ELSE TierOrderedWalk(d, t))]
                /\ IF t = None THEN asked' = asked ELSE Uses(c, t, mk)
        /\ UNCHANGED <<settings, rows, excused>>

-----------------------------------------------------------------------------
(* The end of a call, and what it leaves                                   *)

LogsPrompt(k) == Held(k) \/ logging

\* Mutant: the row names what was asked for.
CountedAsAsked(c, m) == [usage EXCEPT ![c] = Append(@, call[c].model)]

Counted(c, m) == [usage EXCEPT ![c] = Append(@, m)]
Logged(c, k, status) == IF LogsPrompt(k) THEN [log EXCEPT ![c] = status] ELSE log

Writing(u, l, failed) == [usage |-> u, log |-> l, failed |-> failed]
MayFail == faults < MaxFaults

\* Mutant: the Prompt Log is written first.
WritesLogFirst(c, k, m) ==
    IF key[k] = "live"
    THEN {Writing(Counted(c, m), Logged(c, k, "ok"), FALSE)}
         \cup {Writing(usage, l, TRUE) : l \in {x \in {log, Logged(c, k, "ok")} : MayFail}}
    ELSE {Writing(usage, Logged(c, k, "rejected"), FALSE)}

\* _log_prompt: the Token Usage first, when the key is still valid, then the
\* Prompt Log, unless the sitting's logging is off.  Either write may fail, and
\* the client then gets an error.
Writes(c, k, m) ==
    LET status == IF key[k] = "live" THEN "ok" ELSE "rejected"
        row    == IF status = "ok" THEN Counted(c, m) ELSE usage
        broken == (IF status = "ok" THEN {usage} ELSE {}) \cup (IF LogsPrompt(k) THEN {row} ELSE {})
    IN  {Writing(row, Logged(c, k, status), FALSE)} \cup {Writing(u, log, TRUE) : u \in {x \in broken : MayFail}}

\* The upstream answered in full, or the socket was open: the call is logged.
Settles(c, m, how) ==
    LET r == [call[c] EXCEPT !.answered = m]
    IN  \E w \in Writes(c, r.key, m) :
            /\ usage' = w.usage /\ log' = w.log
            /\ faults' = IF w.failed THEN faults + 1 ELSE faults
            /\ call' = [call EXCEPT ![c] = Over(r, IF w.failed THEN "failed" ELSE how)]

\* A Model ID of the walk answers; the row names it, never vcr-auto.
Answers(c, m) ==
    /\ call[c].at = "serving" /\ m \in ToSet(call[c].walk) /\ call[c].end.logged # "never"
    /\ Settles(c, m, "ok")
    /\ UNCHANGED <<settings, memory, asked, excused>>

\* A decision leaves no rows.
Decides(c, m) ==
    /\ call[c].at = "serving" /\ m \in ToSet(call[c].walk) /\ call[c].end.logged = "never"
    /\ call' = [call EXCEPT ![c] = Over([call[c] EXCEPT !.answered = m], "ok")]
    /\ UNCHANGED <<settings, memory, rows, asked, excused>>

\* The walk is refused, the upstream errs or a stream breaks: nothing is logged.
\* So it is when the client leaves.
Fails(c) ==
    /\ call[c].at \in {"opening", "asking", "serving"}
    /\ call' = [call EXCEPT ![c] = Over(call[c], "failed")]
    /\ UNCHANGED <<settings, memory, rows, asked, excused>>

\* A websocket that was opened ends by an error or by a side that leaves.
SocketEnds(c, m) ==
    /\ call[c].at = "serving" /\ m \in ToSet(call[c].walk) /\ call[c].end.logged = "opened"
    /\ Settles(c, m, "failed")
    /\ UNCHANGED <<settings, memory, asked, excused>>

-----------------------------------------------------------------------------
(* What teachers, the clock and the other components change meanwhile      *)

Edits ==
    /\ edits < MaxEdits /\ edits' = edits + 1
    /\ UNCHANGED <<memory, rows, asked, excused>>

KeyStarts(k) ==
    /\ key[k] = "early" /\ key' = [key EXCEPT ![k] = "live"]
    /\ Edits /\ UNCHANGED <<doc, choice, logging, call>>

\* It expires, is disabled, or its class or sitting ends.
KeyEnds(k) ==
    /\ key[k] = "live" /\ key' = [key EXCEPT ![k] = "ended"]
    /\ call' = [c \in Calls |-> IF call[c].key = k THEN [call[c] EXCEPT !.kept = FALSE] ELSE call[c]]
    /\ Edits /\ UNCHANGED <<doc, choice, logging>>

SaveDocument(k, d) ==
    /\ d # doc[k] /\ doc' = [doc EXCEPT ![k] = d]
    /\ Edits /\ UNCHANGED <<key, choice, logging, call>>

SetChoice(ch) ==
    /\ ch # choice /\ choice' = ch
    /\ Edits /\ UNCHANGED <<key, doc, logging, call>>

SetLogging ==
    /\ logging' = ~logging
    /\ Edits /\ UNCHANGED <<key, doc, choice, call>>

\* A choice is forgotten after SELECTION_MEMORY_SECONDS.
Forgets(mk) ==
    /\ memory[mk] # None
    /\ memory' = [memory EXCEPT ![mk] = None]
    /\ asked' = [asked EXCEPT ![mk] = {}]
    /\ excused' = IF Asking(mk) = {} THEN excused \ {mk} ELSE excused
    /\ UNCHANGED <<settings, rows, call>>

ApiInit ==
    /\ key \in {f \in [Keys -> {"early", "live"}] : \A k \in Personal : f[k] = "live"} /\ doc \in [Keys -> Documents]
    /\ choice \in {"automatic", "picked", None} /\ logging \in BOOLEAN
    /\ memory = [mk \in MemoryKeys |-> None] /\ call = [c \in Calls |-> Idle]
    /\ usage = [c \in Calls |-> <<>>] /\ log = [c \in Calls |-> None]
    /\ edits = 0 /\ faults = 0
    /\ asked = [mk \in MemoryKeys |-> {}] /\ excused = {}

CallStep(c) ==
    \/ \E k \in Keys, e \in Endpoints, stream \in BOOLEAN, m \in Models \cup {VcrAuto}, q \in Questions :
            Arrive(c, k, e, stream, m, q)
    \/ Open(c)
    \/ Selected(c)
    \/ \E m \in Models : Answers(c, m) \/ Decides(c, m) \/ SocketEnds(c, m)
    \/ Fails(c)

SettingsStep ==
    \/ \E k \in Keys : KeyStarts(k) \/ KeyEnds(k)
    \/ \E k \in Keys, d \in Documents : SaveDocument(k, d)
    \/ \E ch \in {"automatic", "picked"} : SetChoice(ch)
    \/ SetLogging
    \/ \E mk \in MemoryKeys : Forgets(mk)

ApiNext == (\E c \in Calls : CallStep(c)) \/ SettingsStep

ApiSpec == ApiInit /\ [][ApiNext]_apiVars

-----------------------------------------------------------------------------
(* Properties                                                              *)

\* Types, and the guards of a call's fields.
ApiTypeOK ==
    /\ key \in [Keys -> {"early", "live", "ended"}] /\ doc \in [Keys -> Documents]
    /\ choice \in {"automatic", "picked", None} /\ logging \in BOOLEAN
    /\ memory \in [MemoryKeys -> TierSet \cup {None}]
    /\ \A c \in Calls :
        /\ call[c].at \in {"idle", "opening", "asking", "serving", "refused", "failed", "ok"}
        /\ call[c].at = "serving" => call[c].walk \in Seq(Models)
        /\ usage[c] \in Seq(Models) /\ log[c] \in {None, "ok", "rejected"}
    /\ edits \in 0..MaxEdits /\ faults \in 0..MaxFaults

\* A call leaves at most one Token Usage row, naming the Model ID that answered
\* it and never vcr-auto, and a call that was answered in full with a key that
\* stayed valid leaves that row.  A Prompt Log marked "ok" was counted; one
\* marked "rejected" belongs to a key that lapsed during the call.
CountedIfKept ==
    \A c \in Calls :
        /\ usage[c] \in {<<>>, <<call[c].answered>>}
        /\ call[c].at = "ok" /\ call[c].kept /\ call[c].end.logged # "never" => usage[c] # <<>>
        /\ log[c] = "ok" => usage[c] # <<>>
        /\ log[c] = "rejected" => usage[c] = <<>> /\ ~call[c].kept

\* The calls of one question under one set of tiers are walked by one tier,
\* unless two of them asked the selector at the same time.
OneTierPerQuestion == \A mk \in MemoryKeys \ excused : Cardinality(asked[mk]) <= 1

\* A text walk names every Model ID of the document's text shelf exactly once.
WalksWholeShelf ==
    \A c \in Calls : call[c].at = "serving" /\ call[c].document # None =>
        /\ ToSet(call[c].walk) = ToSet(call[c].document.text)
        /\ Len(call[c].walk) = Len(call[c].document.text)

\* Whatever the choice and the document, what a key's list names for a shelf
\* that is not empty may be called, and the list names something.
ListedMayBeCalled ==
    \A k \in Keys, s \in Shelves \cup {"text"} : Shelf(k, s) # {} =>
        /\ ListedTo(k, s) # {}
        /\ \A m \in ListedTo(k, s) : Allowed(k, s, m)

\* What vcr-auto offers and selects: the lists, the walks and the memory of
\* choices agree, while documents, choices and keys change between the reads.
SelectionSound == OneTierPerQuestion /\ WalksWholeShelf /\ ListedMayBeCalled

\* "Each successful router call writes one row" (docs/adr/0040).
ServedIsCounted ==
    \A c \in Calls : call[c].at = "ok" /\ call[c].end.logged # "never" => Len(usage[c]) = 1

=============================================================================
