--------------------------- MODULE ModelDocuments ---------------------------
(***************************************************************************)
(* The model documents: a teacher's Router Model Template and the Session  *)
(* Chat Language Models of the sittings (portal_use_case.py,               *)
(* router_repository_base.py), with what a save does to a document         *)
(* (domain/session_model_allowlist.py) and what it refuses                 *)
(* (domain/auto_tier_save_check.py).                                       *)
(*                                                                         *)
(* A save reads the stored document, checks the new one against it and the *)
(* decisions list of the Upstream Model Catalog, and writes it in another  *)
(* transaction; an edit by allowlist reads once more, just before it       *)
(* writes.  Several servers serve one database, so the edits of a template *)
(* and a sitting overlap; a server may stop at any of these steps.         *)
(*                                                                         *)
(* Course catalogs, names and prices of a model are left out.              *)
(***************************************************************************)
EXTENDS Integers, SequencesExt, Arrangements

CONSTANTS
    Sittings, TierIds,
    Drafts,      \* the documents teachers bring
    Files,       \* the model lists they upload
    DecisionIds, \* the Model IDs the decisions list may show
    Starter,     \* config/chatLanguageModels.vans.json
    Editors,     \* requests that may be under way at once
    Missing      \* no document; no tier

TierCountMin == 2
TierCountMax == 6

\* A model of a document: its id, the shelf flags it carries, its autoTier
ModelEntry == [id : {e.id : e \in UNION {ToSet(d.models) : d \in Drafts \cup Files \cup {Starter}}},
               flags : SUBSET {"decision", "image"}, tier : TierIds \cup {Missing}]

\* A document: its models in order, its Auto Tiers, its selector shelf
DocumentSet == [models : Seq(ModelEntry), tiers : SUBSET TierIds,
                selector : SUBSET UNION {d.selector : d \in Drafts \cup Files \cup {Starter}}]
DocumentOf(models, tiers, selector) == [models |-> models, tiers |-> tiers, selector |-> selector]

ASSUME DocumentsAssumption ==
    /\ Missing \notin TierIds \cup DocumentSet
    /\ Drafts \cup Files \cup {Starter} \subseteq DocumentSet
    /\ Starter.selector = {} /\ \A e \in ToSet(Starter.models) : e.flags = {} /\ e.tier = Missing
    /\ IsInjective([i \in DOMAIN Starter.models |-> Starter.models[i].id])

VARIABLES
    template,   \* the teacher's Router Model Template
    sitting,    \* the document of each sitting
    decisions,  \* the decisions list as the catalog shows it
    edit,       \* what each request is about to do
    \* history, read by no action
    shown       \* every Model ID the decisions list ever showed

documentVars == <<template, sitting, decisions, edit, shown>>

-----------------------------------------------------------------------------
(* Documents                                                               *)

ModelIds(d) == {e.id : e \in ToSet(d.models)}
Text(d)     == {e \in ToSet(d.models) : e.flags = {}}

\* The first entry of a Model ID counts.
Distinct(models) ==
    At(models, {i \in DOMAIN models : \A j \in 1 .. i - 1 : models[j].id # models[i].id})

\* enforce_single_shelf refuses a model on two shelves.
Normalizable(d) == \A e \in ToSet(Distinct(d.models)) : Cardinality(e.flags) <= 1

Untiered(e) == [e EXCEPT !.tier = Missing]
EachModel(d, Op(_)) == [d EXCEPT !.models = [i \in DOMAIN d.models |-> Op(d.models[i])]]

\* Only text models keep a tier.
Normalized(d) ==
    EachModel([d EXCEPT !.models = Distinct(@)], LAMBDA e : IF e.flags = {} THEN e ELSE Untiered(e))

\* The starter as a sitting receives it
WithoutAutoTiers(d) == EachModel([d EXCEPT !.tiers = {}], Untiered)

\* filter_chat_language_models: the other shelves stay.
Filtered(d, ids) ==
    [d EXCEPT !.models = At(@, {i \in DOMAIN @ : @[i].id \in ids \/ @[i].flags # {}})]

TiersAllowed(tiers) == tiers = {} \/ Cardinality(tiers) \in TierCountMin..TierCountMax

\* Mutant: only what the save adds needs a tier.
AcceptsOldUntiered(d, stored, listed) ==
    /\ TiersAllowed(d.tiers)
    /\ \A e \in Text(d) : e.tier \in d.tiers \cup {Missing}
    /\ d.selector \ stored.selector \subseteq listed
    /\ d.selector # {} => \A e \in Text(d) \ Text(stored) : e.tier # Missing

\* check_auto_tier_document.  What the stored document has on the selector
\* shelf stays accepted when the list no longer shows it.
Accepts(d, stored, listed) ==
    /\ TiersAllowed(d.tiers)
    /\ \A e \in Text(d) : e.tier \in d.tiers \cup {Missing}
    /\ d.selector \ stored.selector \subseteq listed
    /\ d.selector # {} => \A e \in Text(d) : e.tier # Missing

\* uploaded_model_document: the file's models are text models, with the tiers
\* that exist; its tiers replace the draft's unless it says nothing of tiers, and
\* its selector shelf is never taken.
Uploaded(draft, file, tiers) ==
    LET flat == EachModel([file EXCEPT !.models = Distinct(@)], LAMBDA e : [e EXCEPT !.flags = {}])
    IN  DocumentOf(EachModel(flat, LAMBDA e : IF e.tier \in tiers THEN e ELSE Untiered(e)).models,
                   tiers, draft.selector)

\* What the editor sends: a draft, or a draft after the upload of a file
Sent ==
    Drafts \cup UNION {
        {Uploaded(p[1], p[2], tiers) : tiers \in {t \in {p[1].tiers, p[2].tiers} : t = p[2].tiers \/ p[2].tiers = {}}} :
            p \in {q \in Drafts \X Files : Normalizable(q[1]) /\ TiersAllowed(q[2].tiers)}}

-----------------------------------------------------------------------------
(* Editing                                                                 *)

Targets == Sittings \cup {"template"}
StoredFor(t) == IF t = "template" THEN template ELSE sitting[t]

NoEdit == [at |-> "rest"]
ToWrite(t, d) == [at |-> "writing", target |-> t, document |-> d]
Begins(e, next) == edit[e] = NoEdit /\ edit' = [edit EXCEPT ![e] = next]

\* save_router_model_template and update_session: read, check
BeginSave(e, t, d) ==
    /\ StoredFor(t) # Missing
    /\ Normalizable(d) /\ Accepts(Normalized(d), StoredFor(t), decisions)
    /\ Begins(e, ToWrite(t, Normalized(d)))
    /\ UNCHANGED <<template, sitting, decisions, shown>>

\* update_session with an allowlist: validate_allowlist against what is stored
BeginAllowlist(e, s, ids) ==
    /\ sitting[s] # Missing /\ ids \subseteq ModelIds(sitting[s])
    /\ Begins(e, [at |-> "filtering", target |-> s, ids |-> ids])
    /\ UNCHANGED <<template, sitting, decisions, shown>>

\* update_class_session reads the document it filters.
ReadToFilter(e) ==
    /\ edit[e].at = "filtering"
    /\ edit' = [edit EXCEPT ![e] = ToWrite(@.target, Filtered(sitting[@.target], @.ids))]
    /\ UNCHANGED <<template, sitting, decisions, shown>>

\* create_class_session copies the owner's template, which it creates from the
\* starter when there is none.
BeginCreate(e, s) ==
    /\ sitting[s] = Missing /\ \A o \in Editors : edit[o].at = "writing" => edit[o].target # s
    /\ template' = IF template = Missing THEN Starter ELSE template
    /\ Begins(e, ToWrite(s, template'))
    /\ UNCHANGED <<sitting, decisions, shown>>

\* A teacher's template is created when it is first read.
EnsureTemplate ==
    /\ template = Missing /\ template' = Starter
    /\ UNCHANGED <<sitting, decisions, edit, shown>>

Write(e) ==
    /\ edit[e].at = "writing"
    /\ IF edit[e].target = "template"
       THEN template' = edit[e].document /\ sitting' = sitting
       ELSE /\ sitting' = [sitting EXCEPT ![edit[e].target] = edit[e].document]
            /\ template' = template
    /\ edit' = [edit EXCEPT ![e] = NoEdit]
    /\ UNCHANGED <<decisions, shown>>

\* The server stops, or the transaction is rolled back.
EditFails(e) ==
    /\ edit[e] # NoEdit /\ edit' = [edit EXCEPT ![e] = NoEdit]
    /\ UNCHANGED <<template, sitting, decisions, shown>>

\* A round of the catalog: any list may be shown.
CatalogShows(listed) ==
    /\ decisions' = listed /\ shown' = shown \cup listed
    /\ UNCHANGED <<template, sitting, edit>>

\* A sitting that was stored without a document received the starter at start.
DocumentsInit ==
    /\ template \in {Missing, Starter}
    /\ sitting \in [Sittings -> {Missing, WithoutAutoTiers(Starter)}]
    /\ decisions = {} /\ shown = {}
    /\ edit = [e \in Editors |-> NoEdit]

DocumentsNext ==
    \/ \E e \in Editors :
        \/ \E t \in Targets, d \in Sent : BeginSave(e, t, d)
        \/ \E s \in Sittings : \E ids \in SUBSET ModelIds(Starter) : BeginAllowlist(e, s, ids)
        \/ \E s \in Sittings : BeginCreate(e, s)
        \/ ReadToFilter(e) \/ Write(e) \/ EditFails(e)
    \/ EnsureTemplate
    \/ \E listed \in SUBSET DecisionIds : CatalogShows(listed)

DocumentsSpec == DocumentsInit /\ [][DocumentsNext]_documentVars

-----------------------------------------------------------------------------

DocumentsTypeOK ==
    /\ template \in DocumentSet \cup {Missing} /\ sitting \in [Sittings -> DocumentSet \cup {Missing}]
    /\ decisions \subseteq shown
    /\ \A e \in Editors : edit[e].at \in {"rest", "filtering", "writing"}

\* Whatever edits overlap and whatever the decisions list shows by now, what is
\* stored for a template or a sitting could be saved again as it is: every tier
\* a model names exists, a document that selects gives every text model a tier,
\* no Model ID is there twice or on two shelves; and each Model ID of its
\* selector shelf was on the decisions list once.
StoredDocumentsHold ==
    \A t \in Targets : StoredFor(t) # Missing =>
        LET d == StoredFor(t)
        IN  /\ \A e \in Text(d) : e.tier \in d.tiers \cup {Missing}
            /\ d.selector # {} => \A e \in Text(d) : e.tier # Missing
            /\ Cardinality(ModelIds(d)) = Len(d.models)
            /\ \A e \in ToSet(d.models) : Cardinality(e.flags) <= 1
            /\ d.selector \subseteq shown
=============================================================================
