-------------------------- MODULE MCModelDocuments --------------------------
(* The documents teachers bring, over two Model IDs and two tiers.          *)
EXTENDS ModelDocuments, TLC

CONSTANTS d1, d2, easy, hard

Entry(id, flags, tier) == [id |-> id, flags |-> flags, tier |-> tier]

Shipped == DocumentOf(<<Entry(d1, {}, Missing), Entry(d2, {}, Missing)>>, {easy, hard}, {})

\* A document that selects, with a decision model that has a tier; two with a text
\* model without tier, of which one selects; one with a model on two shelves.
Brought == {
    DocumentOf(<<Entry(d1, {}, easy), Entry(d2, {"decision"}, hard)>>, {easy, hard}, {d2}),
    DocumentOf(<<Entry(d1, {}, Missing), Entry(d2, {}, hard)>>, {easy, hard}, {}),
    DocumentOf(<<Entry(d1, {}, Missing), Entry(d2, {}, hard)>>, {easy, hard}, {d2}),
    DocumentOf(<<Entry(d1, {"decision", "image"}, Missing)>>, {}, {})}

\* A file with a Model ID twice, a tier that does not exist and a selector shelf.
FromDisk == {DocumentOf(<<Entry(d1, {"image"}, easy), Entry(d1, {}, Missing)>>, {}, {d1})}
=============================================================================
