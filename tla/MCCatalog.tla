------------------------------ MODULE MCCatalog ------------------------------
(* A seeded type, another release of it under the same id and one under the same   *)
(* version too, two drafts of one name (which share id and version) and a          *)
(* hand-made one of that version; the file of a draft, and one whose ref is not     *)
(* its type's.  The process starts from nothing, or from the hand-made type alone.  *)
EXTENDS Catalog, TLC

Type(id, ref, content) == [id |-> id, ref |-> ref, content |-> content, target |-> Default]
Seeded == Type("type_lead_finder_v0", "lead-finder@0.1.0", "leads")
DraftA == Type("type_tax_v0", "tax@0.1.0", "a")
DraftB == Type("type_tax_v0", "tax@0.1.0", "b")
HandMade == Type("type_tax", "tax@0.1.0", "c")
Bumped == Type("type_lead_finder_v0", "lead-finder@0.2.0", "leads")
Older == Type("type_lead_finder_v0", "lead-finder@0.1.0", "old leads")
File(type) == [ref |-> type.ref, type |-> type]
Astray == [ref |-> Seeded.ref, type |-> DraftB]
BuiltInTypes == {Seeded}
DraftTypes == {DraftA, DraftB, HandMade, Bumped, Older}
Files == {File(DraftA), Astray}
LeftBehind == {{}, {HandMade}}
EitherRequest == Permutations(Requests)
=============================================================================
