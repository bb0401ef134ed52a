---------------------------- MODULE StorageLayout ----------------------------
(***************************************************************************)
(* The storage slots of a contract's fields                                *)
(* (crates/covenant-evm-backend/src/storage.rs, and the reading of the     *)
(* annotation in covenant-ir/src/builder.rs).  @slot(n) pins a field to a  *)
(* slot, the others follow one another from the first slot on.  A field is *)
(* a declaration of the parser's.                                          *)
(***************************************************************************)
EXTENDS SequencesExt

CONSTANT MaxSlot   \* the last slot that can be named, 2^32 - 1

ASSUME SlotAssumption == MaxSlot \in Nat \ {0}

\* A part of a node that may be missing.
Maybe(node, h) == IF h \in DOMAIN node THEN node[h] ELSE <<>>

DEPLOYER_SLOT       == MaxSlot - 1
REENTRANT_LOCK_SLOT == MaxSlot
Reserved            == {DEPLOYER_SLOT, REENTRANT_LOCK_SLOT}

IsSlot(args) ==
  /\ Len(args) = 1 /\ args[1].k = "positional" /\ args[1].e.k = "int"
  /\ args[1].e.n <= MaxSlot
\* The slots a field asks for: one at most, each a number that can be a slot.
extract_slot_annotation(f) ==
  [i \in DOMAIN f.annotations |->
     IF IsSlot(Maybe(f.annotations[i], "args")) THEN {f.annotations[i].args[1].e.n} ELSE {}]
slots_valid(f) == Len(f.annotations) <= 1 /\ {} \notin Range(extract_slot_annotation(f))
explicit_slot(f) == UNION Range(extract_slot_annotation(f))
Pinned(f) == explicit_slot(f) # {}

\* Types are lowered without the structs here, so none advances by more.
slot_advance(f) == 1
\* The cursor of the fields that follow one another, after field f.
CursorAfter(current, f) == IF Pinned(f) THEN current ELSE current + slot_advance(f)
slot_for_global(fields, i) ==
  IF Pinned(fields[i]) THEN CHOOSE n \in explicit_slot(fields[i]) : TRUE
  ELSE FoldLeft(CursorAfter, 0, SubSeq(fields, 1, i - 1))

\* Mutant of Occupy: only fields that are both pinned can meet.
OccupyPinned(layout, f) ==
  [used |-> layout.used \cup explicit_slot(f),
   next |-> CursorAfter(layout.next, f),
   ok   |-> layout.ok /\ explicit_slot(f) \cap (layout.used \cup Reserved) = {}]
\* The fields so far: the slots they occupy, the next free one of those that
\* follow one another, and whether no two met.
Occupy(layout, f) ==
  LET slot == IF Pinned(f) THEN explicit_slot(f) ELSE {layout.next} IN
    [used |-> layout.used \cup slot,
     next |-> CursorAfter(layout.next, f),
     ok   |-> layout.ok /\ slot \cap layout.used = {} /\ explicit_slot(f) \cap Reserved = {}]
Unoccupied == [used |-> {}, next |-> 0, ok |-> TRUE]
detect_slot_collisions(fields) == ~ FoldLeft(Occupy, Unoccupied, fields).ok
-----------------------------------------------------------------------------
\* No two fields share a slot, and none has the slot of the deployer or of the
\* reentrancy lock.
KeptApart(fields) ==
  LET slots == [i \in DOMAIN fields |-> slot_for_global(fields, i)]
  IN IsInjective(slots) /\ Range(slots) \cap Reserved = {}
=============================================================================
