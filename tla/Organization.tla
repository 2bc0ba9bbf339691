----------------------------- MODULE Organization -----------------------------
(***************************************************************************)
(* How accounts and categories are arranged: the account groups of         *)
(* AccountService, a forest of groups that accounts hang in, and the       *)
(* CategoryCatalog, vectors of category groups and categories that carry   *)
(* their positions.  Names, notes and sort orders of accounts are left     *)
(* out; a refused command changes nothing and is not a step.               *)
(***************************************************************************)
EXTENDS Integers, Sequences, SequencesExt, Maps

CONSTANTS AccountGroups, GroupedAccounts, NoGroup,
          CategoryGroups, Categories,   \* ids a catalog can hold
          CardAccounts                  \* accounts with a managed payment category

ASSUME OrganizationAssumption ==
  /\ IsFiniteSet(AccountGroups) /\ NoGroup \notin AccountGroups
  /\ IsFiniteSet(CategoryGroups) /\ IsFiniteSet(Categories)

VARIABLES
  parentOf,     \* account_groups of the ledger: id -> parent or NoGroup
  groupOf,      \* accounts: id -> group or NoGroup
  groups,       \* CategoryCatalog::groups: sequence of [id, position]
  categories,   \* CategoryCatalog::categories: sequence of records
  managed       \* CategoryCatalog::managed_payment_categories

forest == <<parentOf, groupOf>>
catalog == <<groups, categories, managed>>

\* A new ledger, and CategoryCatalog::default
OrganizationInit ==
  /\ parentOf = <<>> /\ groupOf = [account \in GroupedAccounts |-> NoGroup]
  /\ groups = <<>> /\ categories = <<>> /\ managed = <<>>
-----------------------------------------------------------------------------
(* Account groups *)

\* The groups met on the way up from a group, itself included.  The walk of the code
\* stops at the first group it does not find.
WithParents(parents, met) == (met \cup {parents[g] : g \in met \cap DOMAIN parents}) \ {NoGroup}
WalkUp(parents, group) ==
  LET up[n \in 0..Cardinality(AccountGroups)] ==
        IF n = 0 THEN {group} \ {NoGroup} ELSE WithParents(parents, up[n - 1])
  IN  up[Cardinality(AccountGroups)]
Upward(group) == WalkUp(parentOf, group)

\* validate_group_parent: known groups all the way up, and never the group itself.
ValidParentMutant(id, parent) == parent \in (DOMAIN parentOf \cup {NoGroup}) \ {id}
ValidParent(id, parent) == Upward(parent) \subseteq DOMAIN parentOf \ {id}

CreateGroup(id, parent) ==
  /\ id \notin DOMAIN parentOf /\ ValidParent(id, parent)
  /\ parentOf' = Put(parentOf, id, parent)
  /\ UNCHANGED groupOf

MoveGroup(id, parent) ==
  /\ id \in DOMAIN parentOf /\ ValidParent(id, parent)
  /\ parentOf' = [parentOf EXCEPT ![id] = parent]
  /\ UNCHANGED groupOf

SetAccountGroup(account, group) ==
  /\ group \in DOMAIN parentOf \cup {NoGroup}
  /\ groupOf' = [groupOf EXCEPT ![account] = group]
  /\ UNCHANGED parentOf

\* A group that is not empty goes only if its children are given another parent.
DeleteGroup(id, move, parent) ==
  LET inUse == id \in Range(parentOf) \cup Range(groupOf)
      moved(f) == [x \in DOMAIN f |-> IF move /\ f[x] = id THEN parent ELSE f[x]]
  IN  /\ id \in DOMAIN parentOf
      /\ inUse => move
      /\ move => ValidParent(id, parent)
      /\ parentOf' = Restrict(moved(parentOf), DOMAIN parentOf \ {id})
      /\ groupOf' = moved(groupOf)

ForestNext ==
  \/ \E id \in AccountGroups, parent \in AccountGroups \cup {NoGroup} :
       \/ CreateGroup(id, parent)
       \/ MoveGroup(id, parent)
       \/ \E move \in BOOLEAN : DeleteGroup(id, move, parent)
  \/ \E account \in GroupedAccounts, group \in AccountGroups \cup {NoGroup} :
       SetAccountGroup(account, group)
-----------------------------------------------------------------------------
(* The category catalog.  Vectors count from 1 here, positions from 0. *)

IndexOf(seq, id) == SelectInSeq(seq, LAMBDA item : item.id = id)
Holds(seq, id) == IndexOf(seq, id) # 0
Managed(id) == id \in Range(managed)

InGroup(cats, group) == {i \in DOMAIN cats : cats[i].group = group}

\* Where an item comes among some of a vector: by position, then by its place in the vector.
Place(items, among, i) ==
  Cardinality({j \in among :
    \/ items[j].position < items[i].position
    \/ items[j].position = items[i].position /\ j < i})

Numbered(seq) == [i \in DOMAIN seq |-> [id |-> seq[i].id, position |-> i - 1]]
InOrder(seq) ==
  Numbered([k \in DOMAIN seq |-> seq[CHOOSE i \in DOMAIN seq : Place(seq, DOMAIN seq, i) = k - 1]])

\* normalize: both vectors are put in the order of the positions they carry.
Normalize(newGroups, cats) ==
  /\ groups' = InOrder(newGroups)
  /\ categories' = [i \in DOMAIN cats |-> [cats[i] EXCEPT
                       !.position = Place(cats, InGroup(cats, cats[i].group), i)]]

AddGroup(id) ==
  /\ ~Holds(groups, id)
  /\ groups' = Append(groups, [id |-> id, position |-> Len(groups)])
  /\ UNCHANGED <<categories, managed>>

Without(seq, id) == RemoveAt(seq, IndexOf(seq, id))
MoveTo(seq, id, index) == InsertAt(Without(seq, id), index, seq[IndexOf(seq, id)])

ReorderGroup(id, position) ==
  /\ Holds(groups, id)
  /\ groups' = Numbered(MoveTo(groups, id, 1 + IF position < Len(groups) THEN position
                                               ELSE Len(groups) - 1))
  /\ UNCHANGED <<categories, managed>>

\* The vector is rearranged, the positions are not, and normalize sorts by position.
\* (A target that is not there, the group itself included, stands for the end.)
MovedBefore(id, before) ==
  LET others == Without(groups, id) IN
  MoveTo(groups, id, IF Holds(others, before) THEN IndexOf(others, before) ELSE Len(groups))

ReorderGroupBefore(id, before) ==
  /\ Holds(groups, id)
  /\ Normalize(MovedBefore(id, before), categories)
  /\ UNCHANGED managed

AddCategory(id, group) ==
  /\ Holds(groups, group) /\ ~Holds(categories, id)
  /\ categories' = Append(categories,
       [id |-> id, group |-> group, hidden |-> FALSE, archived |-> FALSE, used |-> FALSE,
        position |-> Cardinality(InGroup(categories, group))])
  /\ UNCHANGED <<groups, managed>>

MoveCategory(id, group, position) ==
  /\ Holds(groups, group) /\ Holds(categories, id) /\ ~Managed(id)
  /\ Normalize(groups, [categories EXCEPT ![IndexOf(categories, id)] =
                          [@ EXCEPT !.group = group, !.position = position]])
  /\ UNCHANGED managed

Hide(id, hidden) ==
  /\ Holds(categories, id) /\ ~Managed(id)
  /\ categories' = [categories EXCEPT ![IndexOf(categories, id)].hidden = hidden]
  /\ UNCHANGED <<groups, managed>>

Archived(id) ==
  categories' = [categories EXCEPT ![IndexOf(categories, id)] =
                   [@ EXCEPT !.archived = TRUE, !.hidden = TRUE]]

\* archive; a merge archives its source once the destination is known to exist.
ArchiveCategory(id) ==
  /\ Holds(categories, id) /\ ~Managed(id)
  /\ Archived(id) /\ UNCHANGED <<groups, managed>>

DeleteIfUnused(id) ==
  /\ Holds(categories, id) /\ ~Managed(id)
  /\ IF categories[IndexOf(categories, id)].used
     THEN Archived(id) /\ UNCHANGED groups
     ELSE Normalize(groups, Without(categories, id))
  /\ UNCHANGED managed

\* The usage of a category is a public field.
Use(id) ==
  /\ Holds(categories, id)
  /\ categories' = [categories EXCEPT ![IndexOf(categories, id)].used = TRUE]
  /\ UNCHANGED <<groups, managed>>

RelinkManaged(account, id) ==
  /\ Holds(categories, id)
  /\ managed' = Put(managed, account, id)
  /\ UNCHANGED <<groups, categories>>

CatalogNext ==
  \/ \E id \in CategoryGroups :
       \/ AddGroup(id)
       \/ \E position \in 0..Cardinality(CategoryGroups) : ReorderGroup(id, position)
       \/ \E before \in CategoryGroups : ReorderGroupBefore(id, before)
  \/ \E id \in Categories :
       \/ \E group \in CategoryGroups : AddCategory(id, group)
       \/ \E group \in CategoryGroups, position \in 0..Cardinality(Categories) :
            MoveCategory(id, group, position)
       \/ \E hidden \in BOOLEAN : Hide(id, hidden)
       \/ ArchiveCategory(id)
       \/ DeleteIfUnused(id)
       \/ Use(id)
       \/ \E account \in CardAccounts : RelinkManaged(account, id)

OrganizationNext ==
  \/ ForestNext /\ UNCHANGED catalog
  \/ CatalogNext /\ UNCHANGED forest

OrganizationSpec == OrganizationInit /\ [][OrganizationNext]_<<forest, catalog>>
-----------------------------------------------------------------------------
\* However the moves, deletions and relinks before it arranged them, the groups and the
\* categories stay in order.  No group becomes its own ancestor and no group or account
\* hangs under a group that is gone, so validate_group_parent's walk up ends; the vectors
\* hold each group and each category once, whatever was taken out and put back, and no
\* category of a group that is not there; and the category groups, and the categories of
\* each, are numbered 0, 1, 2, ... without a gap or a tie, so their order is never ambiguous.
OrganizationSound ==
  /\ Range(groupOf) \subseteq DOMAIN parentOf \cup {NoGroup}
  /\ \A id \in DOMAIN parentOf : Upward(parentOf[id]) \subseteq DOMAIN parentOf \ {id}
  /\ \A i, j \in DOMAIN groups : groups[i].id = groups[j].id => i = j
  /\ \A i, j \in DOMAIN categories : categories[i].id = categories[j].id => i = j
  /\ \A i \in DOMAIN categories : Holds(groups, categories[i].group)
  /\ \A i \in DOMAIN groups : groups[i].position = i - 1
  /\ \A g \in DOMAIN groups :
       LET members == InGroup(categories, groups[g].id) IN
       {categories[i].position : i \in members} = 0..(Cardinality(members) - 1)
=============================================================================
