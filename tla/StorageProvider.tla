--------------------------- MODULE StorageProvider ---------------------------
(***************************************************************************)
(* ConstStorageProvider, StorageProvider and ConstSharedStorageProvider of *)
(* memory.hh. A provider holds an access, by reference or by a shared      *)
(* pointer, or nothing. count is the count the shared pointers keep; the   *)
(* object goes when it reaches zero. Programs respect the documentation: a *)
(* raw pointer is handed to one provider only.                             *)
(***************************************************************************)
EXTENDS Naturals, FiniteSets

CONSTANTS
  Providers,        \* objects of type ConstStorageProvider or StorageProvider
  SharedProviders,  \* objects of type ConstSharedStorageProvider
  Heap, Stack,      \* objects made by new, and objects of the caller
  NoObject,
  MaxHeld           \* bound: shared pointers of callers to one object

ASSUME StorageAssumption ==
  /\ IsFiniteSet(Providers) /\ IsFiniteSet(SharedProviders)
  /\ Heap \cap Stack = {} /\ NoObject \notin Heap \cup Stack
  /\ MaxHeld \in Nat

VARIABLES
  storage_,  \* what each provider accesses
  shared_,   \* what each shared provider points to
  held,      \* the shared pointers in the hands of callers
  count,     \* the use count of each object on the heap
  alive,     \* the objects there are
  emptied,   \* ghost: the providers constructed empty, moved from, or copied from such
  crashed    \* whether a null pointer has been dereferenced

storageVars == <<storage_, shared_, held, count, alive, emptied, crashed>>

Nothing == [by |-> "nothing", to |-> NoObject]
ByReference(o) == [by |-> "reference", to |-> o]
ByPointer(o) == [by |-> "pointer", to |-> o]
Accesses == {Nothing} \cup {ByReference(o) : o \in Stack} \cup {ByPointer(o) : o \in Heap}

\* valid() of both providers
Valid(access) == access.by # "nothing"

\* What the shared pointer of an access by pointer keeps alive, and copy() shares.
Owned(access) == IF access.by = "pointer" THEN {access.to} ELSE {}

StorageInit ==
  /\ storage_ = [p \in Providers |-> Nothing]
  /\ shared_ = [s \in SharedProviders |-> NoObject]
  /\ held = [o \in Heap |-> 0]
  /\ count = [o \in Heap |-> 0]
  /\ alive = Stack
  /\ emptied = Providers
  /\ crashed = FALSE

Gained(c, objects) == [o \in Heap |-> IF o \in objects THEN c[o] + 1 ELSE c[o]]
Lost(c, objects) == [o \in Heap |-> IF o \in objects THEN c[o] - 1 ELSE c[o]]
Dead(c) == {o \in Heap : c[o] = 0}

\* Mutant: the old storage is released before the new one is copied.
ExchangeReleasingFirst(new, old) ==
  /\ count' = Gained(Lost(count, old), new)
  /\ alive' = (alive \cup new) \ (Dead(Lost(count, old)) \cap old)

\* Shared pointers to new are made, then those to old are given up.
Exchange(new, old) ==
  /\ count' = Lost(Gained(count, new), old)
  /\ alive' = (alive \cup new) \ Dead(count')

\* The constructors: empty, of a reference, of a raw pointer to a new object, or
\* of a shared pointer the caller keeps. The former value of p has been destroyed.
Construct(p, access) ==
  /\ ~crashed
  /\ \A o \in Owned(access) \cap alive : held[o] > 0
  /\ access.by = "reference" => access.to \in alive
  /\ storage_' = [storage_ EXCEPT ![p] = access]
  /\ Exchange(Owned(access), Owned(storage_[p]))
  /\ emptied' = IF access = Nothing THEN emptied \cup {p} ELSE emptied \ {p}
  /\ UNCHANGED <<shared_, held, crashed>>

Emptied(p, q) == IF q \in emptied THEN emptied \cup {p} ELSE emptied \ {p}

\* The copy constructor is given an empty provider or not. Construction is in
\* the place of a provider that holds nothing.
CopyConstruct(p, q) ==
  /\ ~crashed
  /\ p # q /\ ~Valid(storage_[p])
  /\ storage_' = [storage_ EXCEPT ![p] = storage_[q]]
  /\ Exchange(Owned(storage_[q]), {})
  /\ emptied' = Emptied(p, q)
  /\ UNCHANGED <<shared_, held, crashed>>

\* Mutant: no copy() is made, the other's shared pointer is taken over as it is.
CopyAssignShallow(p, q) ==
  /\ ~crashed
  /\ IF p = q THEN UNCHANGED <<storage_, count, alive, emptied, crashed>>
     ELSE /\ storage_' = [storage_ EXCEPT ![p] = storage_[q]]
          /\ Exchange({}, Owned(storage_[p]))
          /\ emptied' = Emptied(p, q)
          /\ UNCHANGED crashed
  /\ UNCHANGED <<shared_, held>>

\* operator=(const &) and operator=(&): an empty source is dereferenced.
CopyAssign(p, q) ==
  /\ ~crashed
  /\ IF p = q THEN UNCHANGED <<storage_, count, alive, emptied, crashed>>
     ELSE IF ~Valid(storage_[q])
     THEN crashed' = TRUE /\ UNCHANGED <<storage_, count, alive, emptied>>
     ELSE /\ storage_' = [storage_ EXCEPT ![p] = storage_[q]]
          /\ Exchange(Owned(storage_[q]), Owned(storage_[p]))
          /\ emptied' = Emptied(p, q)
          /\ UNCHANGED crashed
  /\ UNCHANGED <<shared_, held>>

\* Mutant: the source keeps its storage.
MoveKeepsSource(p, q) ==
  /\ ~crashed /\ p # q
  /\ storage_' = [storage_ EXCEPT ![p] = storage_[q]]
  /\ Exchange({}, Owned(storage_[p]))
  /\ emptied' = Emptied(p, q) \cup {q}
  /\ UNCHANGED <<shared_, held, crashed>>

\* The move constructor and move assignment of a std::unique_ptr.
Move(p, q) ==
  /\ ~crashed /\ p # q
  /\ storage_' = [storage_ EXCEPT ![p] = storage_[q], ![q] = Nothing]
  /\ Exchange({}, Owned(storage_[p]))
  /\ emptied' = Emptied(p, q) \cup {q}
  /\ UNCHANGED <<shared_, held, crashed>>

\* ConstSharedStorageProvider: constructed from a new object or one the caller
\* holds, copied, moved and destroyed as its std::shared_ptr is.
SharedObjects(o) == IF o = NoObject THEN {} ELSE {o}

ConstructShared(s, o) ==
  /\ ~crashed
  /\ o \in Heap \cap alive => held[o] > 0
  /\ shared_' = [shared_ EXCEPT ![s] = o]
  /\ Exchange(SharedObjects(o), SharedObjects(shared_[s]))
  /\ UNCHANGED <<storage_, held, emptied, crashed>>

AssignShared(s, r) ==
  /\ ~crashed
  /\ shared_' = [shared_ EXCEPT ![s] = shared_[r]]
  /\ Exchange(SharedObjects(shared_[r]), SharedObjects(shared_[s]))
  /\ UNCHANGED <<storage_, held, emptied, crashed>>

\* access() of a shared provider hands out another shared pointer ...
AccessShared(s) ==
  /\ ~crashed
  /\ shared_[s] # NoObject
  /\ held[shared_[s]] < MaxHeld
  /\ held' = [held EXCEPT ![shared_[s]] = @ + 1]
  /\ Exchange({shared_[s]}, {})
  /\ UNCHANGED <<storage_, shared_, emptied, crashed>>

\* ... which its caller drops at some time.
Drop(o) ==
  /\ ~crashed
  /\ held[o] > 0
  /\ held' = [held EXCEPT ![o] = @ - 1]
  /\ Exchange({}, {o})
  /\ UNCHANGED <<storage_, shared_, emptied, crashed>>

\* An object of the caller goes while providers may still refer to it.
LeaveScope(o) ==
  /\ ~crashed
  /\ o \in Stack \cap alive
  /\ alive' = alive \ {o}
  /\ UNCHANGED <<storage_, shared_, held, count, emptied, crashed>>

StorageNext ==
  \/ \E p \in Providers, access \in Accesses : Construct(p, access)
  \/ \E p, q \in Providers : CopyConstruct(p, q) \/ CopyAssign(p, q) \/ Move(p, q)
  \/ \E s \in SharedProviders, o \in Heap \cup {NoObject} : ConstructShared(s, o)
  \/ \E s, r \in SharedProviders : AssignShared(s, r)
  \/ \E s \in SharedProviders : AccessShared(s)
  \/ \E o \in Heap : Drop(o)
  \/ \E o \in Stack : LeaveScope(o)

StorageSpec == StorageInit /\ [][StorageNext]_storageVars

-----------------------------------------------------------------------------
StorageTypeOK ==
  /\ storage_ \in [Providers -> Accesses]
  /\ shared_ \in [SharedProviders -> Heap \cup {NoObject}]
  /\ held \in [Heap -> 0 .. MaxHeld]
  /\ count \in [Heap -> Nat]
  /\ alive \subseteq Heap \cup Stack
  /\ emptied \subseteq Providers /\ crashed \in BOOLEAN

\* The use count of an object is the number of those who own it, however
\* providers were copied, moved and assigned, to themselves included: it is
\* neither leaked nor deleted twice.
CountsOwners ==
  \A o \in Heap : count[o] =
    Cardinality({p \in Providers : o \in Owned(storage_[p])})
    + Cardinality({s \in SharedProviders : shared_[s] = o}) + held[o]

\* What a provider owns is there when it is accessed, and what nobody owns has
\* been deleted; only a provider of a reference may outlive its object.
OwnedIsAlive ==
  \A o \in Heap : o \in alive <=>
    \/ \E p \in Providers : o \in Owned(storage_[p])
    \/ \E s \in SharedProviders : shared_[s] = o
    \/ held[o] > 0

\* A provider is invalid exactly if it was constructed empty, moved from, or is
\* a copy of such: no assignment leaves its target without storage, because
\* memory.hh:307 does not survive a source without one.
InvalidOnlyIfEmptied == \A p \in Providers : Valid(storage_[p]) = (p \notin emptied)

\* Objects live as long as they have an owner, and a provider has one unless it was
\* emptied, through any sequence of copies, moves and assignments (memory.hh).
OwnersInv == StorageTypeOK /\ CountsOwners /\ OwnedIsAlive /\ InvalidOnlyIfEmptied
==============================================================================
