--------------------------- MODULE DataItemStore ---------------------------
(***************************************************************************)
(* The store of data items of every locality (data_item_store.hpp), the    *)
(* references a program keeps to them (data_item_reference.hpp) and the    *)
(* first use of an item on a locality: get and resize_fragment ask for the *)
(* locality's fragment, which needs the item's shared data, which is       *)
(* fetched from the locality (id - 1) / 2 and from there, if need be, from *)
(* that locality's parent, and stored at every locality on the way back.   *)
(* The item's mutex is released during the fetch, so several threads of a  *)
(* locality may fetch and build the fragment of one item at a time.        *)
(*                                                                         *)
(* A fragment is the address of an allocated object: its locality, its     *)
(* item and the number of the allocation.  Shared data are the arguments   *)
(* of the call of create, stood for by the id of the item.                 *)
(***************************************************************************)
EXTENDS Integers, Sequences

CONSTANTS
  N,           \* number of localities
  CreateAt,    \* the localities on which the program creates items
  MaxItems,    \* bound: items created per locality
  Refs, Home,  \* the reference objects of the program, the locality of each
  Users, Where \* the threads that use items, the locality of each

Localities == 0 .. N - 1

ASSUME StoreAssumption ==
  /\ N \in Nat \ {0}
  /\ CreateAt \subseteq Localities
  /\ MaxItems \in Nat
  /\ Home \in [Refs -> Localities]
  /\ Where \in [Users -> Localities]

VARIABLES
  created,  \* data_item_id::create's counter, per locality
  store,    \* store[l][i]: the entry of item i in the store of l
  refs,     \* refs[r]: the reference object r: id_ and cache
  thread,   \* thread[u]: the call u is in
  chain     \* chain[u]: localities with a call of shared_data for u, innermost first

vars == <<created, store, refs, thread, chain>>

Ids  == CreateAt \X (0 .. MaxItems - 1)
None == <<-1, -1>>                      \* no id; also: no shared data
Null == <<-1, -1, -1, -1>>              \* no fragment

Fragment(l, i, n) == <<l, i[1], i[2], n>>

Absent  == [here |-> FALSE, shared |-> None, fragment |-> Null, built |-> 0]
Idle    == [pc |-> "idle", ref |-> {}, item |-> None, result |-> Null]

Init ==
  /\ created = [l \in Localities |-> 0]
  /\ store = [l \in Localities |-> [i \in Ids |-> Absent]]
  /\ refs = [r \in Refs |-> [id |-> None, cache |-> Null]]
  /\ thread = [u \in Users |-> Idle]
  /\ chain = [u \in Users |-> <<>>]

-----------------------------------------------------------------------------
(* The entry of an item: lookup inserts an empty one when there is none.   *)
(* Entries are never erased (destroy asserts), so the thread-local cache   *)
(* in front of the store always gives the store's own entry.               *)

lookup(l, i) == [store[l][i] EXCEPT !.here = TRUE]

Entry(l, i, e) == store' = [store EXCEPT ![l][i] = e]

-----------------------------------------------------------------------------
(* Reference objects.  One that a thread is calling get on is not          *)
(* overwritten by the program.                                             *)

InUse(r) == \E u \in Users : r \in thread[u].ref

\* Mutant of create: the reference is given out without the shared data.
create_unpublished(r) ==
  LET l == Home[r]
      i == <<l, created[l]>>
  IN  /\ l \in CreateAt /\ created[l] < MaxItems
      /\ ~InUse(r)
      /\ created' = [created EXCEPT ![l] = @ + 1]
      /\ Entry(l, i, lookup(l, i))
      /\ refs' = [refs EXCEPT ![r] = [id |-> i, cache |-> Null]]
      /\ UNCHANGED <<thread, chain>>

create(r) ==
  LET l == Home[r]
      i == <<l, created[l]>>
  IN  /\ l \in CreateAt /\ created[l] < MaxItems
      /\ ~InUse(r)
      /\ created' = [created EXCEPT ![l] = @ + 1]
      /\ Entry(l, i, [lookup(l, i) EXCEPT !.shared = i])
      /\ refs' = [refs EXCEPT ![r] = [id |-> i, cache |-> Null]]
      /\ UNCHANGED <<thread, chain>>

\* A copy, here or by serialisation on another locality: the id alone.
Copy(r, s) ==
  /\ r # s /\ refs[r].id # None /\ ~InUse(s)
  /\ refs' = [refs EXCEPT ![s] = [id |-> refs[r].id, cache |-> Null]]
  /\ UNCHANGED <<created, store, thread, chain>>

\* The move constructor clears the cache of the object it moves from.
Move(r, s) ==
  /\ r # s /\ Home[r] = Home[s] /\ refs[r].id # None
  /\ ~InUse(s) /\ ~InUse(r)
  /\ refs' = [refs EXCEPT ![s] = [id |-> refs[r].id, cache |-> Null], ![r].cache = Null]
  /\ UNCHANGED <<created, store, thread, chain>>

\* Both assignments replace the id and leave the cache alone.
Assign(r, s) ==
  /\ r # s /\ Home[r] = Home[s] /\ refs[r].id # None /\ refs[s].id # None
  /\ ~InUse(s)
  /\ refs' = [refs EXCEPT ![s].id = refs[r].id]
  /\ UNCHANGED <<created, store, thread, chain>>

-----------------------------------------------------------------------------
(* get and resize_fragment.                                                *)

Callable(u, r) == thread[u] = Idle /\ Home[r] = Where[u] /\ refs[r].id # None

\* get on a reference with a cached address returns that and changes nothing;
\* on any other it asks for the fragment.
getFragmentHint(u, r) ==
  /\ Callable(u, r)
  /\ refs[r].cache = Null
  /\ thread' = [thread EXCEPT ![u] =
                  [pc |-> "fragment", ref |-> {r}, item |-> refs[r].id, result |-> Null]]
  /\ UNCHANGED <<created, store, refs, chain>>

\* The index asks for the fragment of its own copy of the reference.
resize_fragment(u, r) ==
  /\ Callable(u, r)
  /\ thread' = [thread EXCEPT ![u] =
                  [pc |-> "fragment", ref |-> {}, item |-> refs[r].id, result |-> Null]]
  /\ UNCHANGED <<created, store, refs, chain>>

\* fragment, up to the call of shared_data: under the item's mutex.
FindFragment(u) ==
  LET e == lookup(Where[u], thread[u].item)
  IN  /\ thread[u].pc = "fragment"
      /\ Entry(Where[u], thread[u].item, e)
      /\ IF e.fragment # Null
           THEN /\ thread' = [thread EXCEPT ![u].pc = "return", ![u].result = e.fragment]
                /\ UNCHANGED chain
           ELSE /\ thread' = [thread EXCEPT ![u].pc = "shared"]
                /\ chain' = [chain EXCEPT ![u] = <<Where[u]>>]
      /\ UNCHANGED <<created, refs>>

shared_data_parent(l) == (l - 1) \div 2

\* shared_data, up to the call of itself on the parent.  On locality 0 the
\* assertion this_id != 0 stops the call.
SharedFind(u) ==
  LET l == Head(chain[u])
      e == lookup(l, thread[u].item)
  IN  /\ thread[u].pc = "shared"
      /\ e.shared = None => l # 0
      /\ Entry(l, thread[u].item, e)
      /\ IF e.shared # None
           THEN /\ thread' = [thread EXCEPT ![u].pc = "answer"]
                /\ UNCHANGED chain
           ELSE /\ chain' = [chain EXCEPT ![u] = <<shared_data_parent(l)>> \o @]
                /\ UNCHANGED thread
      /\ UNCHANGED <<created, refs>>

\* Mutant of SharedStore: the answer is passed on, not stored.
SharedStore_passes(u) ==
  /\ thread[u].pc = "answer" /\ Len(chain[u]) > 1
  /\ chain' = [chain EXCEPT ![u] = Tail(@)]
  /\ UNCHANGED <<created, store, refs, thread>>

\* The answer arrives at the locality that asked: it is stored unless another
\* thread's answer came first, and what is stored is answered.
SharedStore(u) ==
  LET l == chain[u][2]
      i == thread[u].item
      e == store[l][i]
  IN  /\ thread[u].pc = "answer" /\ Len(chain[u]) > 1
      /\ Entry(l, i, IF e.shared = None THEN [e EXCEPT !.shared = store[Head(chain[u])][i].shared] ELSE e)
      /\ chain' = [chain EXCEPT ![u] = Tail(@)]
      /\ UNCHANGED <<created, refs, thread>>

\* fragment, after shared_data has returned: the fragment is allocated unless
\* another thread has done so.
\* Mutant of built_fragment: no second test.
built_fragment_unchecked(l, i, e) == [e EXCEPT !.fragment = Fragment(l, i, e.built), !.built = @ + 1]

built_fragment(l, i, e) ==
  IF e.fragment = Null
    THEN [e EXCEPT !.fragment = Fragment(l, i, e.built), !.built = @ + 1]
    ELSE e

MakeFragment(u) ==
  LET l == Where[u]
      i == thread[u].item
      e == built_fragment(l, i, store[l][i])
  IN  /\ thread[u].pc = "answer" /\ Len(chain[u]) = 1
      /\ Entry(l, i, e)
      /\ chain' = [chain EXCEPT ![u] = <<>>]
      /\ thread' = [thread EXCEPT ![u].pc = "return", ![u].result = e.fragment]
      /\ UNCHANGED <<created, refs>>

\* get keeps the address in the reference it was called on, resize_fragment
\* in none.
Return(u) ==
  /\ thread[u].pc = "return"
  /\ thread' = [thread EXCEPT ![u] = Idle]
  /\ refs' = [r \in Refs |-> IF r \in thread[u].ref THEN [refs[r] EXCEPT !.cache = thread[u].result]
                                                   ELSE refs[r]]
  /\ UNCHANGED <<created, store, chain>>

UserStep(u) == FindFragment(u) \/ SharedFind(u) \/ SharedStore(u) \/ MakeFragment(u) \/ Return(u)

Program ==
  \/ \E r \in Refs : create(r)
  \/ \E r, s \in Refs : Copy(r, s) \/ Move(r, s) \/ Assign(r, s)
  \/ \E u \in Users, r \in Refs : getFragmentHint(u, r) \/ resize_fragment(u, r)

Next == Program \/ \E u \in Users : UserStep(u)

Spec == Init /\ [][Next]_vars

\* A thread that is in the store goes on; nothing makes a program call it.
FairSpec == Spec /\ \A u \in Users : WF_vars(UserStep(u))

-----------------------------------------------------------------------------
(* Properties.                                                             *)

Entries == [here : BOOLEAN, shared : Ids \cup {None},
            fragment : (Localities \X CreateAt \X (0 .. MaxItems - 1) \X Nat) \cup {Null}, built : Nat]

\* Every variable has its type.
TypeOK ==
  /\ created \in [Localities -> 0 .. MaxItems]
  /\ \A l \in Localities, i \in Ids : store[l][i] \in Entries
  /\ \A r \in Refs : refs[r].id \in Ids \cup {None}
  /\ \A u \in Users : thread[u].pc \in {"idle", "fragment", "shared", "answer", "return"}
  /\ \A u \in Users : Len(chain[u]) <= N

\* The address a reference has cached, and the one a call is about to return,
\* is that of the fragment in the store of the locality: a fragment is never
\* replaced by another one while somebody holds its address, although the
\* item's mutex is released between the test and the allocation.
HintsLive ==
  /\ \A r \in Refs : refs[r].cache # Null =>
       \E i \in Ids : store[Home[r]][i].fragment = refs[r].cache
  /\ \A u \in Users : thread[u].pc = "return" =>
       store[Where[u]][thread[u].item].fragment = thread[u].result

\* The call of shared_data that reaches locality 0 finds the data there
\* (HPX_ASSERT(this_id != 0) holds), and every locality that an answer passes
\* on its way down has them stored before it answers.
AnswersAreStored ==
  \A u \in Users :
    /\ (thread[u].pc = "shared" /\ Head(chain[u]) = 0) => store[0][thread[u].item].shared # None
    /\ thread[u].pc = "answer" => store[Head(chain[u])][thread[u].item].shared = thread[u].item

\* Every call of get and resize_fragment returns.
CallsReturn == \A u \in Users : thread[u] # Idle ~> thread[u] = Idle

\* What a reference has cached is the fragment of the item it refers to:
\* get, which returns the cached one without a look at the id, gives access to
\* the referenced item.
HintIsReferenced ==
  \A r \in Refs : refs[r].cache # Null => SubSeq(refs[r].cache, 2, 3) = refs[r].id
=============================================================================
