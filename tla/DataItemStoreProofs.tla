-------------------------- MODULE DataItemStoreProofs --------------------------
(***************************************************************************)
(* The addresses that get hands out stay valid and the data items' shared  *)
(* data are found, for every number of localities, threads and references. *)
(***************************************************************************)
EXTENDS DataItemStore, TLAPS

Fragments == Localities \X CreateAt \X (0 .. MaxItems - 1) \X Nat

ThreadType ==
  thread \in [Users -> [pc : {"idle", "fragment", "shared", "answer", "return"},
                        ref : SUBSET Refs, item : Ids \cup {None}, result : Fragments \cup {Null}]]

StateType ==
  /\ created \in [Localities -> 0 .. MaxItems]
  /\ store \in [Localities -> [Ids -> Entries]]
  /\ refs \in [Refs -> [id : Ids \cup {None}, cache : Fragments \cup {Null}]]
  /\ ThreadType
  /\ chain \in [Users -> Seq(Localities)]

\* A call that is under way is about an item and, for get, about references of
\* the thread's locality; it has asked other localities while it needs shared data.
CallsMeanSomething ==
  \A u \in Users :
    /\ thread[u].pc # "idle" => thread[u].item \in Ids
    /\ \A r \in thread[u].ref : Home[r] = Where[u]
    /\ thread[u].pc \in {"shared", "answer"} => chain[u] # <<>>
    /\ thread[u].pc = "return" => thread[u].result # Null

\* The fetch descends: the calls of shared_data of a thread are on localities
\* that leave room for all that are still to answer.
ChainDescends ==
  \A u \in Users : \A k \in 1 .. Len(chain[u]) : chain[u][k] + (Len(chain[u]) - k) < N

\* Shared data are those of their item, and the locality that created an item
\* has them from the start.
Published(i) == store[i[1]][i].shared = i
SharedInv ==
  /\ \A l \in Localities, i \in Ids : store[l][i].shared \in {None, i}
  /\ \A r \in Refs : refs[r].id # None => Published(refs[r].id)
  /\ \A u \in Users : thread[u].pc # "idle" => Published(thread[u].item)
  /\ \A u \in Users :
       thread[u].pc = "answer" => store[Head(chain[u])][thread[u].item].shared = thread[u].item

StoreInv == StateType /\ CallsMeanSomething /\ ChainDescends /\ SharedInv /\ HintsLive

LEMMA ConstantFacts ==
  /\ None \notin Ids /\ Null \notin Fragments
  /\ \A i \in Ids : i[1] \in CreateAt /\ i[1] \in Localities
  /\ \A l \in Localities, i \in Ids, n \in Nat : Fragment(l, i, n) \in Fragments
  /\ Localities \subseteq Nat
<1>1. Localities \subseteq Nat
  BY StoreAssumption DEF Localities
<1>2. CreateAt \subseteq Nat /\ CreateAt \subseteq Localities
  BY <1>1, StoreAssumption
<1>3. \A i \in Ids : i[1] \in CreateAt /\ i[2] \in 0 .. MaxItems - 1
  BY DEF Ids
<1>4. None[1] = -1 /\ -1 \notin Nat
  BY DEF None
<1>5. None \notin Ids
  BY <1>2, <1>3, <1>4
<1>6. \A f \in Fragments : f[1] \in Localities
  BY DEF Fragments
<1>7. Null \notin Fragments
  BY <1>1, <1>6 DEF Null
<1>8. \A l \in Localities, i \in Ids, n \in Nat : Fragment(l, i, n) \in Fragments
  BY <1>3 DEF Fragment, Fragments
<1>9. QED
  BY <1>1, <1>2, <1>3, <1>5, <1>7, <1>8

LEMMA InitStoreInv == Init => StoreInv
BY StoreAssumption, ConstantFacts
   DEF Init, StoreInv, StateType, CallsMeanSomething, ChainDescends, SharedInv, HintsLive,
       ThreadType, Absent, Idle, Entries, Fragments, Localities

\* What an entry holds is never taken away: the store only grows.
StoreGrows ==
  \A l \in Localities, i \in Ids :
    /\ store[l][i].fragment # Null => store'[l][i].fragment = store[l][i].fragment
    /\ store[l][i].shared # None => store'[l][i].shared = store[l][i].shared

LEMMA EntryUpdate ==
  ASSUME StateType, NEW l \in Localities, NEW i \in Ids, NEW e \in Entries, Entry(l, i, e),
         store[l][i].fragment # Null => e.fragment = store[l][i].fragment,
         store[l][i].shared # None => e.shared = store[l][i].shared
  PROVE  /\ store' \in [Localities -> [Ids -> Entries]]
         /\ store'[l][i] = e
         /\ \A m \in Localities, j \in Ids : <<m, j>> # <<l, i>> => store'[m][j] = store[m][j]
         /\ StoreGrows
<1>1. store' = [store EXCEPT ![l][i] = e]
  BY DEF Entry
<1>2. \A m \in Localities, j \in Ids : store'[m][j] = IF m = l /\ j = i THEN e ELSE store[m][j]
  BY <1>1 DEF StateType
<1>3. QED
  BY <1>1, <1>2 DEF StateType, StoreGrows

\* A step that only lets the store grow and touches no call keeps what is known of it.
LEMMA GrowthKeeps ==
  ASSUME StoreInv, StoreGrows
  PROVE  /\ \A i \in Ids : Published(i) => Published(i)'
         /\ \A r \in Refs : refs[r].cache # Null =>
              \E i \in Ids : store'[Home[r]][i].fragment = refs[r].cache
         /\ \A u \in Users : thread[u].pc = "return" =>
              store'[Where[u]][thread[u].item].fragment = thread[u].result
         /\ \A u \in Users : thread[u].pc = "answer" =>
              store'[Head(chain[u])][thread[u].item].shared = thread[u].item
<1>1. \A i \in Ids : Published(i) => Published(i)'
  BY ConstantFacts DEF Published, StoreGrows
<1>2. ASSUME NEW r \in Refs, refs[r].cache # Null
      PROVE  \E i \in Ids : store'[Home[r]][i].fragment = refs[r].cache
  <2>1. PICK i \in Ids : store[Home[r]][i].fragment = refs[r].cache
    BY <1>2 DEF StoreInv, HintsLive
  <2>2. Home[r] \in Localities
    BY StoreAssumption
  <2>3. store'[Home[r]][i].fragment = refs[r].cache
    BY <1>2, <2>1, <2>2 DEF StoreGrows
  <2>4. QED
    BY <2>3
<1>3. ASSUME NEW u \in Users, thread[u].pc = "return"
      PROVE  store'[Where[u]][thread[u].item].fragment = thread[u].result
  <2>1. thread[u].item \in Ids /\ thread[u].result # Null /\ Where[u] \in Localities
    BY <1>3, StoreAssumption DEF StoreInv, CallsMeanSomething
  <2>2. store[Where[u]][thread[u].item].fragment = thread[u].result
    BY <1>3 DEF StoreInv, HintsLive
  <2>3. QED
    BY <2>1, <2>2 DEF StoreGrows
<1>4. ASSUME NEW u \in Users, thread[u].pc = "answer"
      PROVE  store'[Head(chain[u])][thread[u].item].shared = thread[u].item
  <2>1. thread[u].item \in Ids /\ thread[u].item # None
    BY <1>4, ConstantFacts DEF StoreInv, CallsMeanSomething
  <2>2. Head(chain[u]) \in Localities
    BY <1>4 DEF StoreInv, CallsMeanSomething, StateType
  <2>3. store[Head(chain[u])][thread[u].item].shared = thread[u].item
    BY <1>4 DEF StoreInv, SharedInv
  <2>4. QED
    BY <2>1, <2>2, <2>3 DEF StoreGrows
<1>5. QED
  BY <1>1, <1>2, <1>3, <1>4

-----------------------------------------------------------------------------
(* The program's own steps.                                                *)

LEMMA CreateStep ==
  ASSUME StoreInv, NEW r \in Refs, create(r)
  PROVE  StoreInv'
<1> DEFINE l == Home[r]
<1>1. l \in CreateAt /\ l \in Localities
  BY StoreAssumption DEF create
<1>2. created[l] \in 0 .. MaxItems - 1
  <2>1. created[l] \in 0 .. MaxItems /\ created[l] < MaxItems
    BY <1>1 DEF create, StoreInv, StateType
  <2>2. QED
    BY <2>1, StoreAssumption
<1>3. PICK i \in Ids : i = <<l, created[l]>> /\ i[1] = l
  <2>1. <<l, created[l]>> \in Ids
    BY <1>1, <1>2 DEF Ids
  <2>2. <<l, created[l]>>[1] = l
    OBVIOUS
  <2>3. QED
    BY <2>1, <2>2
<1>4. /\ thread' = thread /\ chain' = chain
      /\ refs' = [refs EXCEPT ![r] = [id |-> i, cache |-> Null]]
      /\ created' = [created EXCEPT ![l] = @ + 1]
      /\ Entry(l, i, [lookup(l, i) EXCEPT !.shared = i])
  BY <1>3 DEF create
<1>5. PICK e \in Entries : /\ Entry(l, i, e) /\ e.fragment = store[l][i].fragment /\ e.shared = i
                          /\ store[l][i].shared \in {None, i}
  <2>1. store[l][i] \in Entries /\ store[l][i].shared \in {None, i}
    BY <1>1 DEF StoreInv, StateType, SharedInv
  <2> DEFINE f == [lookup(l, i) EXCEPT !.shared = i]
  <2>2. f \in Entries /\ f.fragment = store[l][i].fragment /\ f.shared = i
    BY <2>1 DEF lookup, Entries
  <2>3. Entry(l, i, f)
    BY <1>4
  <2>4. QED
    BY <2>1, <2>2, <2>3
<1> HIDE DEF l
<1>6. /\ store' \in [Localities -> [Ids -> Entries]] /\ store'[l][i] = e
      /\ \A m \in Localities, j \in Ids : <<m, j>> # <<l, i>> => store'[m][j] = store[m][j]
      /\ StoreGrows
  BY <1>1, <1>5, EntryUpdate DEF StoreInv
<1>7. /\ \A m \in Localities, j \in Ids : store'[m][j].shared \in {None, j}
      /\ store'[i[1]][i].shared = i
  BY <1>1, <1>3, <1>5, <1>6 DEF StoreInv, SharedInv
<1>8. StateType'
  <2>1. created' \in [Localities -> 0 .. MaxItems]
    BY <1>1, <1>2, <1>4, StoreAssumption DEF StoreInv, StateType
  <2>2. refs' \in [Refs -> [id : Ids \cup {None}, cache : Fragments \cup {Null}]]
    BY <1>4 DEF StoreInv, StateType
  <2>3. QED
    BY <1>4, <1>6, <2>1, <2>2 DEF StoreInv, StateType, ThreadType
<1>9. CallsMeanSomething' /\ ChainDescends'
  BY <1>4 DEF StoreInv, CallsMeanSomething, ChainDescends
<1>10. SharedInv'
  <2>1. \A s \in Refs : refs'[s].id # None => store'[refs'[s].id[1]][refs'[s].id].shared = refs'[s].id
    <3>1. \A s \in Refs : refs'[s].id = IF s = r THEN i ELSE refs[s].id
      BY <1>4 DEF StoreInv, StateType
    <3>2. \A j \in Ids : store[j[1]][j].shared = j => store'[j[1]][j].shared = j
      BY <1>6, GrowthKeeps DEF Published
    <3>3. \A s \in Refs : refs[s].id # None => refs[s].id \in Ids /\ store[refs[s].id[1]][refs[s].id].shared = refs[s].id
      BY DEF StoreInv, SharedInv, StateType, Published
    <3>4. QED
      BY <1>7, <3>1, <3>2, <3>3
  <2>2. \A u \in Users : thread[u].pc # "idle" =>
           store'[thread[u].item[1]][thread[u].item].shared = thread[u].item
    BY <1>6, GrowthKeeps DEF StoreInv, SharedInv, CallsMeanSomething, Published
  <2>3. QED
    BY <1>4, <1>6, <1>7, <2>1, <2>2, GrowthKeeps DEF SharedInv, Published
<1>11. HintsLive'
  <2>1. \A s \in Refs : refs'[s].cache # Null => refs'[s].cache = refs[s].cache
    BY <1>4 DEF StoreInv, StateType
  <2>2. QED
    BY <1>4, <1>6, <2>1, GrowthKeeps DEF HintsLive
<1>12. QED
  BY <1>8, <1>9, <1>10, <1>11 DEF StoreInv

\* Copies, moves and assignments hand on an id, and a cache only within the
\* locality it was filled on.
LEMMA ReferenceStep ==
  ASSUME StoreInv, NEW r \in Refs, NEW s \in Refs, Copy(r, s) \/ Move(r, s) \/ Assign(r, s)
  PROVE  StoreInv'
<1>1. /\ store' = store /\ thread' = thread /\ chain' = chain /\ created' = created
      /\ refs' \in [Refs -> [id : Ids \cup {None}, cache : Fragments \cup {Null}]]
      /\ \A q \in Refs : /\ refs'[q].id \in {refs[q].id, refs[r].id}
                        /\ refs'[q].cache \in {refs[q].cache, Null}
  <2>1. refs \in [Refs -> [id : Ids \cup {None}, cache : Fragments \cup {Null}]]
    BY DEF StoreInv, StateType
  <2>2. CASE Copy(r, s)
    BY <2>1, <2>2 DEF Copy
  <2>3. CASE Move(r, s)
    BY <2>1, <2>3 DEF Move
  <2>4. CASE Assign(r, s)
    BY <2>1, <2>4 DEF Assign
  <2>5. QED
    BY <2>2, <2>3, <2>4
<1>2. StateType' /\ CallsMeanSomething' /\ ChainDescends'
  BY <1>1 DEF StoreInv, StateType, CallsMeanSomething, ChainDescends, ThreadType
<1>3. SharedInv'
  BY <1>1 DEF StoreInv, SharedInv, Published
<1>4. HintsLive'
  BY <1>1 DEF StoreInv, HintsLive
<1>5. QED
  BY <1>2, <1>3, <1>4 DEF StoreInv

LEMMA CallStep ==
  ASSUME StoreInv, NEW u \in Users, NEW r \in Refs, getFragmentHint(u, r) \/ resize_fragment(u, r)
  PROVE  StoreInv'
<1>1. /\ store' = store /\ refs' = refs /\ chain' = chain /\ created' = created
      /\ Home[r] = Where[u] /\ refs[r].id \in Ids
      /\ \E w \in {{}, {r}} : thread' = [thread EXCEPT ![u] =
           [pc |-> "fragment", ref |-> w, item |-> refs[r].id, result |-> Null]]
  BY DEF getFragmentHint, resize_fragment, Callable, StoreInv, StateType
<1>2. ThreadType'
  BY <1>1 DEF StoreInv, StateType, ThreadType
<1>3. /\ \A v \in Users : v # u => thread'[v] = thread[v]
      /\ thread'[u].pc = "fragment" /\ thread'[u].ref \subseteq {r} /\ thread'[u].item = refs[r].id
  BY <1>1 DEF StoreInv, StateType, ThreadType
<1>4. StateType' /\ ChainDescends'
  BY <1>1, <1>2 DEF StoreInv, StateType, ChainDescends
<1>5. CallsMeanSomething'
  BY <1>1, <1>3 DEF StoreInv, CallsMeanSomething
<1>6. SharedInv'
  <2>1. Published(refs[r].id)
    BY <1>1, ConstantFacts DEF StoreInv, SharedInv
  <2>2. QED
    BY <1>1, <1>3, <2>1 DEF StoreInv, SharedInv, Published
<1>7. HintsLive'
  BY <1>1, <1>3 DEF StoreInv, HintsLive
<1>8. QED
  BY <1>4, <1>5, <1>6, <1>7 DEF StoreInv

-----------------------------------------------------------------------------
(* The steps of a call.                                                    *)

\* What a step of the call of u has to show for itself; the rest of the state
\* keeps its meaning because the store only grows.
CallKept(u) ==
  /\ thread'[u].item = thread[u].item /\ thread'[u].ref = thread[u].ref
  /\ thread'[u].pc \in {"shared", "answer"} => chain'[u] # <<>>
  /\ \A k \in 1 .. Len(chain'[u]) : chain'[u][k] + (Len(chain'[u]) - k) < N
  /\ thread'[u].pc = "answer" => store'[Head(chain'[u])][thread[u].item].shared = thread[u].item
  /\ thread'[u].pc = "return" =>
       /\ thread'[u].result # Null
       /\ store'[Where[u]][thread[u].item].fragment = thread'[u].result

LEMMA CallGoesOn ==
  ASSUME StoreInv, NEW u \in Users, thread[u].pc # "idle", StateType', StoreGrows, refs' = refs,
         \A l \in Localities, i \in Ids : store'[l][i].shared \in {None, i},
         \A v \in Users : v # u => thread'[v] = thread[v] /\ chain'[v] = chain[v],
         CallKept(u)
  PROVE  StoreInv'
<1>1. CallsMeanSomething'
  BY DEF StoreInv, CallsMeanSomething, CallKept
<1>2. ChainDescends'
  <2>1. ASSUME NEW v \in Users PROVE \A k \in 1 .. Len(chain'[v]) : chain'[v][k] + (Len(chain'[v]) - k) < N
    <3>1. CASE v = u
      BY <3>1 DEF CallKept
    <3>2. CASE v # u
      BY <3>2 DEF StoreInv, ChainDescends
    <3>3. QED
      BY <3>1, <3>2
  <2>2. QED
    BY <2>1 DEF ChainDescends
<1>3. SharedInv'
  <2>1. \A j \in Ids : store[j[1]][j].shared = j => store'[j[1]][j].shared = j
    BY GrowthKeeps DEF Published
  <2>2. \A r \in Refs : refs'[r].id # None => store'[refs'[r].id[1]][refs'[r].id].shared = refs'[r].id
    <3>1. \A r \in Refs : refs[r].id # None => refs[r].id \in Ids /\ store[refs[r].id[1]][refs[r].id].shared = refs[r].id
      BY DEF StoreInv, SharedInv, StateType, Published
    <3>2. QED
      BY <2>1, <3>1
  <2>3. ASSUME NEW v \in Users, thread'[v].pc # "idle"
        PROVE  store'[thread'[v].item[1]][thread'[v].item].shared = thread'[v].item
    <3>1. thread[v].pc # "idle" /\ thread'[v].item = thread[v].item
      BY <2>3 DEF CallKept
    <3>2. QED
      BY <2>1, <3>1 DEF StoreInv, SharedInv, CallsMeanSomething, Published
  <2>4. ASSUME NEW v \in Users, thread'[v].pc = "answer"
        PROVE  store'[Head(chain'[v])][thread'[v].item].shared = thread'[v].item
    BY <2>4, GrowthKeeps DEF CallKept
  <2>5. QED
    BY <2>2, <2>3, <2>4 DEF SharedInv, Published
<1>4. HintsLive'
  <2>1. \A r \in Refs : refs'[r].cache # Null => \E i \in Ids : store'[Home[r]][i].fragment = refs'[r].cache
    BY GrowthKeeps
  <2>2. ASSUME NEW v \in Users, thread'[v].pc = "return"
        PROVE  store'[Where[v]][thread'[v].item].fragment = thread'[v].result
    BY <2>2, GrowthKeeps DEF CallKept
  <2>3. QED
    BY <2>1, <2>2 DEF HintsLive
<1>5. QED
  BY <1>1, <1>2, <1>3, <1>4 DEF StoreInv

\* What is known of the call a thread is in.
LEMMA CallFacts ==
  ASSUME StoreInv, NEW u \in Users, thread[u].pc # "idle"
  PROVE  /\ thread[u].item \in Ids /\ thread[u].item # None /\ Where[u] \in Localities
         /\ \A l \in Localities : /\ store[l][thread[u].item] \in Entries
                                 /\ store[l][thread[u].item].shared \in {None, thread[u].item}
                                 /\ lookup(l, thread[u].item) \in Entries
                                 /\ lookup(l, thread[u].item).shared = store[l][thread[u].item].shared
                                 /\ lookup(l, thread[u].item).fragment = store[l][thread[u].item].fragment
<1>1. thread[u].item \in Ids /\ thread[u].item # None /\ Where[u] \in Localities
  BY ConstantFacts, StoreAssumption DEF StoreInv, CallsMeanSomething
<1>2. \A l \in Localities : /\ store[l][thread[u].item] \in Entries
                            /\ store[l][thread[u].item].shared \in {None, thread[u].item}
  BY <1>1 DEF StoreInv, StateType, SharedInv
<1>3. QED
  BY <1>1, <1>2 DEF lookup, Entries

\* A step of the call of u that leaves the entry e behind.
LEMMA EntryKept ==
  ASSUME StoreInv, NEW u \in Users, thread[u].pc # "idle", NEW l \in Localities, NEW e \in Entries,
         Entry(l, thread[u].item, e),
         store[l][thread[u].item].fragment # Null => e.fragment = store[l][thread[u].item].fragment,
         store[l][thread[u].item].shared # None => e.shared = store[l][thread[u].item].shared,
         e.shared \in {None, thread[u].item}
  PROVE  /\ store' \in [Localities -> [Ids -> Entries]]
         /\ store'[l][thread[u].item] = e
         /\ StoreGrows
         /\ \A m \in Localities, i \in Ids : store'[m][i].shared \in {None, i}
<1>1. PICK i \in Ids : i = thread[u].item
  BY CallFacts
<1>2. /\ store' \in [Localities -> [Ids -> Entries]] /\ store'[l][i] = e
      /\ \A m \in Localities, j \in Ids : <<m, j>> # <<l, i>> => store'[m][j] = store[m][j]
      /\ StoreGrows
  BY <1>1, EntryUpdate DEF StoreInv
<1>3. QED
  BY <1>1, <1>2 DEF StoreInv, SharedInv

LEMMA FindFragmentStep ==
  ASSUME StoreInv, NEW u \in Users, FindFragment(u)
  PROVE  StoreInv'
<1> DEFINE e == lookup(Where[u], thread[u].item)
<1>1. thread[u].pc # "idle" /\ Entry(Where[u], thread[u].item, e) /\ refs' = refs /\ created' = created
  BY DEF FindFragment
<1>2. /\ store' \in [Localities -> [Ids -> Entries]] /\ store'[Where[u]][thread[u].item] = e
      /\ StoreGrows /\ \A m \in Localities, i \in Ids : store'[m][i].shared \in {None, i}
  BY <1>1, CallFacts, EntryKept
<1>3. CASE e.fragment # Null
  <2>1. /\ thread' = [thread EXCEPT ![u].pc = "return", ![u].result = e.fragment] /\ chain' = chain
        /\ e.fragment \in Fragments
    BY <1>1, <1>3, CallFacts DEF FindFragment, Entries, Fragments
  <2>2. ThreadType' /\ chain' \in [Users -> Seq(Localities)]
    BY <2>1 DEF StoreInv, StateType, ThreadType
  <2>3. /\ thread'[u].pc = "return" /\ thread'[u].result = e.fragment
        /\ thread'[u].item = thread[u].item /\ thread'[u].ref = thread[u].ref
        /\ \A v \in Users : v # u => thread'[v] = thread[v]
    BY <2>1 DEF StoreInv, StateType, ThreadType
  <2>4. StateType'
    BY <1>1, <1>2, <2>2 DEF StoreInv, StateType
  <2>5. CallKept(u)
    BY <1>2, <1>3, <2>1, <2>3 DEF CallKept, StoreInv, ChainDescends
  <2>6. QED
    BY <1>1, <1>2, <2>1, <2>3, <2>4, <2>5, CallGoesOn
<1>4. CASE e.fragment = Null
  <2>1. thread' = [thread EXCEPT ![u].pc = "shared"] /\ chain' = [chain EXCEPT ![u] = <<Where[u]>>]
    BY <1>4 DEF FindFragment
  <2>2. ThreadType' /\ chain' \in [Users -> Seq(Localities)]
    <3>1. <<Where[u]>> \in Seq(Localities)
      BY <1>1, CallFacts
    <3>2. chain' \in [Users -> Seq(Localities)]
      BY <2>1, <3>1 DEF StoreInv, StateType
    <3>3. ThreadType'
      BY <2>1 DEF StoreInv, StateType, ThreadType
    <3>4. QED
      BY <3>2, <3>3
  <2>3. /\ thread'[u].pc = "shared" /\ chain'[u] = <<Where[u]>>
        /\ thread'[u].item = thread[u].item /\ thread'[u].ref = thread[u].ref
        /\ \A v \in Users : v # u => thread'[v] = thread[v] /\ chain'[v] = chain[v]
    BY <2>1 DEF StoreInv, StateType, ThreadType
  <2>4. StateType'
    BY <1>1, <1>2, <2>2 DEF StoreInv, StateType
  <2>5. CallKept(u)
    <3>1. Where[u] \in 0 .. N - 1 /\ N \in Nat
      BY StoreAssumption DEF Localities
    <3>2. \A k \in 1 .. Len(chain'[u]) : chain'[u][k] + (Len(chain'[u]) - k) < N
      BY <2>3, <3>1
    <3>3. chain'[u] # <<>>
      BY <2>3
    <3>4. QED
      BY <2>3, <3>2, <3>3 DEF CallKept
  <2>6. QED
    BY <1>1, <1>2, <2>3, <2>4, <2>5, CallGoesOn
<1>5. QED
  BY <1>3, <1>4

\* The parent of a locality other than 0 is a locality with a smaller number.
LEMMA ParentBelow ==
  ASSUME NEW l \in Localities, l # 0
  PROVE  shared_data_parent(l) \in Localities /\ shared_data_parent(l) < l
<1>1. l \in Nat /\ l > 0 /\ l < N /\ N \in Nat
  BY StoreAssumption DEF Localities
<1>2. (l - 1) \div 2 \in Nat /\ (l - 1) \div 2 < l
  BY <1>1
<1>3. QED
  BY <1>1, <1>2 DEF shared_data_parent, Localities

LEMMA SharedFindStep ==
  ASSUME StoreInv, NEW u \in Users, SharedFind(u)
  PROVE  StoreInv'
<1>1. PICK l \in Localities : l = Head(chain[u]) /\ l = chain[u][1] /\ Len(chain[u]) > 0
  BY DEF SharedFind, StoreInv, StateType, CallsMeanSomething
<1> DEFINE e == lookup(l, thread[u].item)
<1>2. /\ thread[u].pc # "idle" /\ Entry(l, thread[u].item, e) /\ refs' = refs /\ created' = created
      /\ chain[u] \in Seq(Localities)
  BY <1>1 DEF SharedFind, StoreInv, StateType
<1>3. /\ store' \in [Localities -> [Ids -> Entries]] /\ store'[l][thread[u].item] = e
      /\ StoreGrows /\ \A m \in Localities, i \in Ids : store'[m][i].shared \in {None, i}
  BY <1>2, CallFacts, EntryKept
<1>4. CASE e.shared # None
  <2>1. thread' = [thread EXCEPT ![u].pc = "answer"] /\ chain' = chain
    BY <1>1, <1>4 DEF SharedFind
  <2>2. ThreadType'
    BY <2>1 DEF StoreInv, StateType, ThreadType
  <2>3. /\ thread'[u].pc = "answer" /\ thread'[u].item = thread[u].item /\ thread'[u].ref = thread[u].ref
        /\ \A v \in Users : v # u => thread'[v] = thread[v]
    BY <2>1 DEF StoreInv, StateType, ThreadType
  <2>4. StateType'
    BY <1>2, <1>3, <2>1, <2>2 DEF StoreInv, StateType
  <2>5. e.shared = thread[u].item
    BY <1>2, <1>4, CallFacts
  <2>6. CallKept(u)
    BY <1>1, <1>3, <2>1, <2>3, <2>5 DEF CallKept, StoreInv, ChainDescends
  <2>7. QED
    BY <1>2, <1>3, <2>1, <2>3, <2>4, <2>6, CallGoesOn
<1>5. CASE e.shared = None
  <2>1. thread' = thread /\ chain' = [chain EXCEPT ![u] = <<shared_data_parent(l)>> \o @] /\ l # 0
        /\ thread[u].pc = "shared"
    BY <1>1, <1>5 DEF SharedFind
  <2>2. PICK p \in Localities : p = shared_data_parent(l) /\ p < l
    BY <2>1, ParentBelow
  <2>3. chain' \in [Users -> Seq(Localities)]
    BY <2>1, <2>2 DEF StoreInv, StateType
  <2>4. /\ chain'[u] = <<p>> \o chain[u]
        /\ \A v \in Users : v # u => chain'[v] = chain[v]
    BY <2>1, <2>2 DEF StoreInv, StateType
  <2>5. StateType'
    BY <1>2, <1>3, <2>1, <2>3 DEF StoreInv, StateType, ThreadType
  <2>6. /\ Len(chain'[u]) = Len(chain[u]) + 1 /\ chain'[u][1] = p
        /\ \A k \in 1 .. Len(chain[u]) : chain'[u][k + 1] = chain[u][k]
    BY <1>2, <2>4
  <2>7. \A k \in 1 .. Len(chain'[u]) : chain'[u][k] + (Len(chain'[u]) - k) < N
    <3>1. /\ N \in Nat /\ l \in Nat /\ p \in Nat /\ Len(chain[u]) \in Nat
          /\ \A k \in 1 .. Len(chain[u]) : chain[u][k] \in Nat
      BY <1>2, StoreAssumption DEF Localities
    <3>2. \A k \in 1 .. Len(chain[u]) : chain[u][k] + (Len(chain[u]) - k) < N
      BY DEF StoreInv, ChainDescends
    <3>3. p + Len(chain[u]) < N
      BY <1>1, <2>2, <3>1, <3>2
    <3>4. ASSUME NEW k \in 1 .. Len(chain'[u])
          PROVE  chain'[u][k] + (Len(chain'[u]) - k) < N
      <4>1. CASE k = 1
        BY <2>6, <3>1, <3>3, <4>1
      <4>2. CASE k # 1
        <5>1. k - 1 \in 1 .. Len(chain[u]) /\ (k - 1) + 1 = k
          BY <2>6, <3>1, <4>2
        <5>2. chain'[u][k] = chain[u][k - 1]
          BY <2>6, <5>1
        <5>3. chain[u][k - 1] + (Len(chain[u]) - (k - 1)) < N
          BY <3>2, <5>1
        <5>4. QED
          BY <2>6, <3>1, <5>1, <5>2, <5>3
      <4>3. QED
        BY <4>1, <4>2
    <3>5. QED
      BY <3>4
  <2>8. chain'[u] # <<>>
    BY <1>1, <2>3, <2>6
  <2>9. CallKept(u)
    BY <2>1, <2>7, <2>8 DEF CallKept
  <2>10. QED
    BY <1>2, <1>3, <2>1, <2>4, <2>5, <2>9, CallGoesOn
<1>6. QED
  BY <1>4, <1>5

LEMMA SharedStoreStep ==
  ASSUME StoreInv, NEW u \in Users, SharedStore(u)
  PROVE  StoreInv'
<1>1. /\ chain[u] \in Seq(Localities) /\ Len(chain[u]) > 1 /\ thread[u].pc = "answer"
      /\ thread' = thread /\ chain' = [chain EXCEPT ![u] = Tail(@)] /\ refs' = refs /\ created' = created
  BY DEF SharedStore, StoreInv, StateType
<1>2. PICK l \in Localities : l = chain[u][2]
  BY <1>1
<1>3. thread[u].pc # "idle"
  BY <1>1
<1>4. PICK i \in Ids : i = thread[u].item /\ i # None
  BY <1>3, CallFacts
<1>5. store[Head(chain[u])][i].shared = i
  BY <1>1, <1>4 DEF StoreInv, SharedInv
<1>6. PICK e \in Entries : /\ Entry(l, i, e) /\ e.shared = i /\ e.fragment = store[l][i].fragment
                          /\ store[l][i].shared \in {None, i}
  <2>1. store[l][i] \in Entries /\ store[l][i].shared \in {None, i}
    BY <1>3, <1>4, CallFacts
  <2>2. Entry(l, i, IF store[l][i].shared = None THEN [store[l][i] EXCEPT !.shared = i] ELSE store[l][i])
    BY <1>2, <1>4, <1>5 DEF SharedStore
  <2>3. CASE store[l][i].shared = None
    <3>1. [store[l][i] EXCEPT !.shared = i] \in Entries
      BY <2>1 DEF Entries
    <3>2. /\ [store[l][i] EXCEPT !.shared = i].shared = i
          /\ [store[l][i] EXCEPT !.shared = i].fragment = store[l][i].fragment
      BY <2>1 DEF Entries
    <3>3. QED
      BY <2>1, <2>2, <2>3, <3>1, <3>2
  <2>4. CASE store[l][i].shared # None
    BY <2>1, <2>2, <2>4
  <2>5. QED
    BY <2>3, <2>4
<1>7. /\ store' \in [Localities -> [Ids -> Entries]] /\ store'[l][i] = e
      /\ StoreGrows /\ \A m \in Localities, j \in Ids : store'[m][j].shared \in {None, j}
  BY <1>3, <1>4, <1>6, EntryKept
<1>8. /\ Tail(chain[u]) \in Seq(Localities) /\ Len(Tail(chain[u])) = Len(chain[u]) - 1
      /\ \A k \in 1 .. Len(chain[u]) - 1 : Tail(chain[u])[k] = chain[u][k + 1]
  BY <1>1
<1>9. /\ chain' \in [Users -> Seq(Localities)] /\ chain'[u] = Tail(chain[u])
      /\ \A v \in Users : v # u => chain'[v] = chain[v]
  BY <1>1, <1>8 DEF StoreInv, StateType
<1>10. StateType'
  BY <1>1, <1>7, <1>9 DEF StoreInv, StateType, ThreadType
<1>11. CallKept(u)
  <2>1. Len(chain[u]) \in Nat /\ N \in Nat /\ \A k \in 1 .. Len(chain[u]) : chain[u][k] \in Nat
    BY <1>1, StoreAssumption DEF Localities
  <2>2. \A k \in 1 .. Len(chain[u]) : chain[u][k] + (Len(chain[u]) - k) < N
    BY DEF StoreInv, ChainDescends
  <2>3. ASSUME NEW k \in 1 .. Len(chain[u]) - 1
        PROVE  Tail(chain[u])[k] + ((Len(chain[u]) - 1) - k) < N
    <3>1. k + 1 \in 1 .. Len(chain[u]) /\ k \in Nat
      BY <2>1
    <3>2. chain[u][k + 1] + (Len(chain[u]) - (k + 1)) < N
      BY <2>2, <3>1
    <3>3. QED
      BY <1>8, <2>1, <3>1, <3>2
  <2>4. chain'[u] # <<>> /\ Head(chain'[u]) = l
    <3>1. PICK t \in Seq(Localities) : t = Tail(chain[u])
      BY <1>8
    <3>2. Len(t) # 0
      BY <1>1, <1>8, <2>1, <3>1
    <3>3. 1 \in 1 .. Len(chain[u]) - 1 /\ 1 + 1 = 2
      BY <1>1, <2>1
    <3>4. t[1] = chain[u][2]
      BY <1>8, <3>1, <3>3
    <3>5. t # <<>>
      BY <3>2
    <3>6. Head(t) = t[1]
      BY <3>5
    <3>7. QED
      BY <1>2, <1>9, <3>1, <3>4, <3>5, <3>6
  <2>5. \A k \in 1 .. Len(chain'[u]) : chain'[u][k] + (Len(chain'[u]) - k) < N
    BY <1>8, <1>9, <2>3
  <2>6. QED
    BY <1>1, <1>4, <1>6, <1>7, <2>4, <2>5 DEF CallKept
<1>12. QED
  BY <1>1, <1>3, <1>7, <1>9, <1>10, <1>11, CallGoesOn

LEMMA MakeFragmentStep ==
  ASSUME StoreInv, NEW u \in Users, MakeFragment(u)
  PROVE  StoreInv'
<1> DEFINE l == Where[u]
<1>1. thread[u].pc # "idle" /\ thread[u].pc = "answer" /\ l \in Localities
  BY StoreAssumption DEF MakeFragment
<1>2. PICK i \in Ids : i = thread[u].item /\ i # None
  BY <1>1, CallFacts
<1>3. store[l][i] \in Entries /\ store[l][i].shared \in {None, i}
  BY <1>1, <1>2, CallFacts
<1> DEFINE e == built_fragment(l, i, store[l][i])
<1>4. /\ Entry(l, i, e) /\ refs' = refs /\ created' = created
      /\ chain' = [chain EXCEPT ![u] = <<>>]
      /\ thread' = [thread EXCEPT ![u].pc = "return", ![u].result = e.fragment]
  BY <1>2 DEF MakeFragment
<1>5. /\ e \in Entries /\ e.shared = store[l][i].shared /\ e.fragment \in Fragments
      /\ store[l][i].fragment # Null => e.fragment = store[l][i].fragment
  <2>1. CASE store[l][i].fragment = Null
    <3>1. PICK f \in Fragments : f = Fragment(l, i, store[l][i].built)
      BY <1>1, <1>3, ConstantFacts DEF Entries
    <3>2. e = [store[l][i] EXCEPT !.fragment = f, !.built = @ + 1]
      BY <2>1, <3>1 DEF built_fragment
    <3>3. PICK d \in Entries : d = store[l][i]
      BY <1>3
    <3>4. [d EXCEPT !.fragment = f, !.built = @ + 1] \in Entries
      <4>1. Entries = [here : BOOLEAN, shared : Ids \cup {None}, fragment : Fragments \cup {Null}, built : Nat]
        BY DEF Entries, Fragments
      <4>2. d.built + 1 \in Nat
        BY <4>1
      <4>3. [d EXCEPT !.fragment = f] \in Entries
        BY <4>1
      <4>4. PICK b \in Nat : b = d.built + 1
        BY <4>2
      <4>5. [d EXCEPT !.fragment = f, !.built = b] \in Entries
        BY <4>1
      <4>6. QED
        BY <4>4, <4>5
    <3>5. /\ [d EXCEPT !.fragment = f, !.built = @ + 1].shared = d.shared
          /\ [d EXCEPT !.fragment = f, !.built = @ + 1].fragment = f
      BY DEF Entries
    <3>6. QED
      BY <2>1, <3>2, <3>3, <3>4, <3>5
  <2>2. CASE store[l][i].fragment # Null
    BY <1>3, <2>2 DEF built_fragment, Entries, Fragments
  <2>3. QED
    BY <2>1, <2>2
<1> HIDE DEF l, e
<1>6. /\ store' \in [Localities -> [Ids -> Entries]] /\ store'[l][i] = e
      /\ StoreGrows /\ \A m \in Localities, j \in Ids : store'[m][j].shared \in {None, j}
  BY <1>1, <1>2, <1>3, <1>4, <1>5, EntryKept
<1>7. ThreadType' /\ chain' \in [Users -> Seq(Localities)]
  <2>1. chain' \in [Users -> Seq(Localities)]
    BY <1>4 DEF StoreInv, StateType
  <2>2. PICK f \in Fragments : f = e.fragment
    BY <1>5
  <2>3. thread' = [thread EXCEPT ![u].pc = "return", ![u].result = f]
    BY <1>4, <2>2
  <2>4. ThreadType
    BY DEF StoreInv, StateType
  <2>5. ThreadType'
    BY <2>3, <2>4 DEF ThreadType
  <2>6. QED
    BY <2>1, <2>5
<1>8. /\ thread'[u].pc = "return" /\ thread'[u].result = e.fragment /\ chain'[u] = <<>>
      /\ thread'[u].item = thread[u].item /\ thread'[u].ref = thread[u].ref
      /\ \A v \in Users : v # u => thread'[v] = thread[v] /\ chain'[v] = chain[v]
  BY <1>4 DEF StoreInv, StateType, ThreadType
<1>9. StateType'
  BY <1>4, <1>6, <1>7 DEF StoreInv, StateType
<1>10. CallKept(u)
  <2>1. e.fragment # Null
    BY <1>5, ConstantFacts
  <2>2. \A k \in 1 .. Len(chain'[u]) : chain'[u][k] + (Len(chain'[u]) - k) < N
    BY <1>8
  <2>3. store'[Where[u]][thread[u].item].fragment = e.fragment
    BY <1>2, <1>6 DEF l
  <2>4. QED
    BY <1>8, <2>1, <2>2, <2>3 DEF CallKept
<1>11. QED
  BY <1>1, <1>4, <1>6, <1>8, <1>9, <1>10, CallGoesOn

LEMMA ReturnStep ==
  ASSUME StoreInv, NEW u \in Users, Return(u)
  PROVE  StoreInv'
<1>1. /\ thread[u].pc = "return" /\ thread' = [thread EXCEPT ![u] = Idle]
      /\ created' = created /\ store' = store /\ chain' = chain
      /\ refs' = [r \in Refs |-> IF r \in thread[u].ref THEN [refs[r] EXCEPT !.cache = thread[u].result]
                                                        ELSE refs[r]]
  BY DEF Return
<1>2. ThreadType' /\ thread'[u] = Idle /\ \A v \in Users : v # u => thread'[v] = thread[v]
  BY <1>1 DEF StoreInv, StateType, ThreadType, Idle
<1>3. thread[u].result \in Fragments \cup {Null} /\ thread[u].ref \subseteq Refs
  BY DEF StoreInv, StateType, ThreadType
<1>4. /\ refs' \in [Refs -> [id : Ids \cup {None}, cache : Fragments \cup {Null}]]
      /\ \A r \in Refs : refs'[r].id = refs[r].id
      /\ \A r \in Refs : refs'[r].cache = IF r \in thread[u].ref THEN thread[u].result ELSE refs[r].cache
  BY <1>1, <1>3 DEF StoreInv, StateType
<1>5. StateType' /\ ChainDescends'
  BY <1>1, <1>2, <1>4 DEF StoreInv, StateType, ChainDescends
<1>6. CallsMeanSomething'
  BY <1>1, <1>2 DEF StoreInv, CallsMeanSomething, Idle
<1>7. SharedInv'
  BY <1>1, <1>2, <1>4 DEF StoreInv, SharedInv, Published, Idle
<1>8. HintsLive'
  <2>1. ASSUME NEW r \in Refs, refs'[r].cache # Null
        PROVE  \E i \in Ids : store[Home[r]][i].fragment = refs'[r].cache
    <3>1. CASE r \in thread[u].ref
      <4>1. /\ Home[r] = Where[u] /\ thread[u].item \in Ids
            /\ store[Where[u]][thread[u].item].fragment = thread[u].result
        BY <1>1, <3>1 DEF StoreInv, CallsMeanSomething, HintsLive
      <4>2. QED
        BY <1>4, <3>1, <4>1
    <3>2. CASE r \notin thread[u].ref
      BY <1>4, <2>1, <3>2 DEF StoreInv, HintsLive
    <3>3. QED
      BY <3>1, <3>2
  <2>2. \A v \in Users : thread'[v].pc = "return" =>
           store[Where[v]][thread'[v].item].fragment = thread'[v].result
    BY <1>2 DEF StoreInv, HintsLive, Idle
  <2>3. QED
    BY <1>1, <2>1, <2>2 DEF HintsLive
<1>9. QED
  BY <1>5, <1>6, <1>7, <1>8 DEF StoreInv

-----------------------------------------------------------------------------
(* The theorems.                                                           *)

LEMMA NextStoreInv == StoreInv /\ [Next]_vars => StoreInv'
<1> SUFFICES ASSUME StoreInv, [Next]_vars PROVE StoreInv'
  OBVIOUS
<1>1. CASE UNCHANGED vars
  BY <1>1 DEF vars, StoreInv, StateType, ThreadType, CallsMeanSomething, ChainDescends, SharedInv, Published, HintsLive
<1>2. CASE Program
  BY <1>2, CreateStep, ReferenceStep, CallStep DEF Program
<1>3. CASE \E u \in Users : UserStep(u)
  BY <1>3, FindFragmentStep, SharedFindStep, SharedStoreStep, MakeFragmentStep, ReturnStep DEF UserStep
<1>4. QED
  BY <1>1, <1>2, <1>3 DEF Next

LEMMA AlwaysStoreInv == Spec => []StoreInv
BY InitStoreInv, NextStoreInv, PTL DEF Spec

\* Every variable has its type; a fetch of shared data asks no more localities
\* than there are, since (id - 1) / 2 descends (data_item_manager_impl.hpp, shared_data).
THEOREM StoreTypeCorrect == Spec => []TypeOK
<1>1. StoreInv => TypeOK
  <2> SUFFICES ASSUME StoreInv PROVE TypeOK
    OBVIOUS
  <2>1. ASSUME NEW u \in Users PROVE Len(chain[u]) <= N
    <3>1. /\ chain[u] \in Seq(Localities) /\ Len(chain[u]) \in Nat /\ N \in Nat
          /\ \A k \in 1 .. Len(chain[u]) : chain[u][k] \in Nat
      BY StoreAssumption DEF StoreInv, StateType, Localities
    <3>2. \A k \in 1 .. Len(chain[u]) : chain[u][k] + (Len(chain[u]) - k) < N
      BY DEF StoreInv, ChainDescends
    <3>3. CASE Len(chain[u]) = 0
      BY <3>1, <3>3
    <3>4. CASE Len(chain[u]) # 0
      <4>1. chain[u][1] + (Len(chain[u]) - 1) < N /\ chain[u][1] \in Nat
        BY <3>1, <3>2, <3>4
      <4>2. QED
        BY <3>1, <4>1
    <3>5. QED
      BY <3>3, <3>4
  <2>2. QED
    BY <2>1 DEF StoreInv, StateType, ThreadType, TypeOK
<1>2. QED
  BY <1>1, AlwaysStoreInv, PTL

\* No address that a reference caches or a call is about to return is ever
\* that of a replaced fragment: the second test in fragment, after the mutex was
\* released for the fetch, suffices for every number of threads.
THEOREM HintsStayLive == Spec => []HintsLive
<1>1. StoreInv => HintsLive
  BY DEF StoreInv
<1>2. QED
  BY <1>1, AlwaysStoreInv, PTL

\* When all items are created on locality 0, as the program's main does, the
\* fetch finds them there at the latest: HPX_ASSERT(this_id != 0) holds, and
\* every locality on the way back has stored the data before it answers.
THEOREM AnswersStored ==
  ASSUME CreateAt = {0}
  PROVE  Spec => []AnswersAreStored
<1>1. StoreInv => AnswersAreStored
  <2> SUFFICES ASSUME StoreInv, NEW u \in Users
               PROVE  /\ (thread[u].pc = "shared" /\ Head(chain[u]) = 0) => store[0][thread[u].item].shared # None
                      /\ thread[u].pc = "answer" => store[Head(chain[u])][thread[u].item].shared = thread[u].item
    BY DEF AnswersAreStored
  <2>1. ASSUME thread[u].pc = "shared" PROVE store[0][thread[u].item].shared # None
    <3>1. thread[u].item \in Ids /\ thread[u].item # None
      BY <2>1, CallFacts
    <3>2. thread[u].item[1] = 0
      BY <3>1, ConstantFacts
    <3>3. QED
      BY <2>1, <3>1, <3>2 DEF StoreInv, SharedInv, Published
  <2>2. thread[u].pc = "answer" => store[Head(chain[u])][thread[u].item].shared = thread[u].item
    BY DEF StoreInv, SharedInv
  <2>3. QED
    BY <2>1, <2>2
<1>2. QED
  BY <1>1, AlwaysStoreInv, PTL
==============================================================================
