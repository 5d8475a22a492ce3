--------------------------- MODULE ComObjectsProofs ---------------------------
(***************************************************************************)
(* Theorems about ComObjects, for every set of threads and objects: the    *)
(* types, the balance of the reference counts, and that the DLL is freed   *)
(* only when nothing refers into it.                                       *)
(***************************************************************************)
EXTENDS ComObjects, FiniteSetTheorems, TLAPS

-----------------------------------------------------------------------------
\* Slots: a thread's variables are apart from its locals and from token_.

LEMMA SlotFacts ==
  ASSUME NEW t \in Threads
  PROVE  /\ Outs(t) \subseteq ClientSlots /\ Outs(t) \subseteq Slots
         /\ Local(t) \subseteq Slots /\ Vector(t) \subseteq Local(t)
         /\ Object(t) \in Local(t) /\ Interface(t) \in Local(t) /\ Old(t) \in Local(t)
  BY DEF Slots, ClientSlots, Local

LEMMA ClientApart ==
  ASSUME NEW s \in ClientSlots
  PROVE  /\ s \in Slots /\ s # <<>> /\ s[1] \in Threads
         /\ \A t \in Threads : s \notin Local(t)
         /\ \A o \in Objects : s # TokenOf(o)
<1>1. PICK u \in Threads : s \in Outs(u)
  BY DEF ClientSlots
<1>2. s[1] = u /\ s[2] = "out" /\ s # <<>>
  BY <1>1 DEF Outs
<1>3. \A t \in Threads : s \notin Local(t)
  BY <1>2 DEF Local, Object, Interface, Old, Vector
<1> QED
  BY <1>1, <1>2, <1>3 DEF Slots, ClientSlots, TokenOf

LEMMA TokenSlots ==
  ASSUME NEW o \in Objects
  PROVE  /\ TokenOf(o) \in Slots
         /\ \A t \in Threads : TokenOf(o) \notin Local(t)
         /\ \A p \in Objects : TokenOf(p) = TokenOf(o) => p = o
<1>1. TokenOf(o) = <<o, "token_", 0>>
  BY DEF TokenOf
<1>2. \A t \in Threads : TokenOf(o) \notin Local(t)
  BY <1>1 DEF Local, Object, Interface, Old, Vector
<1>3. TokenOf(o) \in Slots
  BY DEF Slots
<1>4. \A p \in Objects : TokenOf(p) = TokenOf(o) => p = o
  BY DEF TokenOf
<1> QED
  BY <1>2, <1>3, <1>4

\* A local belongs to one thread, and its object slot is not one of its others.
LEMMA LocalsApart ==
  ASSUME NEW t \in Threads, NEW u \in Threads, NEW s \in Local(t), s \in Local(u)
  PROVE  t = u
  BY DEF Local, Object, Interface, Old, Vector

LEMMA ObjectSlotApart ==
  ASSUME NEW t \in Threads, NEW u \in Threads
  PROVE  /\ Object(t) # Interface(u) /\ Object(t) # Old(u) /\ Object(t) \notin Vector(u)
         /\ Interface(t) # Old(u) /\ (Object(t) = Object(u) => t = u)
  BY DEF Object, Interface, Old, Vector

-----------------------------------------------------------------------------
\* Balance: references f and counts r.
Refs(f, o) == {s \in Slots : f[s] = o}
Typed(f, r) == f \in [Slots -> Objects \cup {Null}] /\ r \in [Objects -> Nat]
Balanced(f, r) ==
  \A o \in Objects : IsFiniteSet(Refs(f, o)) /\ r[o] = Cardinality(Refs(f, o))

\* A reference more, to an object, is one more in its count and in no other's.
LEMMA OneMore ==
  ASSUME NEW f, NEW r, Typed(f, r), Balanced(f, r),
         NEW s \in Slots, f[s] = Null, NEW o \in Objects
  PROVE  LET g == [f EXCEPT ![s] = o]
             q == [r EXCEPT ![o] = @ + 1]
         IN Typed(g, q) /\ Balanced(g, q)
<1> DEFINE g == [f EXCEPT ![s] = o]
           q == [r EXCEPT ![o] = @ + 1]
<1>1. o # Null
  BY ComAssumption
<1>2. Refs(g, o) = Refs(f, o) \cup {s} /\ s \notin Refs(f, o)
  BY <1>1 DEF Refs, Typed
<1>3. \A p \in Objects : p # o => Refs(g, p) = Refs(f, p)
  BY ComAssumption DEF Refs, Typed
<1>4. /\ IsFiniteSet(Refs(g, o))
      /\ Cardinality(Refs(g, o)) = Cardinality(Refs(f, o)) + 1
  BY <1>2, FS_AddElement DEF Balanced
<1>5. Typed(g, q)
  BY DEF Typed
<1>6. ASSUME NEW p \in Objects PROVE IsFiniteSet(Refs(g, p)) /\ q[p] = Cardinality(Refs(g, p))
  <2>1. CASE p = o
    BY <1>4, <2>1 DEF Balanced, Typed
  <2>2. CASE p # o
    BY <1>3, <2>2 DEF Balanced, Typed
  <2> QED
    BY <2>1, <2>2
<1> HIDE DEF g, q
<1>7. Balanced(g, q)
  BY <1>6 DEF Balanced
<1> QED
  BY <1>5, <1>7 DEF g, q

\* A reference less; the last one leaves none.
LEMMA OneLess ==
  ASSUME NEW f, NEW r, Typed(f, r), Balanced(f, r), NEW s \in Slots, f[s] # Null
  PROVE  LET g == [f EXCEPT ![s] = Null]
             q == [r EXCEPT ![f[s]] = @ - 1]
         IN Typed(g, q) /\ Balanced(g, q) /\ r[f[s]] > 0
<1> DEFINE o == f[s]
           g == [f EXCEPT ![s] = Null]
           q == [r EXCEPT ![f[s]] = @ - 1]
<1>1. o \in Objects
  BY DEF Typed
<1>2. Refs(g, o) = Refs(f, o) \ {s} /\ s \in Refs(f, o)
  BY <1>1, ComAssumption DEF Refs, Typed
<1>3. \A p \in Objects : p # o => Refs(g, p) = Refs(f, p)
  BY ComAssumption DEF Refs, Typed
<1>4. /\ IsFiniteSet(Refs(g, o)) /\ Cardinality(Refs(g, o)) \in Nat
      /\ Cardinality(Refs(g, o)) = Cardinality(Refs(f, o)) - 1
  <2>1. IsFiniteSet(Refs(f, o))
    BY <1>1 DEF Balanced
  <2>2. /\ IsFiniteSet(Refs(f, o) \ {s})
        /\ Cardinality(Refs(f, o) \ {s}) = Cardinality(Refs(f, o)) - 1
    BY <1>2, <2>1, FS_RemoveElement
  <2> QED
    BY <1>2, <2>2, FS_CardinalityType
<1>5. r[o] \in Nat /\ r[o] = Cardinality(Refs(f, o)) /\ r[o] > 0
  BY <1>1, <1>4 DEF Balanced, Typed
<1>6. Typed(g, q)
  BY <1>1, <1>5 DEF Typed
<1>7. ASSUME NEW p \in Objects PROVE IsFiniteSet(Refs(g, p)) /\ q[p] = Cardinality(Refs(g, p))
  <2>1. CASE p = o
    BY <1>4, <1>5, <2>1 DEF Balanced, Typed
  <2>2. CASE p # o
    BY <1>3, <2>2 DEF Balanced, Typed
  <2> QED
    BY <2>1, <2>2
<1> HIDE DEF g, q
<1>8. Balanced(g, q)
  BY <1>7 DEF Balanced
<1> QED
  BY <1>5, <1>6, <1>8 DEF g, q

\* A reference that moves counts the same.
LEMMA OneMoved ==
  ASSUME NEW f, NEW r, Typed(f, r), Balanced(f, r),
         NEW s \in Slots, f[s] # Null, NEW d \in Slots, f[d] = Null
  PROVE  LET g == [f EXCEPT ![d] = f[s], ![s] = Null] IN Typed(g, r) /\ Balanced(g, r)
<1> DEFINE o == f[s]
           f1 == [f EXCEPT ![s] = Null]
           r1 == [r EXCEPT ![o] = @ - 1]
           f2 == [f1 EXCEPT ![d] = o]
           r2 == [r1 EXCEPT ![o] = @ + 1]
           g == [f EXCEPT ![d] = f[s], ![s] = Null]
<1>1. o \in Objects /\ d # s
  BY DEF Typed
<1>2. Typed(f1, r1) /\ Balanced(f1, r1) /\ r[o] > 0
  BY OneLess
<1>3. f1[d] = Null
  BY <1>1 DEF Typed
<1>4. Typed(f2, r2) /\ Balanced(f2, r2)
  BY <1>1, <1>2, <1>3, OneMore
<1>5. f2 = g
  BY <1>1 DEF Typed
<1>6. r2 = r
  <2>1. r \in [Objects -> Nat]
    BY DEF Typed
  <2>2. r[o] \in Nat /\ r[o] - 1 + 1 = r[o]
    BY <1>1, <2>1
  <2>3. \A p \in Objects : r2[p] = r[p]
    BY <1>1, <2>1, <2>2
  <2>4. r2 \in [Objects -> Nat]
    BY <1>1, <1>2, <1>4 DEF Typed
  <2> HIDE DEF r2
  <2> QED
    BY <2>1, <2>3, <2>4
<1> QED
  BY <1>4, <1>5, <1>6

-----------------------------------------------------------------------------
\* Memory: what holds of objects, references and counts together.

PcSteps == {"idle", "new", "count", "query", "get", "scope", "hand", "leave", "launch"}
MemoryTypes ==
  /\ Typed(ref, rc)
  /\ phase \in [Objects -> {"free", "uncounted", "counted"}]
  /\ pc \in [Threads -> PcSteps]
  /\ dying \in [Threads -> Objects \cup {Null}]
  /\ count \in Nat /\ locks \in Nat

Counted == {o \in Objects : phase[o] = "counted"}
CountRight == count = locks + Cardinality(Counted)

\* References are to counted objects; object<T> alone refers to its new one before.
RefsCounted ==
  \A s \in Slots : ref[s] # Null =>
    \/ phase[ref[s]] = "counted"
    \/ \E t \in Threads : s = Object(t) /\ pc[t] = "count"
NewUncounted ==
  \A t \in Threads : pc[t] = "count" =>
    /\ New(t) # Null /\ phase[New(t)] = "uncounted"
    /\ \A u \in Threads : pc[u] = "count" /\ New(u) = New(t) => u = t

\* An object is deleted once, by the thread that released its last reference.
DyingUnreferenced ==
  \A t \in Threads : dying[t] # Null =>
    /\ rc[dying[t]] = 0 /\ phase[dying[t]] # "free"
    /\ \A u \in Threads : dying[u] = dying[t] => u = t

Memory ==
  /\ MemoryTypes /\ Balanced(ref, rc) /\ CountRight
  /\ RefsCounted /\ NewUncounted /\ DyingUnreferenced

PcKept ==
  /\ pc' \in [Threads -> PcSteps]
  /\ \A t \in Threads : pc'[t] = "count" <=> pc[t] = "count"

LEMMA CountedFinite == IsFiniteSet(Counted) /\ Cardinality(Counted) \in Nat
  BY ComAssumption, FS_Subset, FS_CardinalityType DEF Counted

LEMMA MemoryInit == ComInit => Memory
<1> SUFFICES ASSUME ComInit PROVE Memory
  OBVIOUS
<1>1. MemoryTypes
  BY DEF ComInit, MemoryTypes, Typed, PcSteps
<1>2. \A o \in Objects : Refs(ref, o) = {}
  BY ComAssumption DEF ComInit, Refs
<1>3. Balanced(ref, rc)
  BY <1>2, FS_EmptySet DEF Balanced, ComInit
<1>4. Counted = {}
  BY DEF Counted, ComInit
<1>5. CountRight
  BY <1>4, FS_EmptySet DEF CountRight, ComInit
<1>6. RefsCounted
  BY DEF RefsCounted, ComInit
<1>7. NewUncounted /\ DyingUnreferenced
  BY DEF NewUncounted, DyingUnreferenced, ComInit
<1> QED
  BY <1>1, <1>3, <1>5, <1>6, <1>7 DEF Memory

LEMMA NotDying ==
  ASSUME Memory, NEW s \in Slots, ref[s] # Null
  PROVE  /\ ref[s] \in Objects /\ rc[ref[s]] > 0 /\ rc[ref[s]] \in Nat
         /\ phase[ref[s]] # "free"
         /\ \A t \in Threads : dying[t] # ref[s]
<1>1. ref[s] \in Objects /\ rc[ref[s]] \in Nat
  BY DEF Memory, MemoryTypes, Typed
<1>2. rc[ref[s]] > 0
  BY OneLess DEF Memory, MemoryTypes
<1>3. phase[ref[s]] # "free"
  BY DEF Memory, RefsCounted, NewUncounted, New
<1> QED
  BY <1>1, <1>2, <1>3 DEF Memory, DyingUnreferenced

LEMMA SameMemory ==
  ASSUME Memory, UNCHANGED <<phase, rc, ref, count, locks, dying>>, PcKept
  PROVE  Memory'
<1>1. MemoryTypes' /\ Balanced(ref, rc)' /\ CountRight'
  BY DEF Memory, MemoryTypes, PcKept, Balanced, Refs, CountRight, Counted
<1>2. RefsCounted'
  BY DEF Memory, PcKept, RefsCounted
<1>3. NewUncounted'
  BY DEF Memory, PcKept, NewUncounted, New
<1>4. DyingUnreferenced'
  BY DEF Memory, DyingUnreferenced
<1> QED
  BY <1>1, <1>2, <1>3, <1>4 DEF Memory

LEMMA PutMemory ==
  ASSUME Memory, NEW S \in SUBSET Slots, NEW d \in Slots,
         ref[d] # Null, phase[ref[d]] = "counted",
         Put(S, ref[d]), UNCHANGED <<phase, count, locks, dying>>, PcKept
  PROVE  Memory' /\ \A s \in Slots : ref[s] # Null => ref'[s] = ref[s]
<1> DEFINE e == Slot(S)
           o == ref[d]
<1>1. e \in Slots /\ ref[e] = Null
  BY DEF Put, Slot, Empty
<1>2. /\ o \in Objects /\ \A t \in Threads : dying[t] # o
      /\ ref' = [ref EXCEPT ![e] = o] /\ rc' = [rc EXCEPT ![o] = @ + 1]
  BY NotDying DEF Put
<1> HIDE DEF e, o
<1>3. Typed(ref', rc') /\ Balanced(ref', rc')
  BY <1>1, <1>2, OneMore DEF Memory, MemoryTypes
<1>4. /\ \A s \in Slots : ref'[s] = IF s = e THEN o ELSE ref[s]
      /\ \A p \in Objects : p # o => rc'[p] = rc[p]
  BY <1>1, <1>2 DEF Memory, MemoryTypes, Typed
<1>5. MemoryTypes'
  BY <1>3 DEF Memory, MemoryTypes, PcKept
<1>6. Balanced(ref, rc)'
  BY <1>3 DEF Balanced, Refs
<1>7. CountRight'
  BY DEF Memory, CountRight, Counted
<1>8. RefsCounted'
  BY <1>4 DEF o, Memory, PcKept, RefsCounted
<1>9. \A t \in Threads : pc[t] = "count" => New(t)' = New(t)
  BY <1>1, <1>4, SlotFacts DEF Memory, NewUncounted, New
<1>10. NewUncounted'
  BY <1>9 DEF Memory, PcKept, NewUncounted
<1>11. DyingUnreferenced'
  BY <1>2, <1>4 DEF Memory, MemoryTypes, DyingUnreferenced
<1> QED
  BY <1>1, <1>4, <1>5, <1>6, <1>7, <1>8, <1>10, <1>11 DEF Memory

LEMMA ClearMemory ==
  ASSUME Memory, NEW t \in Threads, dying[t] = Null,
         NEW s \in Slots, ref[s] # Null, phase[ref[s]] = "counted",
         Clear(t, s), UNCHANGED <<phase, count, locks>>, PcKept
  PROVE  /\ Memory' /\ ref'[s] = Null
         /\ \A d \in Slots : d # s => ref'[d] = ref[d]
<1> DEFINE o == ref[s]
<1>1. /\ o \in Objects /\ \A u \in Threads : dying[u] # o
      /\ rc[o] \in Nat /\ rc[o] > 0
      /\ ref' = [ref EXCEPT ![s] = Null] /\ rc' = [rc EXCEPT ![o] = @ - 1]
      /\ dying' = [dying EXCEPT ![t] = IF rc[o] = 1 THEN o ELSE Null]
  BY NotDying DEF Clear
<1>2. Typed(ref', rc') /\ Balanced(ref', rc')
  BY <1>1, OneLess DEF Memory, MemoryTypes
<1> HIDE DEF o
<1>3. /\ \A d \in Slots : ref'[d] = IF d = s THEN Null ELSE ref[d]
      /\ \A p \in Objects : p # o => rc'[p] = rc[p]
      /\ rc'[o] = rc[o] - 1
      /\ \A u \in Threads : u # t => dying'[u] = dying[u]
      /\ dying'[t] = IF rc[o] = 1 THEN o ELSE Null
  BY <1>1 DEF Memory, MemoryTypes, Typed
<1>4. MemoryTypes'
  BY <1>1, <1>2 DEF Memory, MemoryTypes, PcKept
<1>5. Balanced(ref, rc)'
  BY <1>2 DEF Balanced, Refs
<1>6. CountRight'
  BY DEF Memory, CountRight, Counted
<1>7. RefsCounted'
  BY <1>3 DEF Memory, PcKept, RefsCounted
<1>8. \A u \in Threads : pc[u] = "count" => New(u)' = New(u)
  BY <1>3, SlotFacts DEF o, Memory, NewUncounted, New
<1>9. NewUncounted'
  BY <1>8 DEF Memory, PcKept, NewUncounted
<1>10. DyingUnreferenced'
  <2> SUFFICES ASSUME NEW u \in Threads, dying'[u] # Null
               PROVE  /\ rc'[dying'[u]] = 0 /\ phase[dying'[u]] # "free"
                      /\ \A v \in Threads : dying'[v] = dying'[u] => v = u
    BY DEF DyingUnreferenced
  <2>1. CASE u = t
    BY <1>1, <1>3, <2>1 DEF o
  <2>2. CASE u # t
    BY <1>1, <1>3, <2>2 DEF Memory, MemoryTypes, DyingUnreferenced
  <2> QED
    BY <2>1, <2>2
<1> QED
  BY <1>3, <1>4, <1>5, <1>6, <1>7, <1>9, <1>10 DEF Memory

-----------------------------------------------------------------------------
\* Threads: what holds of the calls and the locals they hold.

CallNames == Kinds \cup {"none", "clone", "item", "next", "token_", "speak"}
CallTypes ==
  /\ self \in [Threads -> ClientSlots \cup {<<>>}]
  /\ call \in [Threads -> CallNames]

\* The object a call is made through is held meanwhile; outside a call no local is left.
ThreadOK(t) ==
  /\ pc[t] = "idle" <=> call[t] = "none"
  /\ self[t] # <<>> => pc[t] # "idle" /\ ref[self[t]] # Null
  /\ pc[t] = "launch" => self[t] # <<>>
  /\ pc[t] \in {"query", "get"} => New(t) # Null
  /\ pc[t] = "idle" => \A s \in Local(t) : ref[s] = Null
CallOK == \A t \in Threads : ThreadOK(t)

\* An engine whose module is not pinned yet is being launched, in a call of an object.
EngineOK ==
  /\ engine \in {"none", "made", "flagged"}
  /\ engine = "flagged" => pinned
  /\ engine = "made" /\ ~pinned => \E t \in Threads : pc[t] = "launch"

Inv == Memory /\ CallTypes /\ CallOK /\ EngineOK /\ UnloadSafe

LEMMA InvInit == ComInit => Inv
<1> SUFFICES ASSUME ComInit PROVE Inv
  OBVIOUS
<1>1. CallTypes
  BY DEF ComInit, CallTypes, CallNames
<1>2. ASSUME NEW t \in Threads PROVE ThreadOK(t)
  BY SlotFacts DEF ComInit, ThreadOK
<1>3. EngineOK /\ UnloadSafe
  BY DEF ComInit, EngineOK, UnloadSafe
<1> QED
  BY <1>1, <1>2, <1>3, MemoryInit DEF Inv, CallOK

LEMMA ClientCounted ==
  ASSUME Memory, NEW s \in ClientSlots, ref[s] # Null
  PROVE  ref[s] \in Objects /\ phase[ref[s]] = "counted"
  BY ClientApart, SlotFacts, NotDying DEF Memory, RefsCounted

LEMMA TokenCounted ==
  ASSUME Memory, NEW o \in Objects, ref[TokenOf(o)] # Null
  PROVE  ref[TokenOf(o)] \in Objects /\ phase[ref[TokenOf(o)]] = "counted"
  BY TokenSlots, SlotFacts, NotDying DEF Memory, RefsCounted

LEMMA LocalCounted ==
  ASSUME Memory, NEW t \in Threads, NEW s \in Local(t), ref[s] # Null, pc[t] # "count"
  PROVE  ref[s] \in Objects /\ phase[ref[s]] = "counted"
  BY LocalsApart, SlotFacts, NotDying DEF Memory, RefsCounted

\* What a step of one thread leaves alone.
LEMMA OtherOK ==
  ASSUME CallOK, NEW u \in Threads,
         pc'[u] = pc[u], call'[u] = call[u], self'[u] = self[u],
         \A s \in Local(u) : ref'[s] = ref[s],
         self[u] # <<>> => ref'[self[u]] # Null
  PROVE  ThreadOK(u)'
  BY SlotFacts DEF CallOK, ThreadOK, New

LEMMA EngineKept ==
  ASSUME EngineOK, UNCHANGED <<engine, pinned>>,
         \A u \in Threads : pc[u] = "launch" => pc'[u] = "launch"
  PROVE  EngineOK'
  BY DEF EngineOK

LEMMA SelfIsClient ==
  ASSUME Inv, NEW u \in Threads, self[u] # <<>>
  PROVE  /\ self[u] \in ClientSlots /\ ref[self[u]] # Null /\ pc[u] # "idle"
         /\ phase[ref[self[u]]] = "counted"
  BY ClientCounted DEF Inv, CallTypes, CallOK, ThreadOK

\* A step of a thread inside a call that touches its own slots only.
LEMMA StepKeeps ==
  ASSUME Inv, Memory', NEW t \in Threads, pc[t] # "idle", Loaded,
         NEW step \in PcSteps \ {"idle"}, Goes(t, step),
         step = "launch" => pc[t] = "launch",
         step \in {"query", "get"} => ref'[Object(t)] # Null,
         UNCHANGED <<call, self, unload>>,
         \A u \in Threads \ {t} : \A s \in Local(u) : ref'[s] = ref[s],
         \A s \in ClientSlots : ref[s] # Null => ref'[s] # Null
  PROVE  CallTypes' /\ CallOK' /\ UnloadSafe'
<1>1. /\ \A u \in Threads \ {t} : pc'[u] = pc[u]
      /\ pc'[t] = step
  BY DEF Goes, Inv, Memory, MemoryTypes
<1>2. CallTypes' /\ UnloadSafe'
  BY DEF Inv, CallTypes, UnloadSafe, Loaded
<1>3. ASSUME NEW u \in Threads, u # t PROVE ThreadOK(u)'
  BY <1>1, <1>3, OtherOK, SelfIsClient DEF Inv
<1>4. ThreadOK(t)'
  BY <1>1 DEF Inv, CallTypes, CallOK, ThreadOK, New
<1> QED
  BY <1>2, <1>3, <1>4 DEF CallOK

-----------------------------------------------------------------------------
\* The client's calls.

LEMMA EntersKeeps ==
  ASSUME Inv, NEW t \in Threads, Idle(t),
         NEW step \in {"new", "leave", "launch"}, NEW what \in CallNames \ {"none"},
         NEW s \in ClientSlots \cup {<<>>}, NEW n,
         s # <<>> => ref[s] # Null, step = "launch" => s # <<>>,
         Enters(t, step, what, s, n), UNCHANGED objectVars, UNCHANGED dllVars
  PROVE  Inv'
<1>1. /\ \A u \in Threads \ {t} : pc'[u] = pc[u] /\ call'[u] = call[u] /\ self'[u] = self[u]
      /\ pc'[t] = step /\ call'[t] = what /\ self'[t] = s
      /\ pc[t] = "idle" /\ unload # "freed" /\ UNCHANGED ref
  BY DEF Enters, Inv, Memory, MemoryTypes, CallTypes, Idle, Loaded, objectVars
<1>2. PcKept
  BY <1>1 DEF PcKept, Enters, Inv, Memory, MemoryTypes, PcSteps
<1>3. Memory'
  BY <1>2, SameMemory DEF Inv, Enters, objectVars, dllVars
<1>4. CallTypes'
  BY DEF Enters, Inv, CallTypes
<1>5. ASSUME NEW u \in Threads, u # t PROVE ThreadOK(u)'
  <2>1. self[u] # <<>> => ref'[self[u]] # Null
    BY <1>1 DEF Inv, CallOK, ThreadOK
  <2>2. \A d \in Local(u) : ref'[d] = ref[d]
    BY <1>1
  <2> QED
    BY <1>1, <1>5, <2>1, <2>2, OtherOK DEF Inv
<1>6. ThreadOK(t)'
  BY <1>1 DEF ThreadOK
<1>7. EngineOK' /\ UnloadSafe'
  BY <1>1, EngineKept DEF Inv, dllVars, UnloadSafe
<1> QED
  BY <1>3, <1>4, <1>5, <1>6, <1>7 DEF Inv, CallOK

LEMMA FirstCalls ==
  ASSUME Inv, NEW t \in Threads
  PROVE  /\ DllGetClassObject(t) => Inv'
         /\ \A s \in ClientSlots :
              CreateInstance(t, s) \/ Clone(t, s) \/ OpenKey(t, s) \/ Item(t, s)
                \/ Next(t, s) \/ Speak(t, s) => Inv'
<1>1. ASSUME DllGetClassObject(t) PROVE Inv'
  <2>1. PICK k \in Factories : Enters(t, "new", k, <<>>, 1)
    BY <1>1 DEF DllGetClassObject
  <2>2. k \in CallNames \ {"none"}
    BY DEF CallNames, Kinds, Factories
  <2> QED
    BY <1>1, <2>1, <2>2, EntersKeeps DEF DllGetClassObject
<1>2. ASSUME NEW s \in ClientSlots, NEW K, Through(t, s, K)
      PROVE  Idle(t) /\ ref[s] # Null /\ s # <<>> /\ kind[ref[s]] \in K
  BY <1>2, ClientApart DEF Through, Usable
<1>3. ASSUME NEW s \in ClientSlots, CreateInstance(t, s) PROVE Inv'
  <2>1. Creates(kind[ref[s]]) \in CallNames \ {"none"}
    BY DEF Creates, CallNames, Kinds, Factories
  <2> QED
    BY <1>2, <1>3, <2>1, EntersKeeps DEF CreateInstance
<1>4. ASSUME NEW s \in ClientSlots, Clone(t, s) \/ OpenKey(t, s) \/ Item(t, s) PROVE Inv'
  BY <1>2, <1>4, EntersKeeps DEF Clone, OpenKey, Item, CallNames, Kinds
<1>5. ASSUME NEW s \in ClientSlots, Next(t, s) PROVE Inv'
  <2>1. PICK n : \/ Enters(t, "leave", "next", s, n)
                 \/ Enters(t, "new", "next", s, n)
    BY <1>5 DEF Next
  <2> QED
    BY <1>2, <1>5, <2>1, EntersKeeps DEF Next, CallNames
<1>6. ASSUME NEW s \in ClientSlots, Speak(t, s) PROVE Inv'
  BY <1>2, <1>6, EntersKeeps DEF Speak, CallNames
<1> QED
  BY <1>1, <1>3, <1>4, <1>5, <1>6

\* A call that ends at once: the thread and every local are as before.
LEMMA AtOnce ==
  ASSUME Inv, Memory', Loaded, UNCHANGED <<pc, call, self, engine, pinned, unload>>,
         \A u \in Threads : \A s \in Local(u) : ref'[s] = ref[s],
         \A u \in Threads : self[u] # <<>> => ref'[self[u]] # Null
  PROVE  Inv'
<1>1. ASSUME NEW u \in Threads PROVE ThreadOK(u)'
  BY OtherOK DEF Inv
<1>2. CallTypes' /\ UnloadSafe'
  BY DEF Inv, CallTypes, UnloadSafe, Loaded
<1>3. EngineOK'
  BY EngineKept DEF Inv
<1> QED
  BY <1>1, <1>2, <1>3 DEF Inv, CallOK

LEMMA PutAtOnce ==
  ASSUME Inv, NEW t \in Threads, Loaded, NEW d \in Slots,
         ref[d] # Null, phase[ref[d]] = "counted", Put(Outs(t), ref[d]),
         UNCHANGED phase, UNCHANGED threadVars, UNCHANGED dllVars
  PROVE  Inv'
<1>1. PcKept
  BY DEF PcKept, threadVars, Inv, Memory, MemoryTypes
<1>2. Memory' /\ \A s \in Slots : ref[s] # Null => ref'[s] = ref[s]
  BY <1>1, SlotFacts, PutMemory DEF Inv, threadVars, dllVars
<1>3. \A u \in Threads : self[u] # <<>> => ref'[self[u]] # Null
  BY <1>2, SelfIsClient, ClientApart
<1>4. \A u \in Threads : \A s \in Local(u) : ref'[s] = ref[s]
  <2>1. Slot(Outs(t)) \in Outs(t)
    BY DEF Put, Slot, Empty
  <2> QED
    BY <2>1, SlotFacts, ClientApart DEF Put, Inv, Memory, MemoryTypes, Typed
<1> QED
  BY <1>2, <1>3, <1>4, AtOnce DEF threadVars, dllVars

LEMMA ShortCalls ==
  ASSUME Inv, NEW t \in Threads, NEW s \in ClientSlots
  PROVE  Moves(t, s) \/ AddRef(t, s) \/ Release(t, s) \/ LockServer(t, s)
           \/ GetObjectToken(t, s) => Inv'
<1>1. ASSUME Moves(t, s) PROVE Inv'
  <2>1. UNCHANGED <<phase, rc, ref, pc, call, self, dying>> /\ UNCHANGED dllVars /\ Loaded
    BY <1>1 DEF Moves, threadVars, Through, Idle
  <2>2. Memory'
    BY <2>1, SameMemory DEF dllVars, PcKept, Inv, Memory, MemoryTypes
  <2> QED
    BY <2>1, <2>2, AtOnce, SelfIsClient DEF dllVars
<1>2. ASSUME AddRef(t, s) PROVE Inv'
  BY <1>2, PutAtOnce, ClientApart, ClientCounted DEF AddRef, Idle, Usable, Inv
<1>3. ASSUME Release(t, s) PROVE Inv'
  <2>1. /\ Clear(t, s) /\ dying[t] = Null /\ ref[s] # Null /\ Loaded
        /\ \A u \in Threads : self[u] # s
        /\ UNCHANGED <<phase, pc, call, self>> /\ UNCHANGED dllVars
    BY <1>3 DEF Release, Idle, Usable
  <2>2. Memory' /\ \A d \in Slots : d # s => ref'[d] = ref[d]
    BY <2>1, ClientApart, ClientCounted, ClearMemory
       DEF dllVars, PcKept, Inv, Memory, MemoryTypes
  <2>3. \A u \in Threads : self[u] # <<>> => ref'[self[u]] # Null
    BY <2>1, <2>2, SelfIsClient, ClientApart
  <2>4. \A u \in Threads : \A d \in Local(u) : ref'[d] = ref[d]
    BY <2>2, SlotFacts, ClientApart
  <2> QED
    BY <2>1, <2>2, <2>3, <2>4, AtOnce DEF dllVars
<1>4. ASSUME LockServer(t, s) PROVE Inv'
  <2>1. PICK d \in {1, -1} :
          /\ locks + d \in 0..MaxLocks /\ locks' = locks + d /\ count' = count + d
    BY <1>4 DEF LockServer
  <2>2. /\ UNCHANGED objectVars /\ UNCHANGED threadVars /\ UNCHANGED <<engine, pinned, unload>>
        /\ Loaded
    BY <1>4 DEF LockServer, Through, Idle
  <2>3. MemoryTypes' /\ CountRight'
    <3>1. /\ count \in Nat /\ locks \in Nat /\ count = locks + Cardinality(Counted)
          /\ Cardinality(Counted) \in Nat /\ Counted' = Counted
      BY <2>2, CountedFinite DEF Inv, Memory, MemoryTypes, CountRight, Counted, objectVars
    <3>2. locks' \in Nat /\ count' = locks' + Cardinality(Counted)
      BY <2>1, <3>1, ComAssumption
    <3> QED
      BY <2>2, <3>1, <3>2
         DEF Inv, Memory, MemoryTypes, CountRight, objectVars, threadVars
  <2>4. Balanced(ref, rc)' /\ RefsCounted' /\ NewUncounted' /\ DyingUnreferenced'
    BY <2>2 DEF Inv, Memory, Balanced, Refs, RefsCounted, NewUncounted, New,
                DyingUnreferenced, objectVars, threadVars
  <2> QED
    BY <2>2, <2>3, <2>4, AtOnce, SelfIsClient DEF Memory, objectVars, threadVars
<1>5. ASSUME GetObjectToken(t, s) PROVE Inv'
  <2>1. /\ ref[s] \in Objects /\ ref[TokenOf(ref[s])] # Null /\ Loaded
        /\ Put(Outs(t), ref[TokenOf(ref[s])])
    BY <1>5, ClientCounted DEF GetObjectToken, Through, Usable, Idle, Inv
  <2>2. phase[ref[TokenOf(ref[s])]] = "counted"
    BY <2>1, TokenCounted DEF Inv
  <2> QED
    BY <1>5, <2>1, <2>2, PutAtOnce, TokenSlots DEF GetObjectToken
<1> QED
  BY <1>1, <1>2, <1>3, <1>4, <1>5

\* References that change without a call of AddRef or Release having its own step.
LEMMA RefChange ==
  ASSUME Memory, Typed(ref', rc'), Balanced(ref', rc'),
         UNCHANGED <<phase, count, locks, dying>>, PcKept,
         \A s \in Slots : ref'[s] = ref[s] \/ ref'[s] = Null \/ phase[ref'[s]] = "counted",
         \A u \in Threads : pc[u] = "count" => ref'[Object(u)] = ref[Object(u)],
         \A u \in Threads : dying[u] # Null => rc'[dying[u]] = 0
  PROVE  Memory'
<1>1. MemoryTypes' /\ Balanced(ref, rc)' /\ CountRight'
  BY DEF Memory, MemoryTypes, PcKept, CountRight, Counted, Balanced, Refs
<1>2. RefsCounted'
  BY DEF Memory, PcKept, RefsCounted
<1>3. NewUncounted'
  BY DEF Memory, PcKept, NewUncounted, New
<1>4. DyingUnreferenced'
  BY DEF Memory, DyingUnreferenced
<1> QED
  BY <1>1, <1>2, <1>3, <1>4 DEF Memory

LEMMA SetsToken ==
  ASSUME Inv, NEW t \in Threads, NEW s \in ClientSlots, SetObjectToken(t, s)
  PROVE  Inv'
<1> DEFINE o == ref[s]
           a == TokenOf(o)
           b == Old(t)
<1>1. PICK v \in ClientSlots :
        /\ Usable(t, v)
        /\ ref' = [ref EXCEPT ![a] = ref[v], ![b] = ref[a]]
        /\ rc' = [rc EXCEPT ![ref[v]] = @ + 1]
  BY DEF SetObjectToken
<1>2. /\ pc[t] = "idle" /\ ref[s] # Null /\ Loaded
      /\ Enters(t, "leave", "token_", s, 0) /\ UNCHANGED phase /\ UNCHANGED dllVars
  BY DEF SetObjectToken, Through, Idle, Usable
<1>3. /\ o \in Objects /\ a \in Slots /\ b \in Slots /\ b \in Local(t) /\ a # b
      /\ ref[b] = Null
      /\ \A u \in Threads : a \notin Local(u)
      /\ \A d \in ClientSlots : d # a /\ d # b
  BY <1>2, ClientCounted, TokenSlots, SlotFacts, ClientApart DEF Inv, CallOK, ThreadOK
<1>4. /\ ref[v] # Null /\ ref[v] \in Objects /\ phase[ref[v]] = "counted"
      /\ v \in Slots /\ \A u \in Threads : dying[u] # ref[v]
  BY <1>1, ClientCounted, ClientApart, NotDying DEF Usable, Inv
<1>5. Typed(ref, rc) /\ Balanced(ref, rc)
  BY DEF Inv, Memory, MemoryTypes
<1>6. Typed(ref', rc') /\ Balanced(ref', rc')
  <2>1. PICK f : /\ Typed(f, rc) /\ Balanced(f, rc) /\ f[a] = Null
                 /\ ref' = [f EXCEPT ![a] = ref[v]]
    <3>1. CASE ref[a] = Null
      <4>1. ref' = [ref EXCEPT ![a] = ref[v]]
        BY <1>1, <1>3, <1>5, <3>1 DEF Typed
      <4> QED
        BY <1>5, <3>1, <4>1
    <3>2. CASE ref[a] # Null
      <4> DEFINE g == [ref EXCEPT ![b] = ref[a], ![a] = Null]
      <4>1. Typed(g, rc) /\ Balanced(g, rc)
        BY <1>3, <1>5, <3>2, OneMoved
      <4>2. g[a] = Null /\ ref' = [g EXCEPT ![a] = ref[v]]
        BY <1>1, <1>3, <1>5 DEF Typed
      <4> HIDE DEF g
      <4> QED
        BY <4>1, <4>2
    <3> QED
      BY <3>1, <3>2
  <2>2. LET g == [f EXCEPT ![a] = ref[v]]
            q == [rc EXCEPT ![ref[v]] = @ + 1]
        IN Typed(g, q) /\ Balanced(g, q)
    BY <1>3, <1>4, <2>1, OneMore
  <2> QED
    BY <1>1, <2>1, <2>2
<1> HIDE DEF o, a, b
<1>7. /\ \A d \in Slots : ref'[d] = IF d = b THEN ref[a] ELSE IF d = a THEN ref[v] ELSE ref[d]
      /\ \A p \in Objects : p # ref[v] => rc'[p] = rc[p]
  BY <1>1, <1>3, <1>5 DEF Typed
<1>8. PcKept
  BY <1>2 DEF PcKept, Enters, Inv, Memory, MemoryTypes, PcSteps
<1>9. Memory'
  <2>1. \A d \in Slots : ref'[d] = ref[d] \/ ref'[d] = Null \/ phase[ref'[d]] = "counted"
    BY <1>3, <1>4, <1>7, TokenCounted DEF a, Inv
  <2>2. \A u \in Threads : pc[u] = "count" => ref'[Object(u)] = ref[Object(u)]
    BY <1>3, <1>7, SlotFacts, ObjectSlotApart DEF b
  <2>3. \A u \in Threads : dying[u] # Null => rc'[dying[u]] = 0
    BY <1>4, <1>7 DEF Inv, Memory, MemoryTypes, DyingUnreferenced
  <2> QED
    BY <1>2, <1>6, <1>8, <2>1, <2>2, <2>3, RefChange DEF Inv, Enters, dllVars
<1>10. /\ \A u \in Threads \ {t} : pc'[u] = pc[u] /\ call'[u] = call[u] /\ self'[u] = self[u]
       /\ pc'[t] = "leave" /\ call'[t] = "token_" /\ self'[t] = s
       /\ CallTypes'
  BY <1>2 DEF Enters, Inv, Memory, MemoryTypes, CallTypes, CallNames
<1>11. \A d \in ClientSlots : ref'[d] = ref[d]
  BY <1>3, <1>7, ClientApart
<1>12. ASSUME NEW u \in Threads, u # t PROVE ThreadOK(u)'
  <2>1. \A d \in Local(u) : ref'[d] = ref[d]
    BY <1>3, <1>7, <1>12, LocalsApart, SlotFacts
  <2>2. self[u] # <<>> => ref'[self[u]] # Null
    BY <1>11, SelfIsClient
  <2> QED
    BY <1>10, <1>12, <2>1, <2>2, OtherOK DEF Inv
<1>13. ThreadOK(t)'
  BY <1>2, <1>10, <1>11 DEF ThreadOK
<1>14. EngineOK' /\ UnloadSafe'
  BY <1>2, <1>10, EngineKept DEF Inv, dllVars, UnloadSafe, Loaded
<1> QED
  BY <1>9, <1>10, <1>12, <1>13, <1>14 DEF Inv, CallOK

-----------------------------------------------------------------------------
\* Inside a call.

LEMMA FailsKeeps ==
  ASSUME Inv, NEW t \in Threads, pc[t] \notin {"idle", "count", "launch"}, Loaded,
         NEW step \in {"new", "hand", "leave"}, Goes(t, step),
         UNCHANGED <<phase, rc, ref, call, self, dying>>, UNCHANGED dllVars
  PROVE  Inv'
<1>1. PcKept /\ \A u \in Threads : pc[u] = "launch" => pc'[u] = "launch"
  BY DEF PcKept, Goes, Inv, Memory, MemoryTypes, PcSteps
<1>2. Memory'
  BY <1>1, SameMemory DEF Inv, dllVars
<1>3. step \in PcSteps \ {"idle"}
  BY DEF PcSteps
<1>4. CallTypes' /\ CallOK' /\ UnloadSafe'
  BY <1>2, <1>3, StepKeeps DEF dllVars
<1> QED
  BY <1>1, <1>2, <1>4, EngineKept DEF Inv, dllVars

\* A reference put into a slot of the thread itself, to the object just made.
LEMMA PutKeeps ==
  ASSUME Inv, NEW t \in Threads, pc[t] \in {"query", "get"}, Loaded,
         NEW step \in {"get", "scope", "leave"}, Goes(t, step),
         NEW S, S \in {Outs(t), Vector(t), {Interface(t)}}, Put(S, New(t)),
         UNCHANGED <<phase, call, self, dying>>, UNCHANGED dllVars
  PROVE  Inv'
<1>1. PcKept /\ \A u \in Threads : pc[u] = "launch" => pc'[u] = "launch"
  BY DEF PcKept, Goes, Inv, Memory, MemoryTypes, PcSteps
<1>2. New(t) # Null /\ phase[New(t)] = "counted"
  BY SlotFacts, LocalCounted DEF Inv, CallOK, ThreadOK, New
<1>3. S \in SUBSET Slots /\ S \subseteq Outs(t) \cup Local(t)
  BY SlotFacts
<1>4. Memory' /\ \A s \in Slots : ref[s] # Null => ref'[s] = ref[s]
  BY <1>1, <1>2, <1>3, SlotFacts, PutMemory DEF New, Inv, dllVars
<1>5. Slot(S) \in S
  BY DEF Put, Slot, Empty
<1>6. \A u \in Threads \ {t} : \A s \in Local(u) : ref'[s] = ref[s]
  BY <1>3, <1>5, SlotFacts, ClientApart, LocalsApart
     DEF Put, Inv, Memory, MemoryTypes, Typed
<1>7. ref'[Object(t)] # Null
  BY <1>2, <1>4, SlotFacts DEF New
<1>8. step \in PcSteps \ {"idle"}
  BY DEF PcSteps
<1>9. CallTypes' /\ CallOK' /\ UnloadSafe'
  BY <1>4, <1>6, <1>7, <1>8, StepKeeps, ClientApart DEF dllVars
<1> QED
  BY <1>1, <1>4, <1>9, EngineKept DEF Inv, dllVars

LEMMA ConstructsKeeps ==
  ASSUME Inv, NEW t \in Threads, Constructs(t)
  PROVE  Inv'
<1>1. CASE Fails(t) /\ UNCHANGED <<kind, phase, pos>>
  BY <1>1, FailsKeeps DEF Constructs, Runs, Fails
<1>2. CASE ~(Fails(t) /\ UNCHANGED <<kind, phase, pos>>)
  <2> DEFINE e == Object(t)
  <2>1. PICK o \in Objects :
          /\ phase[o] = "free" /\ Put({e}, o) /\ Goes(t, "count")
          /\ phase' = [phase EXCEPT ![o] = "uncounted"]
    BY <1>2 DEF Constructs
  <2>2. pc[t] = "new" /\ Loaded /\ UNCHANGED <<call, self, dying>> /\ UNCHANGED dllVars
    BY DEF Constructs, Runs
  <2>3. e \in Slots /\ ref[e] = Null
        /\ ref' = [ref EXCEPT ![e] = o] /\ rc' = [rc EXCEPT ![o] = @ + 1]
    BY <2>1, SlotFacts DEF Put, Slot, Empty
  <2>4. /\ \A s \in Slots : ref[s] # o
        /\ \A u \in Threads : dying[u] # o
    BY <2>1, NotDying, ComAssumption DEF Inv, Memory, DyingUnreferenced
  <2>5. Typed(ref', rc') /\ Balanced(ref', rc')
    BY <2>3, OneMore DEF Inv, Memory, MemoryTypes
  <2>6. /\ \A s \in Slots : ref'[s] = IF s = e THEN o ELSE ref[s]
        /\ \A p \in Objects : p # o => rc'[p] = rc[p] /\ phase'[p] = phase[p]
        /\ phase'[o] = "uncounted"
        /\ \A u \in Threads : u # t => pc'[u] = pc[u]
        /\ pc'[t] = "count"
    BY <2>1, <2>3 DEF Goes, Inv, Memory, MemoryTypes, Typed
  <2>7. MemoryTypes'
    BY <2>1, <2>2, <2>5 DEF Inv, Memory, MemoryTypes, Goes, PcSteps, dllVars
  <2>8. Balanced(ref, rc)' /\ CountRight'
    <3>1. Counted' = Counted
      BY <2>1, <2>6 DEF Counted
    <3> QED
      BY <2>2, <2>5, <3>1 DEF Balanced, Refs, CountRight, Inv, Memory, dllVars
  <2>9. RefsCounted'
    <3> SUFFICES ASSUME NEW s \in Slots, ref'[s] # Null
                 PROVE  \/ phase'[ref'[s]] = "counted"
                        \/ \E u \in Threads : s = Object(u) /\ pc'[u] = "count"
      BY DEF RefsCounted
    <3>1. CASE s = e
      BY <2>6, <3>1
    <3>2. CASE s # e
      BY <2>4, <2>6, <3>2, NotDying DEF Inv, Memory, RefsCounted
    <3> QED
      BY <3>1, <3>2
  <2>10. \A u \in Threads : u # t /\ pc[u] = "count" =>
           /\ New(u)' = New(u) /\ New(u) # o /\ New(u) # Null /\ New(u) \in Objects
           /\ phase'[New(u)] = "uncounted"
    BY <2>4, <2>6, SlotFacts, ObjectSlotApart, NotDying DEF New, Inv, Memory, NewUncounted
  <2>11. New(t)' = o /\ o # Null
    BY <2>3, <2>6, ComAssumption DEF New
  <2>12. NewUncounted'
    <3>1. ASSUME NEW u \in Threads, pc'[u] = "count"
          PROVE  New(u)' # Null /\ phase'[New(u)'] = "uncounted"
      BY <2>6, <2>10, <2>11, <3>1
    <3>2. ASSUME NEW u \in Threads, NEW v \in Threads, pc'[u] = "count", pc'[v] = "count",
                 New(v)' = New(u)'
          PROVE  v = u
      BY <2>6, <2>10, <2>11, <3>2 DEF Inv, Memory, NewUncounted
    <3> QED
      BY <3>1, <3>2 DEF NewUncounted
  <2>13. DyingUnreferenced'
    BY <2>2, <2>4, <2>6 DEF Inv, Memory, MemoryTypes, DyingUnreferenced
  <2>14. Memory'
    BY <2>7, <2>8, <2>9, <2>12, <2>13 DEF Memory
  <2>15. \A u \in Threads \ {t} : \A s \in Local(u) : ref'[s] = ref[s]
    BY <2>6, SlotFacts, LocalsApart
  <2>16. \A s \in ClientSlots : ref[s] # Null => ref'[s] # Null
    BY <2>6, <2>11, ClientApart
  <2>17. CallTypes' /\ CallOK' /\ UnloadSafe'
    <3>1. "count" \in PcSteps \ {"idle"}
      BY DEF PcSteps
    <3> QED
      BY <2>1, <2>2, <2>14, <2>15, <2>16, <3>1, StepKeeps DEF dllVars
  <2>18. EngineOK'
    BY <2>2, <2>6, EngineKept DEF Inv, dllVars
  <2> QED
    BY <2>14, <2>17, <2>18 DEF Inv
<1> QED
  BY <1>1, <1>2

LEMMA CountsKeeps ==
  ASSUME Inv, NEW t \in Threads, Counts(t)
  PROVE  Inv'
<1> DEFINE o == New(t)
<1>1. /\ pc[t] = "count" /\ Loaded /\ Goes(t, "query")
      /\ phase' = [phase EXCEPT ![o] = "counted"] /\ count' = count + 1
      /\ UNCHANGED <<rc, ref, call, self, dying, locks, engine, pinned, unload>>
  BY DEF Counts, Runs
<1>2. o # Null /\ o \in Objects /\ phase[o] = "uncounted"
  BY <1>1, SlotFacts, NotDying DEF New, Inv, Memory, NewUncounted
<1>3. /\ \A p \in Objects : p # o => phase'[p] = phase[p]
      /\ phase'[o] = "counted"
      /\ \A u \in Threads : u # t => pc'[u] = pc[u]
      /\ pc'[t] = "query"
  BY <1>1, <1>2 DEF Goes, Inv, Memory, MemoryTypes
<1> HIDE DEF o
<1>4. MemoryTypes' /\ CountRight'
  <2>1. Counted' = Counted \cup {o} /\ o \notin Counted
    BY <1>2, <1>3 DEF Counted
  <2>2. Cardinality(Counted') = Cardinality(Counted) + 1
    BY <2>1, CountedFinite, FS_AddElement
  <2>3. CountRight'
    BY <1>1, <2>2, CountedFinite DEF CountRight, Inv, Memory, MemoryTypes
  <2>4. MemoryTypes'
    <3>1. pc' \in [Threads -> PcSteps]
      BY <1>1 DEF Inv, Memory, MemoryTypes, Goes, PcSteps
    <3>2. phase' \in [Objects -> {"free", "uncounted", "counted"}]
      BY <1>1 DEF Inv, Memory, MemoryTypes
    <3> QED
      BY <1>1, <3>1, <3>2 DEF Inv, Memory, MemoryTypes, Typed
  <2> QED
    BY <2>3, <2>4
<1>5. Balanced(ref, rc)'
  BY <1>1 DEF Balanced, Refs, Inv, Memory
<1>6. RefsCounted'
  BY <1>1, <1>2, <1>3, NotDying DEF o, New, Inv, Memory, RefsCounted
<1>7. NewUncounted'
  <2>1. \A u \in Threads : pc'[u] = "count" =>
          u # t /\ pc[u] = "count" /\ New(u)' = New(u) /\ New(u) # o /\ New(u) \in Objects
    BY <1>1, <1>3, SlotFacts, NotDying DEF o, New, Inv, Memory, NewUncounted
  <2> QED
    BY <1>3, <2>1 DEF Inv, Memory, NewUncounted
<1>8. DyingUnreferenced'
  BY <1>1, <1>3 DEF Inv, Memory, MemoryTypes, DyingUnreferenced
<1>9. Memory'
  BY <1>4, <1>5, <1>6, <1>7, <1>8 DEF Memory
<1>10. CallTypes' /\ CallOK' /\ UnloadSafe'
  <2>1. "query" \in PcSteps \ {"idle"}
    BY DEF PcSteps
  <2> QED
    BY <1>1, <1>2, <1>9, <2>1, StepKeeps DEF o, New
<1>11. EngineOK'
  BY <1>1, <1>3, EngineKept DEF Inv
<1> QED
  BY <1>9, <1>10, <1>11 DEF Inv

LEMMA QueriesAndGets ==
  ASSUME Inv, NEW t \in Threads
  PROVE  Queries(t) \/ Gets(t) => Inv'
<1>1. ASSUME Fails(t), Queries(t) \/ Gets(t), UNCHANGED dying, UNCHANGED phase PROVE Inv'
  BY <1>1, FailsKeeps DEF Queries, Gets, Runs, Fails
<1>2. ASSUME Queries(t) PROVE Inv'
  BY <1>1, <1>2, PutKeeps DEF Queries, Runs
<1>3. ASSUME Gets(t) PROVE Inv'
  BY <1>1, <1>3, PutKeeps DEF Gets, Runs
<1> QED
  BY <1>2, <1>3

LEMMA DropsKeeps ==
  ASSUME Inv, NEW t \in Threads, Drops(t)
  PROVE  Inv'
<1>1. PICK s \in InScope(t) : Clear(t, s)
  BY DEF Drops
<1>2. /\ pc[t] \in {"scope", "leave"} /\ dying[t] = Null /\ Loaded
      /\ UNCHANGED <<phase, pc, call, self>> /\ UNCHANGED dllVars
  BY DEF Drops
<1>3. s \in Local(t) /\ ref[s] # Null /\ s \in Slots
  BY SlotFacts DEF InScope
<1>4. PcKept /\ Goes(t, pc[t]) /\ pc[t] \in PcSteps \ {"idle"}
  BY <1>2 DEF PcKept, Goes, PcSteps, Inv, Memory, MemoryTypes
<1>5. Memory' /\ \A d \in Slots : d # s => ref'[d] = ref[d]
  BY <1>1, <1>2, <1>3, <1>4, LocalCounted, ClearMemory DEF Inv, dllVars
<1>6. \A u \in Threads \ {t} : \A d \in Local(u) : ref'[d] = ref[d]
  BY <1>3, <1>5, SlotFacts, LocalsApart
<1>7. \A d \in ClientSlots : ref'[d] = ref[d]
  BY <1>3, <1>5, ClientApart
<1>8. CallTypes' /\ CallOK' /\ UnloadSafe'
  BY <1>2, <1>4, <1>5, <1>6, <1>7, StepKeeps DEF dllVars
<1> QED
  BY <1>2, <1>5, <1>8, EngineKept DEF Inv, dllVars

LEMMA HandsOutKeeps ==
  ASSUME Inv, NEW t \in Threads, HandsOut(t)
  PROVE  Inv'
<1>1. /\ pc[t] = "hand" /\ Loaded
      /\ UNCHANGED <<phase, rc, call, self, dying>> /\ UNCHANGED dllVars
  BY DEF HandsOut, Runs
<1>2. CASE Goes(t, "leave") /\ UNCHANGED ref
  BY <1>1, <1>2, FailsKeeps
<1>3. ASSUME NEW s \in Made(t), Empty(Outs(t)) # {}, UNCHANGED pc,
             ref' = [ref EXCEPT ![Slot(Outs(t))] = ref[s], ![s] = Null]
      PROVE  Inv'
  <2> DEFINE e == Slot(Outs(t))
  <2>1. e \in Outs(t) /\ ref[e] = Null
    BY <1>3 DEF Slot, Empty
  <2>2. /\ e \in ClientSlots /\ e \in Slots
        /\ s \in Local(t) /\ s \in Slots /\ ref[s] # Null /\ e # s
        /\ \A u \in Threads : e \notin Local(u)
        /\ s \in Vector(t)
    BY <2>1, SlotFacts, ClientApart DEF Made
  <2>3. Typed(ref', rc') /\ Balanced(ref', rc')
    <3>1. Typed([ref EXCEPT ![e] = ref[s], ![s] = Null], rc)
          /\ Balanced([ref EXCEPT ![e] = ref[s], ![s] = Null], rc)
      BY <2>1, <2>2, OneMoved DEF Inv, Memory, MemoryTypes
    <3> QED
      BY <1>1, <1>3, <3>1
  <2> HIDE DEF e
  <2>4. \A d \in Slots : ref'[d] = IF d = s THEN Null ELSE IF d = e THEN ref[s] ELSE ref[d]
    BY <1>3, <2>2 DEF e, Inv, Memory, MemoryTypes, Typed
  <2>5. phase[ref[s]] = "counted" /\ ref[s] # Null
    BY <1>1, <2>2, LocalCounted DEF Inv
  <2>6. PcKept /\ Goes(t, pc[t]) /\ pc[t] \in PcSteps \ {"idle"}
    BY <1>1, <1>3 DEF PcKept, Goes, PcSteps, Inv, Memory, MemoryTypes
  <2>7. Memory'
    <3>1. \A d \in Slots : ref'[d] = ref[d] \/ ref'[d] = Null \/ phase[ref'[d]] = "counted"
      BY <2>4, <2>5
    <3>2. \A u \in Threads : pc[u] = "count" => ref'[Object(u)] = ref[Object(u)]
      BY <2>2, <2>4, SlotFacts, ObjectSlotApart
    <3>3. \A u \in Threads : dying[u] # Null => rc'[dying[u]] = 0
      BY <1>1 DEF Inv, Memory, DyingUnreferenced
    <3> QED
      BY <1>1, <2>3, <2>6, <3>1, <3>2, <3>3, RefChange DEF Inv, dllVars
  <2>8. \A u \in Threads \ {t} : \A d \in Local(u) : ref'[d] = ref[d]
    BY <2>2, <2>4, SlotFacts, LocalsApart
  <2>9. \A d \in ClientSlots : ref[d] # Null => ref'[d] # Null
    BY <2>2, <2>4, <2>5, ClientApart
  <2>10. CallTypes' /\ CallOK' /\ UnloadSafe'
    BY <1>1, <2>6, <2>7, <2>8, <2>9, StepKeeps DEF dllVars
  <2> QED
    BY <1>1, <1>3, <2>7, <2>10, EngineKept DEF Inv, dllVars
<1> QED
  BY <1>2, <1>3 DEF HandsOut

LEMMA ReturnsKeeps ==
  ASSUME Inv, NEW t \in Threads, Returns(t)
  PROVE  Inv'
<1>1. /\ pc[t] = "leave" /\ Loaded /\ InScope(t) = {}
      /\ Enters(t, "idle", "none", <<>>, 0) /\ UNCHANGED objectVars /\ UNCHANGED dllVars
  BY DEF Returns, Runs
<1>2. /\ \A u \in Threads \ {t} : pc'[u] = pc[u] /\ call'[u] = call[u] /\ self'[u] = self[u]
      /\ pc'[t] = "idle" /\ call'[t] = "none" /\ self'[t] = <<>>
      /\ UNCHANGED <<phase, rc, ref, dying>>
      /\ CallTypes'
  BY <1>1 DEF Enters, Inv, Memory, MemoryTypes, CallTypes, CallNames, objectVars
<1>3. PcKept
  BY <1>1 DEF PcKept, Enters, Inv, Memory, MemoryTypes, PcSteps
<1>4. Memory'
  BY <1>1, <1>2, <1>3, SameMemory DEF Inv, dllVars
<1>5. ASSUME NEW u \in Threads, u # t PROVE ThreadOK(u)'
  BY <1>2, <1>5, OtherOK, SelfIsClient DEF Inv
<1>6. \A s \in Local(t) : ref[s] = Null
  BY <1>1 DEF InScope
<1>7. ThreadOK(t)'
  BY <1>2, <1>6 DEF ThreadOK
<1>8. EngineOK' /\ UnloadSafe'
  BY <1>1, <1>2, EngineKept DEF Inv, dllVars, UnloadSafe, Loaded
<1> QED
  BY <1>2, <1>4, <1>5, <1>7, <1>8 DEF Inv, CallOK

LEMMA LaunchesKeeps ==
  ASSUME Inv, NEW t \in Threads, Launches(t)
  PROVE  Inv'
<1>1. /\ pc[t] = "launch" /\ Loaded
      /\ UNCHANGED <<phase, rc, ref, call, self, dying, count, locks, unload>>
  BY DEF Launches, Runs, objectVars
<1>2. \/ UNCHANGED pc
      \/ Goes(t, "leave")
  BY DEF Launches
<1>3. PICK step \in {"launch", "leave"} : Goes(t, step)
  BY <1>1, <1>2 DEF Goes, Inv, Memory, MemoryTypes
<1>4. PcKept
  BY <1>1, <1>3 DEF PcKept, Goes, Inv, Memory, MemoryTypes, PcSteps
<1>5. Memory'
  BY <1>1, <1>4, SameMemory DEF Inv
<1>6. step \in PcSteps \ {"idle"}
  BY DEF PcSteps
<1>7. CallTypes' /\ CallOK' /\ UnloadSafe'
  BY <1>1, <1>3, <1>5, <1>6, StepKeeps
<1>8. EngineOK'
  BY <1>1 DEF Launches, Inv, EngineOK, Goes
<1> QED
  BY <1>5, <1>7, <1>8 DEF Inv

\* An object that is being deleted: nothing refers to it.
LEMMA DyingFacts ==
  ASSUME Inv, NEW t \in Threads, dying[t] # Null
  PROVE  /\ dying[t] \in Objects
         /\ \A s \in Slots : ref[s] # dying[t]
         /\ \A u \in Threads : u # t => dying[u] # dying[t]
         /\ \A u \in Threads : pc[u] = "count" =>
              New(u) # dying[t] /\ New(u) \in Objects /\ New(u) # Null
<1>1. dying[t] \in Objects
  BY DEF Inv, Memory, MemoryTypes
<1>2. \A s \in Slots : ref[s] # dying[t]
  BY NotDying DEF Inv
<1>3. \A u \in Threads : u # t => dying[u] # dying[t]
  BY DEF Inv, Memory, DyingUnreferenced
<1>4. \A u \in Threads : pc[u] = "count" =>
        New(u) # dying[t] /\ New(u) \in Objects /\ New(u) # Null
  BY <1>2, SlotFacts, NotDying DEF New, Inv, Memory, NewUncounted
<1> QED
  BY <1>1, <1>2, <1>3, <1>4

LEMMA UncountsKeeps ==
  ASSUME Inv, NEW t \in Threads, Loaded, Uncounts(t)
  PROVE  Inv'
<1> DEFINE o == dying[t]
<1>1. /\ o # Null /\ phase[o] = "counted"
      /\ phase' = [phase EXCEPT ![o] = "uncounted"] /\ count' = count - 1
      /\ UNCHANGED <<rc, ref, locks, engine, pinned, unload>> /\ UNCHANGED threadVars
  BY DEF Uncounts
<1>2. /\ o \in Objects /\ \A s \in Slots : ref[s] # o
      /\ \A u \in Threads : u # t => dying[u] # o
      /\ \A u \in Threads : pc[u] = "count" => New(u) # o /\ New(u) \in Objects
  BY <1>1, DyingFacts
<1>3. /\ \A p \in Objects : p # o => phase'[p] = phase[p]
      /\ phase'[o] = "uncounted" /\ UNCHANGED <<pc, call, self, dying>>
  BY <1>1, <1>2 DEF Inv, Memory, MemoryTypes, threadVars
<1>4. /\ Counted' = Counted \ {o} /\ o \in Counted
  BY <1>1, <1>2, <1>3 DEF Counted
<1>5. Cardinality(Counted') = Cardinality(Counted) - 1 /\ Cardinality(Counted') \in Nat
  BY <1>4, CountedFinite, FS_RemoveElement, FS_CardinalityType
<1>6. CountRight' /\ count' \in Nat
  BY <1>1, <1>5, CountedFinite DEF CountRight, Inv, Memory, MemoryTypes
<1>7. MemoryTypes' /\ Balanced(ref, rc)'
  BY <1>1, <1>3, <1>6 DEF Inv, Memory, MemoryTypes, Typed, Balanced, Refs
<1> HIDE DEF o
<1>8. RefsCounted'
  BY <1>1, <1>2, <1>3, NotDying DEF Inv, Memory, RefsCounted
<1>9. NewUncounted'
  BY <1>1, <1>2, <1>3 DEF New, Inv, Memory, NewUncounted
<1>10. DyingUnreferenced'
  BY <1>1, <1>2, <1>3 DEF Inv, Memory, MemoryTypes, DyingUnreferenced
<1>11. Memory'
  BY <1>6, <1>7, <1>8, <1>9, <1>10 DEF Memory
<1> QED
  BY <1>1, <1>3, <1>11, AtOnce, SelfIsClient

LEMMA DestroysKeeps ==
  ASSUME Inv, NEW t \in Threads, Loaded, Destroys(t)
  PROVE  Inv'
<1> DEFINE o == dying[t]
           a == TokenOf(o)
<1>1. /\ o # Null /\ phase[o] = "uncounted"
      /\ phase' = [phase EXCEPT ![o] = "free"]
      /\ UNCHANGED <<pc, call, self>> /\ UNCHANGED dllVars
  BY DEF Destroys
<1>2. /\ o \in Objects /\ \A s \in Slots : ref[s] # o
      /\ \A u \in Threads : u # t => dying[u] # o
      /\ \A u \in Threads : pc[u] = "count" =>
           New(u) # o /\ New(u) \in Objects /\ New(u) # Null
      /\ a \in Slots /\ \A u \in Threads : a \notin Local(u)
      /\ \A d \in ClientSlots : d # a
  BY <1>1, DyingFacts, TokenSlots, ClientApart
<1>3. /\ \A p \in Objects : p # o => phase'[p] = phase[p]
      /\ phase'[o] = "free" /\ phase' \in [Objects -> {"free", "uncounted", "counted"}]
  BY <1>1, <1>2 DEF Inv, Memory, MemoryTypes
<1>4. Counted' = Counted
  BY <1>1, <1>3 DEF Counted
\* What becomes of token_.
<1>5. /\ Typed(ref', rc') /\ Balanced(ref', rc')
      /\ \A d \in Slots : ref'[d] = IF d = a THEN Null ELSE ref[d]
      /\ \A u \in Threads : u # t => dying'[u] = dying[u]
      /\ dying' \in [Threads -> Objects \cup {Null}]
      /\ \A p \in Objects : rc[p] = 0 => rc'[p] = 0
      /\ dying'[t] # Null =>
           /\ rc'[dying'[t]] = 0 /\ dying'[t] # o /\ phase[dying'[t]] # "free"
           /\ \A u \in Threads : dying[u] # dying'[t]
  <2>1. CASE ref[a] = Null
    <3>1. UNCHANGED <<ref, rc>> /\ dying' = [dying EXCEPT ![t] = Null]
      BY <2>1 DEF Destroys
    <3> QED
      BY <2>1, <3>1 DEF Inv, Memory, MemoryTypes
  <2>2. CASE ref[a] # Null
    <3> DEFINE p == ref[a]
    <3>1. /\ ref' = [ref EXCEPT ![a] = Null] /\ rc' = [rc EXCEPT ![p] = @ - 1]
          /\ dying' = [dying EXCEPT ![t] = IF rc[p] = 1 THEN p ELSE Null]
      BY <2>2 DEF Destroys, Clear
    <3>2. /\ p \in Objects /\ rc[p] > 0 /\ rc[p] \in Nat /\ phase[p] # "free" /\ p # o
          /\ \A u \in Threads : dying[u] # p
      BY <1>2, <2>2, NotDying DEF Inv
    <3>3. Typed(ref', rc') /\ Balanced(ref', rc')
      BY <1>2, <2>2, <3>1, OneLess DEF Inv, Memory, MemoryTypes
    <3> HIDE DEF p, a, o
    <3> QED
      BY <1>2, <3>1, <3>2, <3>3 DEF Inv, Memory, MemoryTypes, Typed
  <2> QED
    BY <2>1, <2>2
<1> HIDE DEF o, a
<1>6. MemoryTypes' /\ CountRight' /\ Balanced(ref, rc)'
  BY <1>1, <1>3, <1>4, <1>5
     DEF Inv, Memory, MemoryTypes, CountRight, Balanced, Refs, dllVars
<1>7. RefsCounted'
  BY <1>1, <1>2, <1>3, <1>5, NotDying DEF Inv, Memory, RefsCounted
<1>8. NewUncounted'
  <2>1. \A u \in Threads : pc[u] = "count" => New(u)' = New(u)
    BY <1>2, <1>5, SlotFacts DEF New
  <2> QED
    BY <1>1, <1>2, <1>3, <2>1 DEF Inv, Memory, NewUncounted
<1>9. DyingUnreferenced'
  <2>1. ASSUME NEW u \in Threads, dying'[u] # Null
        PROVE  /\ rc'[dying'[u]] = 0 /\ phase'[dying'[u]] # "free"
               /\ \A v \in Threads : dying'[v] = dying'[u] => v = u
    <3>1. CASE u = t
      BY <1>3, <1>5, <2>1, <3>1
    <3>2. CASE u # t
      BY <1>2, <1>3, <1>5, <2>1, <3>2 DEF Inv, Memory, MemoryTypes, DyingUnreferenced
    <3> QED
      BY <3>1, <3>2
  <2> QED
    BY <2>1 DEF DyingUnreferenced
<1>10. Memory'
  BY <1>6, <1>7, <1>8, <1>9 DEF Memory
<1>11. \A u \in Threads : self[u] # <<>> => ref'[self[u]] # Null
  BY <1>2, <1>5, SelfIsClient, ClientApart
<1>12. \A u \in Threads : \A s \in Local(u) : ref'[s] = ref[s]
  BY <1>2, <1>5, SlotFacts
<1> QED
  BY <1>1, <1>10, <1>11, <1>12, AtOnce DEF dllVars

-----------------------------------------------------------------------------
\* The unload.

\* With nothing counted and every call inside made through an object, there is no call and
\* no reference, and no engine that is not pinned.
LEMMA NothingLeft ==
  ASSUME Inv, count = 0, ~pinned, \A t \in Threads : pc[t] # "idle" => self[t] # <<>>
  PROVE  /\ locks = 0 /\ engine = "none"
         /\ \A s \in Slots : ref[s] = Null
         /\ \A t \in Threads : self[t] = <<>> /\ call[t] = "none"
<1>1. locks = 0 /\ Cardinality(Counted) = 0
  BY CountedFinite DEF Inv, Memory, MemoryTypes, CountRight
<1>2. \A o \in Objects : phase[o] # "counted"
  <2>1. Counted = {}
    BY <1>1, CountedFinite, FS_EmptySet
  <2> QED
    BY <2>1 DEF Counted
<1>3. \A t \in Threads : self[t] = <<>>
  BY <1>2, SelfIsClient, NotDying, ClientApart DEF Inv
<1>4. \A t \in Threads : pc[t] = "idle"
  BY <1>3
<1>5. \A t \in Threads : call[t] = "none"
  BY <1>4 DEF Inv, CallOK, ThreadOK
<1>6. \A s \in Slots : ref[s] = Null
  BY <1>2, <1>4, NotDying DEF Inv, Memory, RefsCounted
<1>7. engine = "none"
  BY <1>4 DEF Inv, EngineOK
<1> QED
  BY <1>1, <1>3, <1>5, <1>6, <1>7

LEMMA UnloadKeeps ==
  ASSUME Inv, AsksUnload \/ Unloads
  PROVE  Inv'
<1>1. /\ UNCHANGED <<kind, phase, rc, pos, ref, pc, call, self, want, dying>>
      /\ UNCHANGED <<count, locks, engine, pinned>>
  BY DEF AsksUnload, Unloads, objectVars, threadVars
<1>2. PcKept
  BY <1>1 DEF PcKept, Inv, Memory, MemoryTypes
<1>3. Memory'
  BY <1>1, <1>2, SameMemory DEF Inv
<1>4. CallTypes' /\ EngineOK' /\ CallOK'
  BY <1>1 DEF Inv, CallTypes, EngineOK, CallOK, ThreadOK, New
<1>5. UnloadSafe'
  <2>1. CASE AsksUnload
    BY <2>1 DEF AsksUnload, UnloadSafe
  <2>2. CASE Unloads
    <3>1. /\ \A t \in Threads : pc[t] # "idle" => self[t] # <<>>
          /\ unload' = "freed" => count = 0 /\ ~pinned
      BY <2>2 DEF Unloads
    <3> QED
      BY <1>1, <3>1, NothingLeft DEF UnloadSafe
  <2> QED
    BY <2>1, <2>2
<1> QED
  BY <1>3, <1>4, <1>5 DEF Inv

LEMMA InvStep == Inv /\ [ComNext]_comVars => Inv'
<1> SUFFICES ASSUME Inv, [ComNext]_comVars PROVE Inv'
  OBVIOUS
<1>1. CASE UNCHANGED comVars
  <2>1. UNCHANGED <<phase, rc, ref, count, locks, dying, pc, call, self, engine, pinned, unload>>
    BY <1>1 DEF comVars, objectVars, threadVars, dllVars
  <2>2. PcKept
    BY <2>1 DEF PcKept, Inv, Memory, MemoryTypes
  <2>3. Memory'
    BY <2>1, <2>2, SameMemory DEF Inv
  <2> QED
    BY <2>1, <2>3 DEF Inv, CallTypes, EngineOK, CallOK, ThreadOK, New, UnloadSafe
<1>2. ASSUME NEW t \in Threads, DllGetClassObject(t) PROVE Inv'
  BY <1>2, FirstCalls
<1>3. ASSUME NEW t \in Threads, NEW s \in ClientSlots, Calls(t, s) PROVE Inv'
  BY <1>3, FirstCalls, ShortCalls, SetsToken DEF Calls
<1>4. ASSUME NEW t \in Threads, Steps(t) PROVE Inv'
  <2>1. CASE Constructs(t) \/ Counts(t) \/ Queries(t) \/ Gets(t)
    BY <2>1, ConstructsKeeps, CountsKeeps, QueriesAndGets
  <2>2. CASE Drops(t) \/ HandsOut(t) \/ Returns(t) \/ Launches(t)
    BY <2>2, DropsKeeps, HandsOutKeeps, ReturnsKeeps, LaunchesKeeps
  <2>3. CASE TokenMade(t)
    BY <2>3, FailsKeeps DEF TokenMade, Runs, objectVars
  <2>4. CASE Loaded /\ (Uncounts(t) \/ Destroys(t))
    BY <2>4, UncountsKeeps, DestroysKeeps
  <2> QED
    BY <1>4, <2>1, <2>2, <2>3, <2>4 DEF Steps
<1>5. ASSUME AsksUnload \/ Unloads PROVE Inv'
  BY <1>5, UnloadKeeps
<1> QED
  BY <1>1, <1>2, <1>3, <1>4, <1>5 DEF ComNext

\* Each object counts exactly the references there are to it, and object_counter exactly the
\* objects and locks, for every interleaving and whatever fails.
THEOREM ReferencesBalance == ComSpec => []RefsBalance
<1>1. Inv => RefsBalance
  BY DEF Inv, Memory, Balanced, CountRight, RefsBalance, Refs, RefsTo, Counted
<1> QED
  BY <1>1, InvInit, InvStep, PTL DEF ComSpec

\* COM frees the DLL only when nothing refers into it and no engine is unpinned.
THEOREM UnloadIsSafe == ComSpec => []UnloadSafe
<1>1. Inv => UnloadSafe
  BY DEF Inv
<1> QED
  BY <1>1, InvInit, InvStep, PTL DEF ComSpec

-----------------------------------------------------------------------------
\* Enumerators: one thread at a time moves one, and never past the last voice.

Making == {"new", "count", "query", "get", "scope", "hand"}
PosTypes ==
  /\ kind \in [Objects -> Kinds] /\ pos \in [Objects -> 0..NVoices]
  /\ want \in [Threads -> Nat]
  /\ locks \in 0..MaxLocks /\ pinned \in BOOLEAN /\ unload \in {"no", "asked", "freed"}
MakingOK(t) ==
  pc[t] \in Making =>
    /\ call[t] \notin {"none", "token_", "speak"}
    /\ call[t] \in {"clone", "next"} => self[t] # <<>>
    /\ call[t] = "next" =>
         kind[ref[self[t]]] = "enum" /\ pos[ref[self[t]]] + want[t] <= NVoices
Exclusive(t, u) ==
  t # u /\ self[t] # <<>> /\ self[u] # <<>> /\ ref[self[t]] = ref[self[u]] =>
    kind[ref[self[t]]] \notin {"enum", "engine"}
Positions ==
  /\ PosTypes
  /\ \A t \in Threads : MakingOK(t) /\ \A u \in Threads : Exclusive(t, u)

LEMMA PositionsInit == ComInit => Positions
<1> SUFFICES ASSUME ComInit PROVE Positions
  OBVIOUS
<1>1. PosTypes
  <2>1. 0 \in 0..NVoices /\ 0 \in 0..MaxLocks
    BY ComAssumption
  <2>2. "token" \in Kinds
    BY DEF Kinds
  <2> QED
    BY <2>1, <2>2 DEF ComInit, PosTypes
<1>2. ASSUME NEW t \in Threads PROVE MakingOK(t) /\ \A u \in Threads : Exclusive(t, u)
  BY DEF ComInit, MakingOK, Exclusive, Making
<1> QED
  BY <1>1, <1>2 DEF Positions

\* A step that enters no call and leaves the objects calls are made through as they are.
LEMMA QuietStep ==
  ASSUME Inv, Positions, PosTypes',
         \A u \in Threads :
           /\ pc'[u] \in Making => pc[u] \in Making /\ call'[u] = call[u] /\ self'[u] = self[u]
                                   /\ want'[u] = want[u]
           /\ self'[u] # <<>> => self'[u] = self[u]
           /\ self[u] # <<>> => /\ ref'[self[u]] = ref[self[u]]
                                /\ kind'[ref[self[u]]] = kind[ref[self[u]]]
           /\ pc'[u] \in Making /\ self[u] # <<>> => pos'[ref[self[u]]] = pos[ref[self[u]]]
  PROVE  Positions'
<1>1. ASSUME NEW u \in Threads PROVE MakingOK(u)'
  BY DEF Positions, MakingOK
<1>2. ASSUME NEW u \in Threads, NEW v \in Threads PROVE Exclusive(u, v)'
  BY DEF Positions, Exclusive
<1> QED
  BY <1>1, <1>2 DEF Positions

\* A call that starts.
LEMMA EntersPositions ==
  ASSUME Inv, Positions, NEW t \in Threads, NEW step, NEW what,
         NEW s \in ClientSlots \cup {<<>>}, NEW n \in Nat,
         Enters(t, step, what, s, n), UNCHANGED <<kind, pos>>, UNCHANGED dllVars,
         \A d \in ClientSlots : ref'[d] = ref[d],
         s # <<>> => \/ kind[ref[s]] \notin {"enum", "engine"}
                     \/ \A u \in Threads : self[u] # <<>> => ref[self[u]] # ref[s],
         step \in Making =>
           /\ what \notin {"none", "token_", "speak"}
           /\ what \in {"clone", "next"} => s # <<>>
           /\ what = "next" => kind[ref[s]] = "enum" /\ pos[ref[s]] + n <= NVoices
  PROVE  Positions'
<1>1. /\ \A u \in Threads \ {t} :
           pc'[u] = pc[u] /\ call'[u] = call[u] /\ self'[u] = self[u] /\ want'[u] = want[u]
      /\ pc'[t] = step /\ call'[t] = what /\ self'[t] = s /\ want'[t] = n
      /\ want' \in [Threads -> Nat]
  BY DEF Enters, Inv, Memory, MemoryTypes, CallTypes, Positions, PosTypes
<1>2. \A u \in Threads : self[u] # <<>> => ref'[self[u]] = ref[self[u]]
  BY SelfIsClient
<1>3. PosTypes'
  BY <1>1 DEF Positions, PosTypes, dllVars
<1>4. ASSUME NEW u \in Threads PROVE MakingOK(u)'
  <2>1. CASE u = t
    BY <1>1, <2>1 DEF MakingOK
  <2>2. CASE u # t
    BY <1>1, <1>2, <2>2 DEF Positions, MakingOK
  <2> QED
    BY <2>1, <2>2
<1>5. ASSUME NEW u \in Threads, NEW v \in Threads PROVE Exclusive(u, v)'
  BY <1>1, <1>2 DEF Positions, Exclusive
<1> QED
  BY <1>3, <1>4, <1>5 DEF Positions

LEMMA EnteringPositions ==
  ASSUME Inv, Positions, NEW t \in Threads
  PROVE  /\ DllGetClassObject(t) => Positions'
         /\ \A s \in ClientSlots :
              CreateInstance(t, s) \/ Clone(t, s) \/ OpenKey(t, s) \/ Item(t, s)
                \/ Next(t, s) \/ Speak(t, s) \/ SetObjectToken(t, s) => Positions'
<1>1. ASSUME DllGetClassObject(t) PROVE Positions'
  <2>1. PICK k \in Factories : Enters(t, "new", k, <<>>, 1)
    BY <1>1 DEF DllGetClassObject
  <2> QED
    BY <1>1, <2>1, EntersPositions DEF DllGetClassObject, Factories, objectVars
<1>2. ASSUME NEW s \in ClientSlots, NEW K, Through(t, s, K)
      PROVE  /\ s # <<>> /\ kind[ref[s]] \in K
             /\ \/ kind[ref[s]] \notin {"enum", "engine"}
                \/ \A u \in Threads : self[u] # <<>> => ref[self[u]] # ref[s]
  BY <1>2, ClientApart DEF Through
<1>3. ASSUME NEW s \in ClientSlots, CreateInstance(t, s) PROVE Positions'
  <2>1. Creates(kind[ref[s]]) \in {"enum", "engine"}
    BY DEF Creates
  <2> QED
    BY <1>2, <1>3, <2>1, EntersPositions DEF CreateInstance, objectVars
<1>4. ASSUME NEW s \in ClientSlots, Clone(t, s) \/ OpenKey(t, s) \/ Item(t, s)
      PROVE  Positions'
  BY <1>2, <1>4, EntersPositions DEF Clone, OpenKey, Item, objectVars
<1>5. ASSUME NEW s \in ClientSlots, Next(t, s) PROVE Positions'
  <2>1. ref[s] \in Objects /\ pos[ref[s]] \in 0..NVoices /\ NVoices \in Nat
    BY <1>5, ClientCounted, ComAssumption
       DEF Next, Through, Usable, Inv, Positions, PosTypes
  <2>2. kind[ref[s]] = "enum" /\ UNCHANGED objectVars /\ UNCHANGED dllVars
    BY <1>2, <1>5 DEF Next
  <2>3. PICK celt \in 1..Cardinality(Empty(Outs(t))) :
          LET left == NVoices - pos[ref[s]]
              n    == IF celt < left THEN celt ELSE left
          IN Enters(t, IF n = 0 THEN "leave" ELSE "new", "next", s, n)
    BY <1>5 DEF Next
  <2> DEFINE left == NVoices - pos[ref[s]]
             n    == IF celt < left THEN celt ELSE left
             step == IF n = 0 THEN "leave" ELSE "new"
  <2>4. n \in Nat /\ pos[ref[s]] + n <= NVoices
    BY <2>1
  <2>5. Enters(t, step, "next", s, n)
    BY <2>3
  <2> HIDE DEF n, step
  <2> QED
    BY <1>2, <1>5, <2>2, <2>4, <2>5, EntersPositions DEF Next, objectVars
<1>6. ASSUME NEW s \in ClientSlots, Speak(t, s) PROVE Positions'
  BY <1>2, <1>6, EntersPositions DEF Speak, objectVars, Making
<1>7. ASSUME NEW s \in ClientSlots, SetObjectToken(t, s) PROVE Positions'
  <2>1. PICK v \in ClientSlots :
          ref' = [ref EXCEPT ![TokenOf(ref[s])] = ref[v], ![Old(t)] = ref[TokenOf(ref[s])]]
    BY <1>7 DEF SetObjectToken
  <2>2. ref[s] \in Objects
    BY <1>7, ClientCounted DEF SetObjectToken, Through, Usable, Inv
  <2>3. \A d \in ClientSlots : ref'[d] = ref[d]
    BY <2>1, <2>2, ClientApart, SlotFacts DEF Inv, Memory, MemoryTypes, Typed
  <2> QED
    BY <1>2, <1>7, <2>3, EntersPositions DEF SetObjectToken, Making
<1> QED
  BY <1>1, <1>3, <1>4, <1>5, <1>6, <1>7

\* The variable a call was made through is empty only when the call has ended.
LEMMA SelfStays ==
  ASSUME Inv, NEW u \in Threads, self[u] # <<>>, NEW t \in Threads
  PROVE  /\ \A S : S \in {Outs(t), Vector(t), {Interface(t)}, {Object(t)}} =>
              \A o : Put(S, o) => ref'[self[u]] = ref[self[u]]
         /\ \A s \in Slots : s # self[u] /\ Clear(t, s) => ref'[self[u]] = ref[self[u]]
         /\ \A s \in Local(t) : s # self[u]
         /\ \A o \in Objects : TokenOf(o) # self[u] /\ TokenOf(o) \in Slots
<1>1. self[u] \in ClientSlots /\ ref[self[u]] # Null /\ self[u] \in Slots
  BY SelfIsClient, ClientApart
<1>2. ASSUME NEW S, S \in {Outs(t), Vector(t), {Interface(t)}, {Object(t)}}, NEW o, Put(S, o)
      PROVE  ref'[self[u]] = ref[self[u]]
  <2>1. Slot(S) \in S /\ ref[Slot(S)] = Null
    BY <1>2 DEF Put, Slot, Empty
  <2> QED
    BY <1>1, <1>2, <2>1, SlotFacts DEF Put, Inv, Memory, MemoryTypes, Typed
<1>3. ASSUME NEW s \in Slots, s # self[u], Clear(t, s) PROVE ref'[self[u]] = ref[self[u]]
  BY <1>1, <1>3 DEF Clear, Inv, Memory, MemoryTypes, Typed
<1> QED
  BY <1>1, <1>2, <1>3, ClientApart, TokenSlots

LEMMA ShortPositions ==
  ASSUME Inv, Positions, NEW t \in Threads, NEW s \in ClientSlots
  PROVE  Moves(t, s) \/ AddRef(t, s) \/ Release(t, s) \/ LockServer(t, s)
           \/ GetObjectToken(t, s) => Positions'
<1>1. ASSUME Moves(t, s) PROVE Positions'
  <2>1. /\ UNCHANGED <<kind, ref>> /\ UNCHANGED threadVars /\ UNCHANGED dllVars
        /\ ref[s] \in Objects /\ kind[ref[s]] = "enum"
        /\ \A u \in Threads : self[u] # <<>> => ref[self[u]] # ref[s]
    BY <1>1, ClientCounted DEF Moves, Through, Usable, Inv
  <2>2. PICK p \in {0} \cup (pos[ref[s]]..NVoices) : pos' = [pos EXCEPT ![ref[s]] = p]
    BY <1>1 DEF Moves
  <2>3. p \in 0..NVoices
    BY <2>1, ComAssumption DEF Positions, PosTypes
  <2>4. PosTypes'
    BY <2>1, <2>2, <2>3 DEF Positions, PosTypes, threadVars, dllVars
  <2>5. \A u \in Threads : self[u] # <<>> => pos'[ref[self[u]]] = pos[ref[self[u]]]
    BY <2>1, <2>2, SelfIsClient, ClientCounted DEF Inv, Positions, PosTypes
  <2> QED
    BY <2>1, <2>4, <2>5, QuietStep DEF threadVars
<1>2. ASSUME UNCHANGED <<kind, pos>>, UNCHANGED threadVars, PosTypes',
             \A u \in Threads : self[u] # <<>> => ref'[self[u]] = ref[self[u]]
      PROVE  Positions'
  BY <1>2, QuietStep DEF threadVars
<1>3. ASSUME AddRef(t, s) \/ GetObjectToken(t, s) PROVE Positions'
  <2>1. UNCHANGED <<kind, pos>> /\ UNCHANGED threadVars /\ UNCHANGED dllVars
    BY <1>3 DEF AddRef, GetObjectToken
  <2>2. \A u \in Threads : self[u] # <<>> => ref'[self[u]] = ref[self[u]]
    BY <1>3, SelfStays DEF AddRef, GetObjectToken
  <2> QED
    BY <1>2, <2>1, <2>2 DEF Positions, PosTypes, threadVars, dllVars
<1>4. ASSUME Release(t, s) PROVE Positions'
  <2>1. /\ UNCHANGED <<kind, pos, pc, call, self, want>> /\ UNCHANGED dllVars
        /\ Clear(t, s) /\ \A u \in Threads : self[u] # s
    BY <1>4 DEF Release
  <2>2. \A u \in Threads : self[u] # <<>> => ref'[self[u]] = ref[self[u]]
    BY <2>1, SelfStays, ClientApart
  <2> QED
    BY <2>1, <2>2, QuietStep DEF Positions, PosTypes, dllVars
<1>5. ASSUME LockServer(t, s) PROVE Positions'
  <2>1. UNCHANGED objectVars /\ UNCHANGED threadVars /\ UNCHANGED <<pinned, unload>>
        /\ locks' \in 0..MaxLocks
    BY <1>5 DEF LockServer
  <2>2. PosTypes'
    BY <2>1 DEF Positions, PosTypes, objectVars, threadVars
  <2> QED
    BY <1>2, <2>1, <2>2 DEF objectVars
<1> QED
  BY <1>1, <1>3, <1>4, <1>5

LEMMA StepPositions ==
  ASSUME Inv, Positions, NEW t \in Threads, Steps(t)
  PROVE  Positions'
<1> DEFINE Steady == \A u \in Threads : self[u] # <<>> => ref'[self[u]] = ref[self[u]]
<1>1. ASSUME NEW step, step \in Making => pc[t] \in Making, Goes(t, step), Steady,
             UNCHANGED <<kind, pos, call, self, want, locks, unload>>, pinned' \in BOOLEAN
      PROVE  Positions'
  <2>1. PosTypes'
    BY <1>1 DEF Positions, PosTypes
  <2>2. \A u \in Threads : pc'[u] \in Making => pc[u] \in Making
    BY <1>1 DEF Goes, Inv, Memory, MemoryTypes
  <2> QED
    BY <1>1, <2>1, <2>2, QuietStep
<1>2. pinned \in BOOLEAN
  BY DEF Positions, PosTypes
<1>3. CASE Constructs(t)
  <2>1. CASE Fails(t) /\ UNCHANGED <<kind, phase, pos>>
    BY <1>1, <1>2, <1>3, <2>1 DEF Constructs, Fails, Making, dllVars
  <2>2. CASE ~(Fails(t) /\ UNCHANGED <<kind, phase, pos>>)
    <3>1. PICK o \in Objects :
            /\ phase[o] = "free" /\ Put({Object(t)}, o) /\ Goes(t, "count")
            /\ kind' = [kind EXCEPT ![o] = KindMade(t)]
            /\ pos' = [pos EXCEPT ![o] = IF call[t] = "clone" THEN pos[ref[self[t]]] ELSE 0]
      BY <1>3, <2>2 DEF Constructs
    <3>2. pc[t] = "new" /\ UNCHANGED <<call, self, want>> /\ UNCHANGED dllVars
      BY <1>3 DEF Constructs, Runs
    <3>3. KindMade(t) \in Kinds
      BY <3>2 DEF KindMade, Kinds, Positions, MakingOK, Making, Inv, CallTypes, CallNames
    <3>4. 0 \in 0..NVoices /\ (call[t] = "clone" => pos[ref[self[t]]] \in 0..NVoices)
      BY <3>2, SelfIsClient, ClientCounted, ComAssumption
         DEF Inv, Positions, PosTypes, MakingOK, Making
    <3>5. PosTypes'
      BY <3>1, <3>2, <3>3, <3>4 DEF Positions, PosTypes, dllVars
    <3>6. \A u \in Threads : self[u] # <<>> =>
            /\ ref'[self[u]] = ref[self[u]]
            /\ kind'[ref[self[u]]] = kind[ref[self[u]]]
            /\ pos'[ref[self[u]]] = pos[ref[self[u]]]
      BY <3>1, SelfStays, SelfIsClient, ClientCounted DEF Inv, Positions, PosTypes
    <3>7. \A u \in Threads : pc'[u] \in Making => pc[u] \in Making
      BY <3>1, <3>2 DEF Goes, Making, Inv, Memory, MemoryTypes
    <3> QED
      BY <3>2, <3>5, <3>6, <3>7, QuietStep
  <2> QED
    BY <2>1, <2>2
<1>4. CASE Counts(t)
  BY <1>1, <1>2, <1>4 DEF Counts, Runs, Making
<1>5. CASE Queries(t) \/ Gets(t)
  <2>1. /\ pc[t] \in Making /\ UNCHANGED <<kind, pos, call, self, want>> /\ UNCHANGED dllVars
        /\ \E step : Goes(t, step)
    BY <1>5 DEF Queries, Gets, Fails, Runs, Making
  <2>2. Steady
    BY <1>5, SelfStays DEF Queries, Gets, Fails
  <2> QED
    BY <1>1, <1>2, <2>1, <2>2 DEF dllVars
<1>6. CASE Drops(t)
  <2>1. PICK s \in InScope(t) : Clear(t, s)
    BY <1>6 DEF Drops
  <2>2. s \in Local(t) /\ s \in Slots
    BY SlotFacts DEF InScope
  <2>3. Steady
    BY <2>1, <2>2, SelfStays
  <2> QED
    BY <1>6, <2>3, QuietStep DEF Drops, Positions, PosTypes, dllVars
<1>7. CASE TokenMade(t)
  BY <1>1, <1>2, <1>7 DEF TokenMade, Runs, Making, objectVars, dllVars
<1>8. CASE HandsOut(t)
  <2>1. pc[t] = "hand" /\ UNCHANGED <<kind, call, self, want>> /\ UNCHANGED dllVars
    BY <1>8 DEF HandsOut, Runs
  <2>2. ASSUME NEW s \in Made(t), Empty(Outs(t)) # {}, UNCHANGED <<pos, pc>>,
               ref' = [ref EXCEPT ![Slot(Outs(t))] = ref[s], ![s] = Null]
        PROVE  Positions'
    <3>1. Slot(Outs(t)) \in Outs(t) /\ ref[Slot(Outs(t))] = Null /\ s \in Local(t)
      BY <2>2, SlotFacts DEF Slot, Empty, Made
    <3>2. Steady
      BY <2>2, <3>1, SelfIsClient, ClientApart DEF Inv, Memory, MemoryTypes, Typed
    <3> QED
      BY <2>1, <2>2, <3>2, QuietStep DEF Positions, PosTypes, dllVars
  <2>3. ASSUME Goes(t, "leave"), UNCHANGED ref,
               pos' = IF call[t] = "next" THEN [pos EXCEPT ![ref[self[t]]] = @ + want[t]] ELSE pos
        PROVE  Positions'
    <3>1. CASE call[t] # "next"
      BY <1>1, <1>2, <2>1, <2>3, <3>1 DEF Making, dllVars
    <3>2. CASE call[t] = "next"
      <4> DEFINE o == ref[self[t]]
      <4>1. /\ self[t] # <<>> /\ kind[o] = "enum" /\ pos[o] + want[t] <= NVoices
            /\ want[t] \in Nat
        BY <2>1, <3>2 DEF Positions, MakingOK, Making, PosTypes
      <4>2. o \in Objects /\ pos[o] \in 0..NVoices /\ NVoices \in Nat
        BY <4>1, SelfIsClient, ClientCounted, ComAssumption DEF Inv, Positions, PosTypes
      <4>3. pos[o] + want[t] \in 0..NVoices /\ pos' = [pos EXCEPT ![o] = pos[o] + want[t]]
        BY <2>3, <3>2, <4>1, <4>2
      <4>4. PosTypes'
        BY <2>1, <4>3 DEF Positions, PosTypes, dllVars
      <4>5. \A u \in Threads : u # t /\ self[u] # <<>> => ref[self[u]] # o
        BY <4>1 DEF Positions, Exclusive
      <4>6. \A u \in Threads : u # t /\ self[u] # <<>> =>
              pos'[ref[self[u]]] = pos[ref[self[u]]]
        BY <4>2, <4>3, <4>5, SelfIsClient, ClientCounted DEF Inv, Positions, PosTypes
      <4>7. /\ pc'[t] \notin Making
            /\ \A u \in Threads : u # t => pc'[u] = pc[u]
        BY <2>3 DEF Goes, Making, Inv, Memory, MemoryTypes
      <4> QED
        BY <2>1, <2>3, <4>4, <4>6, <4>7, QuietStep
    <3> QED
      BY <3>1, <3>2
  <2> QED
    BY <1>8, <2>2, <2>3 DEF HandsOut
<1>9. CASE Returns(t)
  <2>1. Enters(t, "idle", "none", <<>>, 0) /\ UNCHANGED objectVars /\ UNCHANGED dllVars
    BY <1>9 DEF Returns
  <2> QED
    BY <2>1, EntersPositions DEF objectVars, Making
<1>10. CASE Launches(t)
  <2>1. /\ UNCHANGED <<kind, pos, ref, call, self, want, locks, unload>>
        /\ pinned' \in BOOLEAN /\ (UNCHANGED pc \/ Goes(t, "leave"))
    BY <1>2, <1>10 DEF Launches, objectVars
  <2> QED
    BY <1>1, <2>1, QuietStep DEF Making, Positions, PosTypes
<1>11. CASE Uncounts(t)
  BY <1>11, QuietStep DEF Uncounts, threadVars, Positions, PosTypes
<1>12. CASE Destroys(t)
  <2> DEFINE o == dying[t]
  <2>1. /\ o # Null /\ UNCHANGED <<pc, call, self, want>> /\ UNCHANGED dllVars
        /\ kind' = [kind EXCEPT ![o] = "token"] /\ pos' = [pos EXCEPT ![o] = 0]
        /\ UNCHANGED ref \/ Clear(t, TokenOf(o))
    BY <1>12 DEF Destroys
  <2>2. o \in Objects /\ \A s \in Slots : ref[s] # o
    BY <2>1, DyingFacts
  <2>3. Steady
    BY <2>1, <2>2, SelfStays
  <2>4. PosTypes'
    <3>1. 0 \in 0..NVoices /\ "token" \in Kinds
      BY ComAssumption DEF Kinds
    <3> QED
      BY <2>1, <3>1 DEF Positions, PosTypes, dllVars
  <2>5. \A u \in Threads : self[u] # <<>> =>
          /\ kind'[ref[self[u]]] = kind[ref[self[u]]]
          /\ pos'[ref[self[u]]] = pos[ref[self[u]]]
    BY <2>1, <2>2, SelfIsClient, ClientApart, ClientCounted DEF Inv, Positions, PosTypes
  <2> QED
    BY <2>1, <2>3, <2>4, <2>5, QuietStep
<1> QED
  BY <1>3, <1>4, <1>5, <1>6, <1>7, <1>8, <1>9, <1>10, <1>11, <1>12 DEF Steps

LEMMA PositionsStep == Inv /\ Positions /\ [ComNext]_comVars => Positions'
<1> SUFFICES ASSUME Inv, Positions, [ComNext]_comVars PROVE Positions'
  OBVIOUS
<1>1. CASE UNCHANGED comVars
  BY <1>1, QuietStep DEF comVars, objectVars, threadVars, dllVars, Positions, PosTypes
<1>2. ASSUME NEW t \in Threads, DllGetClassObject(t) PROVE Positions'
  BY <1>2, EnteringPositions
<1>3. ASSUME NEW t \in Threads, NEW s \in ClientSlots, Calls(t, s) PROVE Positions'
  BY <1>3, EnteringPositions, ShortPositions DEF Calls
<1>4. ASSUME NEW t \in Threads, Steps(t) PROVE Positions'
  BY <1>4, StepPositions
<1>5. ASSUME AsksUnload \/ Unloads PROVE Positions'
  BY <1>5, QuietStep DEF AsksUnload, Unloads, objectVars, threadVars, Positions, PosTypes
<1> QED
  BY <1>1, <1>2, <1>3, <1>4, <1>5 DEF ComNext

\* The types; that of pos says that Next never moves an enumerator past the last voice,
\* although it looks where the enumerator is before the tokens are made and moves it after.
THEOREM ComTypesCorrect == ComSpec => []ComTypeOK
<1>1. Inv /\ Positions => ComTypeOK
  BY DEF Inv, Memory, MemoryTypes, Typed, CallTypes, CallNames, EngineOK, PcSteps,
         Positions, PosTypes, ComTypeOK, ObjectTypes, ThreadTypes, DllTypes
<1> QED
  BY <1>1, InvInit, InvStep, PositionsInit, PositionsStep, PTL DEF ComSpec

-----------------------------------------------------------------------------
\* Nothing is left behind: an object without a reference is being deleted, and only an
\* engine object keeps another object, a token.

Deleted(o) == \E t \in Threads : dying[t] = o
BeingMade(o) == \E t \in Threads : pc[t] = "count" /\ New(t) = o
Alive ==
  \A o \in Objects :
    /\ phase[o] = "counted" /\ rc[o] = 0 => Deleted(o)
    /\ phase[o] = "uncounted" => Deleted(o) \/ BeingMade(o)
    /\ ref[TokenOf(o)] # Null =>
         phase[o] # "free" /\ kind[o] = "engine" /\ kind[ref[TokenOf(o)]] = "token"

LEMMA AliveInit == ComInit => Alive
  BY TokenSlots DEF ComInit, Alive

\* Steps that release nothing.
LEMMA NothingReleased ==
  ASSUME Inv, Alive, UNCHANGED <<phase, kind, dying>>, PcKept,
         \A t \in Threads : pc[t] = "count" => New(t)' = New(t),
         \A o \in Objects : rc[o] # 0 => rc'[o] # 0,
         \A o \in Objects : ref'[TokenOf(o)] = ref[TokenOf(o)]
  PROVE  Alive'
<1>1. \A o \in Objects : (Deleted(o) => Deleted(o)') /\ (BeingMade(o) => BeingMade(o)')
  BY DEF Deleted, BeingMade, PcKept
<1> QED
  BY <1>1 DEF Alive

\* A reference put into a slot of the thread.
LEMMA PutAlive ==
  ASSUME Inv, Alive, NEW t \in Threads, NEW o \in Objects, PcKept,
         NEW S, S \in {Outs(t), Vector(t), {Interface(t)}}, Put(S, o),
         UNCHANGED <<phase, kind, dying>>
  PROVE  Alive'
<1>1. /\ Slot(S) \in S /\ ref[Slot(S)] = Null /\ Slot(S) \in Slots
      /\ ref' = [ref EXCEPT ![Slot(S)] = o] /\ rc' = [rc EXCEPT ![o] = @ + 1]
  BY SlotFacts DEF Put, Slot, Empty
<1>2. /\ \A d \in Slots : d # Slot(S) => ref'[d] = ref[d]
      /\ \A p \in Objects : rc[p] # 0 => rc'[p] # 0
  BY <1>1 DEF Inv, Memory, MemoryTypes, Typed
<1>3. \A u \in Threads : pc[u] = "count" => New(u)' = New(u)
  BY <1>1, <1>2, SlotFacts DEF New, Inv, Memory, NewUncounted
<1>4. \A p \in Objects : ref'[TokenOf(p)] = ref[TokenOf(p)]
  BY <1>1, <1>2, SlotFacts, ClientApart, TokenSlots
<1> QED
  BY <1>2, <1>3, <1>4, NothingReleased

\* A reference released from a slot of the thread.
LEMMA ClearAlive ==
  ASSUME Inv, Alive, NEW t \in Threads, NEW s \in Slots, ref[s] # Null, dying[t] = Null,
         phase[ref[s]] = "counted", \A o \in Objects : s # TokenOf(o),
         Clear(t, s), UNCHANGED <<phase, kind, pc>>
  PROVE  Alive'
<1> DEFINE p == ref[s]
<1>1. /\ p \in Objects /\ rc[p] \in Nat /\ rc[p] > 0
      /\ ref' = [ref EXCEPT ![s] = Null] /\ rc' = [rc EXCEPT ![p] = @ - 1]
      /\ dying' = [dying EXCEPT ![t] = IF rc[p] = 1 THEN p ELSE Null]
  BY NotDying DEF Clear, Inv
<1> HIDE DEF p
<1>2. /\ \A d \in Slots : d # s => ref'[d] = ref[d]
      /\ \A o \in Objects : o # p => rc'[o] = rc[o]
      /\ rc'[p] = rc[p] - 1
      /\ dying'[t] = IF rc[p] = 1 THEN p ELSE Null
      /\ \A u \in Threads : u # t => dying'[u] = dying[u]
  BY <1>1 DEF Inv, Memory, MemoryTypes, Typed
<1>3. \A u \in Threads : pc[u] = "count" => New(u)' = New(u) /\ Object(u) # s
  BY <1>2, SlotFacts DEF p, New, Inv, Memory, NewUncounted
<1>4. ASSUME NEW o \in Objects
      PROVE  (Deleted(o) => Deleted(o)') /\ (BeingMade(o) => BeingMade(o)')
  <2>1. o # Null
    BY ComAssumption
  <2> QED
    BY <1>2, <1>3, <2>1 DEF Deleted, BeingMade
<1>5. ASSUME rc'[p] = 0 PROVE \E u \in Threads : dying'[u] = p
  <2>1. rc[p] = 1
    BY <1>1, <1>2, <1>5
  <2>2. dying'[t] = p
    BY <1>2, <2>1
  <2> QED
    BY <2>2
<1>6. \A o \in Objects : ref'[TokenOf(o)] = ref[TokenOf(o)]
  BY <1>2, TokenSlots
<1>7. ASSUME NEW o \in Objects, phase[o] = "counted", rc'[o] = 0 PROVE Deleted(o)'
  <2>1. CASE o = p
    BY <1>5, <1>7, <2>1 DEF Deleted
  <2>2. CASE o # p
    BY <1>2, <1>4, <1>7, <2>2 DEF Alive
  <2> QED
    BY <2>1, <2>2
<1> QED
  BY <1>4, <1>6, <1>7 DEF Alive

LEMMA SetsTokenAlive ==
  ASSUME Inv, Alive, NEW t \in Threads, NEW s \in ClientSlots, SetObjectToken(t, s)
  PROVE  Alive'
<1> DEFINE o == ref[s]
           a == TokenOf(o)
           b == Old(t)
<1>1. PICK v \in ClientSlots :
        /\ Usable(t, v) /\ kind[ref[v]] = "token"
        /\ ref' = [ref EXCEPT ![a] = ref[v], ![b] = ref[a]]
        /\ rc' = [rc EXCEPT ![ref[v]] = @ + 1]
  BY DEF SetObjectToken
<1>2. /\ pc[t] = "idle" /\ ref[s] # Null /\ kind[o] = "engine"
      /\ Enters(t, "leave", "token_", s, 0) /\ UNCHANGED <<phase, kind, dying>>
  BY DEF SetObjectToken, Through, Idle, Usable, Enters
<1>3. /\ o \in Objects /\ a \in Slots /\ b \in Slots /\ a # b /\ phase[o] = "counted"
      /\ \A u \in Threads : Object(u) # a /\ Object(u) # b /\ Object(u) \in Slots
      /\ \A p \in Objects : TokenOf(p) # b /\ TokenOf(p) \in Slots
      /\ \A p \in Objects : TokenOf(p) = a => p = o
  BY <1>2, ClientCounted, TokenSlots, SlotFacts, ObjectSlotApart DEF Inv
<1>4. ref[v] # Null /\ ref[v] \in Objects
  BY <1>1, ClientCounted DEF Usable, Inv
<1> HIDE DEF o, a, b
<1>5. /\ \A d \in Slots : d # a /\ d # b => ref'[d] = ref[d]
      /\ ref'[a] = ref[v]
      /\ \A p \in Objects : rc[p] # 0 => rc'[p] # 0
  BY <1>1, <1>3, <1>4 DEF Inv, Memory, MemoryTypes, Typed
<1>6. PcKept
  BY <1>2 DEF PcKept, Enters, Inv, Memory, MemoryTypes, PcSteps
<1>7. \A p \in Objects : (Deleted(p) => Deleted(p)') /\ (BeingMade(p) => BeingMade(p)')
  BY <1>2, <1>3, <1>5, <1>6 DEF Deleted, BeingMade, PcKept, New
<1>8. ASSUME NEW p \in Objects, ref'[TokenOf(p)] # Null
      PROVE  phase[p] # "free" /\ kind[p] = "engine" /\ kind[ref'[TokenOf(p)]] = "token"
  <2>1. CASE TokenOf(p) = a
    BY <1>1, <1>2, <1>3, <1>5, <2>1
  <2>2. CASE TokenOf(p) # a
    BY <1>3, <1>5, <1>8, <2>2 DEF Alive
  <2> QED
    BY <2>1, <2>2
<1> QED
  BY <1>2, <1>5, <1>7, <1>8 DEF Alive

LEMMA CallsAlive ==
  ASSUME Inv, Alive, NEW t \in Threads
  PROVE  /\ DllGetClassObject(t) => Alive'
         /\ \A s \in ClientSlots : Calls(t, s) => Alive'
<1>1. ASSUME UNCHANGED objectVars, UNCHANGED dying, PcKept PROVE Alive'
  BY <1>1, NothingReleased DEF objectVars, New
<1>2. ASSUME NEW step \in {"new", "leave", "launch"}, NEW what, NEW s, NEW n,
             Enters(t, step, what, s, n), Idle(t)
      PROVE  PcKept /\ UNCHANGED dying
  BY <1>2 DEF PcKept, Enters, Idle, Inv, Memory, MemoryTypes, PcSteps
<1>3. ASSUME DllGetClassObject(t) PROVE Alive'
  BY <1>1, <1>2, <1>3 DEF DllGetClassObject
<1>4. ASSUME NEW s \in ClientSlots,
             CreateInstance(t, s) \/ Clone(t, s) \/ OpenKey(t, s) \/ Item(t, s) \/ Speak(t, s)
      PROVE  Alive'
  BY <1>1, <1>2, <1>4 DEF CreateInstance, Clone, OpenKey, Item, Speak, Through
<1>5. ASSUME NEW s \in ClientSlots, Next(t, s) PROVE Alive'
  <2>1. PICK n : Enters(t, "leave", "next", s, n) \/ Enters(t, "new", "next", s, n)
    BY <1>5 DEF Next
  <2> QED
    BY <1>1, <1>2, <1>5, <2>1 DEF Next, Through
<1>6. PcKept \/ pc' # pc
  BY DEF PcKept, Inv, Memory, MemoryTypes
<1>7. ASSUME NEW s \in ClientSlots, Moves(t, s) \/ LockServer(t, s) PROVE Alive'
  <2>1. UNCHANGED <<kind, phase, rc, ref>> /\ UNCHANGED threadVars
    BY <1>7 DEF Moves, LockServer, objectVars
  <2> QED
    BY <1>6, <2>1, NothingReleased DEF threadVars, New
<1>8. ASSUME NEW s \in ClientSlots, AddRef(t, s) \/ GetObjectToken(t, s) PROVE Alive'
  <2>1. UNCHANGED <<kind, phase>> /\ UNCHANGED threadVars
    BY <1>8 DEF AddRef, GetObjectToken
  <2>2. PICK o \in Objects : Put(Outs(t), o)
    BY <1>8, ClientCounted, TokenCounted
       DEF AddRef, GetObjectToken, Through, Usable, Inv
  <2> QED
    BY <1>6, <2>1, <2>2, PutAlive DEF threadVars
<1>9. ASSUME NEW s \in ClientSlots, Release(t, s) PROVE Alive'
  BY <1>9, ClearAlive, ClientApart, ClientCounted DEF Release, Idle, Usable, Inv
<1> QED
  BY <1>3, <1>4, <1>5, <1>7, <1>8, <1>9, SetsTokenAlive DEF Calls

LEMMA MakesAlive ==
  ASSUME Inv, Positions, Alive, NEW t \in Threads, Constructs(t) \/ Counts(t)
  PROVE  Alive'
<1>1. CASE Constructs(t) /\ Fails(t) /\ UNCHANGED <<kind, phase, pos>>
  <2>1. UNCHANGED <<phase, kind, rc, ref, dying>> /\ PcKept
    BY <1>1 DEF Constructs, Runs, Fails, Goes, PcKept, Inv, Memory, MemoryTypes, PcSteps
  <2> QED
    BY <2>1, NothingReleased DEF New
<1>2. CASE Constructs(t) /\ ~(Fails(t) /\ UNCHANGED <<kind, phase, pos>>)
  <2>1. PICK o \in Objects :
          /\ phase[o] = "free" /\ Put({Object(t)}, o) /\ Goes(t, "count")
          /\ kind' = [kind EXCEPT ![o] = KindMade(t)]
          /\ phase' = [phase EXCEPT ![o] = "uncounted"]
    BY <1>2 DEF Constructs
  <2>2. pc[t] = "new" /\ UNCHANGED dying
    BY <1>2 DEF Constructs, Runs
  <2>3. /\ Object(t) \in Slots /\ ref' = [ref EXCEPT ![Object(t)] = o]
        /\ rc' = [rc EXCEPT ![o] = @ + 1]
    BY <2>1, SlotFacts DEF Put, Slot, Empty
  <2>4. /\ \A d \in Slots : d # Object(t) => ref'[d] = ref[d] /\ ref[d] # o
        /\ ref'[Object(t)] = o /\ phase'[o] = "uncounted"
        /\ \A p \in Objects : p # o =>
             rc'[p] = rc[p] /\ kind'[p] = kind[p] /\ phase'[p] = phase[p]
        /\ \A u \in Threads : u # t => pc'[u] = pc[u]
        /\ pc'[t] = "count"
    <3>1. \A d \in Slots : ref[d] # o
      BY <2>1, NotDying, ComAssumption DEF Inv
    <3>2. /\ \A d \in Slots : d # Object(t) => ref'[d] = ref[d]
          /\ ref'[Object(t)] = o
          /\ \A p \in Objects : p # o => rc'[p] = rc[p]
      BY <2>3 DEF Inv, Memory, MemoryTypes, Typed
    <3>3. /\ phase'[o] = "uncounted"
          /\ \A p \in Objects : p # o => kind'[p] = kind[p] /\ phase'[p] = phase[p]
      BY <2>1 DEF Inv, Memory, MemoryTypes, Positions, PosTypes
    <3>4. /\ \A u \in Threads : u # t => pc'[u] = pc[u]
          /\ pc'[t] = "count"
      BY <2>1 DEF Goes, Inv, Memory, MemoryTypes
    <3> QED
      BY <3>1, <3>2, <3>3, <3>4
  <2>5. \A p \in Objects : (Deleted(p) => Deleted(p)')
    BY <2>2 DEF Deleted
  <2>6. ASSUME NEW p \in Objects, BeingMade(p) PROVE BeingMade(p)'
    <3>1. PICK u \in Threads : pc[u] = "count" /\ New(u) = p
      BY <2>6 DEF BeingMade
    <3>2. u # t /\ New(u)' = p /\ pc'[u] = "count"
      BY <2>2, <2>4, <3>1, SlotFacts, ObjectSlotApart DEF New
    <3> QED
      BY <3>2 DEF BeingMade
  <2>7. BeingMade(o)'
    BY <2>4 DEF BeingMade, New
  <2>8. ASSUME NEW p \in Objects, ref'[TokenOf(p)] # Null
        PROVE  phase'[p] # "free" /\ kind'[p] = "engine" /\ kind'[ref'[TokenOf(p)]] = "token"
    <3>1. TokenOf(p) \in Slots /\ TokenOf(p) # Object(t)
      BY TokenSlots, SlotFacts
    <3>2. ref'[TokenOf(p)] = ref[TokenOf(p)] /\ ref[TokenOf(p)] # o
          /\ ref[TokenOf(p)] \in Objects
      BY <2>4, <2>8, <3>1, NotDying DEF Inv
    <3> QED
      BY <2>1, <2>4, <2>8, <3>2 DEF Alive
  <2>9. ASSUME NEW p \in Objects
        PROVE  /\ phase'[p] = "counted" /\ rc'[p] = 0 => Deleted(p)'
               /\ phase'[p] = "uncounted" => Deleted(p)' \/ BeingMade(p)'
    <3>1. CASE p = o
      BY <2>4, <2>7, <3>1
    <3>2. CASE p # o
      BY <2>4, <2>5, <2>6, <3>2 DEF Alive
    <3> QED
      BY <3>1, <3>2
  <2> QED
    BY <2>8, <2>9 DEF Alive
<1>3. CASE Counts(t)
  <2>1. /\ pc[t] = "count" /\ Goes(t, "query")
        /\ phase' = [phase EXCEPT ![New(t)] = "counted"]
        /\ UNCHANGED <<kind, rc, ref, dying>>
    BY <1>3 DEF Counts, Runs
  <2>2. New(t) \in Objects /\ rc[New(t)] # 0
    BY <2>1, SlotFacts, NotDying DEF New, Inv, Memory, NewUncounted
  <2>3. /\ \A p \in Objects : p # New(t) => phase'[p] = phase[p]
        /\ phase'[New(t)] = "counted"
        /\ \A u \in Threads : u # t => pc'[u] = pc[u]
    BY <2>1, <2>2 DEF Goes, Inv, Memory, MemoryTypes
  <2>4. \A p \in Objects : /\ Deleted(p) => Deleted(p)'
                           /\ p # New(t) /\ BeingMade(p) => BeingMade(p)'
    BY <2>1, <2>3 DEF Deleted, BeingMade, New
  <2> QED
    BY <2>1, <2>2, <2>3, <2>4 DEF Alive
<1> QED
  BY <1>1, <1>2, <1>3

LEMMA DeletesAlive ==
  ASSUME Inv, Positions, Alive, NEW t \in Threads, Uncounts(t) \/ Destroys(t)
  PROVE  Alive'
<1>1. CASE Uncounts(t)
  <2>1. /\ dying[t] # Null /\ phase' = [phase EXCEPT ![dying[t]] = "uncounted"]
        /\ UNCHANGED <<kind, rc, ref>> /\ UNCHANGED threadVars
    BY <1>1 DEF Uncounts
  <2>2. /\ dying[t] \in Objects /\ phase'[dying[t]] = "uncounted"
        /\ \A p \in Objects : p # dying[t] => phase'[p] = phase[p]
    BY <2>1 DEF Inv, Memory, MemoryTypes
  <2>3. \A p \in Objects : /\ Deleted(p) => Deleted(p)'
                           /\ BeingMade(p) => BeingMade(p)'
    BY <2>1 DEF Deleted, BeingMade, New, threadVars
  <2>4. \A p \in Objects : p = dying[t] => Deleted(p)'
    BY <2>1 DEF Deleted, threadVars
  <2> QED
    BY <2>1, <2>2, <2>3, <2>4 DEF Alive
<1>2. ASSUME Destroys(t), NEW o, o = dying[t] PROVE Alive'
  <2>1. /\ o # Null /\ phase[o] = "uncounted" /\ phase' = [phase EXCEPT ![o] = "free"]
        /\ kind' = [kind EXCEPT ![o] = "token"] /\ UNCHANGED pc
    BY <1>2 DEF Destroys
  <2>2. /\ o \in Objects /\ \A s \in Slots : ref[s] # o
        /\ \A u \in Threads : pc[u] = "count" => New(u) # o
        /\ TokenOf(o) \in Slots
    BY <1>2, <2>1, DyingFacts, TokenSlots
  <2>3. /\ phase'[o] = "free"
        /\ \A p \in Objects : p # o => phase'[p] = phase[p] /\ kind'[p] = kind[p]
    BY <2>1, <2>2 DEF Inv, Memory, MemoryTypes, Positions, PosTypes
  \* What becomes of token_.
  <2>4. /\ \A d \in Slots : ref'[d] = IF d = TokenOf(o) THEN Null ELSE ref[d]
        /\ \A u \in Threads : u # t => dying'[u] = dying[u]
        /\ \A p \in Objects : rc'[p] = 0 => rc[p] = 0 \/ dying'[t] = p
    <3>1. CASE ref[TokenOf(o)] = Null
      <4>1. UNCHANGED <<ref, rc>> /\ dying' = [dying EXCEPT ![t] = Null]
        BY <1>2, <3>1 DEF Destroys
      <4> QED
        BY <3>1, <4>1 DEF Inv, Memory, MemoryTypes
    <3>2. CASE ref[TokenOf(o)] # Null
      <4>1. PICK q \in Objects : q = ref[TokenOf(o)]
        BY <2>2, <3>2, NotDying DEF Inv
      <4>2. /\ ref' = [ref EXCEPT ![TokenOf(o)] = Null] /\ rc' = [rc EXCEPT ![q] = @ - 1]
            /\ dying' = [dying EXCEPT ![t] = IF rc[q] = 1 THEN q ELSE Null]
            /\ rc \in [Objects -> Nat]
        BY <1>2, <3>2, <4>1 DEF Destroys, Clear, Inv, Memory, MemoryTypes, Typed
      <4>3. /\ \A d \in Slots : ref'[d] = IF d = TokenOf(o) THEN Null ELSE ref[d]
            /\ \A u \in Threads : u # t => dying'[u] = dying[u]
            /\ dying'[t] = IF rc[q] = 1 THEN q ELSE Null
        BY <2>2, <4>2 DEF Inv, Memory, MemoryTypes, Typed
      <4>4. \A p \in Objects : p # q => rc'[p] = rc[p]
        BY <4>1, <4>2
      <4>5. rc'[q] = rc[q] - 1 /\ rc[q] \in Nat
        BY <4>1, <4>2
      <4>6. rc'[q] = 0 => dying'[t] = q
        BY <4>3, <4>5
      <4> QED
        BY <4>3, <4>4, <4>6
    <3> QED
      BY <3>1, <3>2
  <2>5. ASSUME NEW p \in Objects, p # o
        PROVE  (Deleted(p) => Deleted(p)') /\ (BeingMade(p) => BeingMade(p)')
    <3>1. Deleted(p) => Deleted(p)'
      BY <1>2, <2>4, <2>5 DEF Deleted
    <3>2. ASSUME BeingMade(p) PROVE BeingMade(p)'
      <4>1. PICK u \in Threads : pc[u] = "count" /\ New(u) = p
        BY <3>2 DEF BeingMade
      <4>2. Object(u) \in Slots /\ Object(u) # TokenOf(o)
        BY <2>2, SlotFacts, TokenSlots
      <4>3. pc'[u] = "count" /\ New(u)' = p
        BY <2>1, <2>4, <4>1, <4>2 DEF New
      <4> QED
        BY <4>3 DEF BeingMade
    <3> QED
      BY <3>1, <3>2
  <2>6. ASSUME NEW p \in Objects, phase'[p] = "counted", rc'[p] = 0 PROVE Deleted(p)'
    <3>1. p # o /\ phase[p] = "counted"
      BY <2>3, <2>6
    <3>2. CASE rc[p] = 0
      BY <2>5, <3>1, <3>2 DEF Alive
    <3>3. CASE dying'[t] = p
      BY <3>3 DEF Deleted
    <3> QED
      BY <2>4, <2>6, <3>2, <3>3
  <2>7. ASSUME NEW p \in Objects, phase'[p] = "uncounted" PROVE Deleted(p)' \/ BeingMade(p)'
    BY <2>3, <2>5, <2>7 DEF Alive
  <2>8. ASSUME NEW p \in Objects, ref'[TokenOf(p)] # Null
        PROVE  phase'[p] # "free" /\ kind'[p] = "engine" /\ kind'[ref'[TokenOf(p)]] = "token"
    <3>1. TokenOf(p) \in Slots
      BY TokenSlots
    <3>2. p # o /\ ref'[TokenOf(p)] = ref[TokenOf(p)] /\ ref[TokenOf(p)] # o
      BY <2>2, <2>4, <2>8, <3>1
    <3>3. ref[TokenOf(p)] \in Objects
      BY <2>8, <3>1, <3>2, NotDying DEF Inv
    <3> QED
      BY <2>3, <2>8, <3>2, <3>3 DEF Alive
  <2> QED
    BY <2>6, <2>7, <2>8 DEF Alive
<1> QED
  BY <1>1, <1>2

LEMMA StepsAlive ==
  ASSUME Inv, Positions, Alive, NEW t \in Threads, Steps(t)
  PROVE  Alive'
<1>1. ASSUME NEW step, step # "count", pc[t] # "count", Goes(t, step) PROVE PcKept \/ step \notin PcSteps
  BY <1>1 DEF PcKept, Goes, Inv, Memory, MemoryTypes
<1>2. CASE Constructs(t) \/ Counts(t)
  BY <1>2, MakesAlive
<1>3. CASE Uncounts(t) \/ Destroys(t)
  BY <1>3, DeletesAlive
<1>4. CASE Queries(t) \/ Gets(t)
  <2>1. /\ UNCHANGED <<phase, kind, dying>> /\ pc[t] \in {"query", "get"}
        /\ \E step \in {"get", "scope", "leave"} : Goes(t, step)
    BY <1>4 DEF Queries, Gets, Fails, Runs
  <2>2. PcKept
    BY <1>1, <2>1 DEF PcSteps
  <2>3. CASE UNCHANGED <<ref, rc>>
    BY <2>1, <2>2, <2>3, NothingReleased DEF New
  <2>4. CASE ~ UNCHANGED <<ref, rc>>
    <3>1. New(t) \in Objects
      BY <2>1, SlotFacts, NotDying DEF New, Inv, CallOK, ThreadOK
    <3>2. PICK S \in {Outs(t), Vector(t), {Interface(t)}} : Put(S, New(t))
      BY <1>4, <2>4 DEF Queries, Gets, Fails
    <3> QED
      BY <2>1, <2>2, <3>1, <3>2, PutAlive
  <2> QED
    BY <2>3, <2>4
<1>5. CASE Drops(t)
  <2>1. PICK s \in InScope(t) : Clear(t, s)
    BY <1>5 DEF Drops
  <2>2. s \in Local(t) /\ ref[s] # Null /\ s \in Slots /\ \A o \in Objects : s # TokenOf(o)
    BY SlotFacts, TokenSlots DEF InScope
  <2>3. /\ dying[t] = Null /\ UNCHANGED <<phase, kind, pc>> /\ pc[t] # "count"
    BY <1>5 DEF Drops
  <2> QED
    BY <2>1, <2>2, <2>3, LocalCounted, ClearAlive DEF Inv
<1>6. CASE TokenMade(t) \/ Returns(t) \/ Launches(t)
  <2>1. /\ UNCHANGED objectVars /\ UNCHANGED dying /\ pc[t] \in {"scope", "leave", "launch"}
        /\ \/ UNCHANGED pc
           \/ \E step \in {"new", "hand", "idle", "leave"} : Goes(t, step)
    BY <1>6 DEF TokenMade, Returns, Launches, Enters, Goes, Runs
  <2>2. PcKept
    BY <1>1, <2>1 DEF PcSteps, PcKept, Inv, Memory, MemoryTypes
  <2> QED
    BY <2>1, <2>2, NothingReleased DEF New, objectVars
<1>7. CASE HandsOut(t)
  <2>1. UNCHANGED <<phase, kind, rc, dying>> /\ pc[t] = "hand"
    BY <1>7 DEF HandsOut, Runs
  <2>2. ASSUME Goes(t, "leave"), UNCHANGED ref PROVE Alive'
    BY <1>1, <2>1, <2>2, NothingReleased DEF PcSteps, New
  <2>3. ASSUME NEW s \in Made(t), Empty(Outs(t)) # {}, UNCHANGED pc,
               ref' = [ref EXCEPT ![Slot(Outs(t))] = ref[s], ![s] = Null]
        PROVE  Alive'
    <3>1. /\ Slot(Outs(t)) \in ClientSlots /\ s \in Vector(t) /\ s \in Local(t)
      BY <2>3, SlotFacts DEF Slot, Empty, Made
    <3>2. \A o \in Objects : ref'[TokenOf(o)] = ref[TokenOf(o)]
      BY <2>3, <3>1, TokenSlots, ClientApart DEF Inv, Memory, MemoryTypes, Typed
    <3>3. \A u \in Threads : New(u)' = New(u)
      BY <2>3, <3>1, SlotFacts, ClientApart, ObjectSlotApart
         DEF New, Inv, Memory, MemoryTypes, Typed
    <3>4. PcKept
      BY <2>3 DEF PcKept, Inv, Memory, MemoryTypes
    <3> QED
      BY <2>1, <3>2, <3>3, <3>4, NothingReleased
  <2> QED
    BY <1>7, <2>2, <2>3 DEF HandsOut
<1> QED
  BY <1>2, <1>3, <1>4, <1>5, <1>6, <1>7 DEF Steps

LEMMA AliveStep == Inv /\ Positions /\ Alive /\ [ComNext]_comVars => Alive'
<1> SUFFICES ASSUME Inv, Positions, Alive, [ComNext]_comVars PROVE Alive'
  OBVIOUS
<1>1. CASE UNCHANGED comVars \/ AsksUnload \/ Unloads
  <2>1. UNCHANGED objectVars /\ UNCHANGED threadVars
    BY <1>1 DEF AsksUnload, Unloads, comVars
  <2>2. PcKept
    BY <2>1 DEF PcKept, threadVars, Inv, Memory, MemoryTypes
  <2> QED
    BY <2>1, <2>2, NothingReleased DEF objectVars, threadVars, New
<1>2. ASSUME NEW t \in Threads, DllGetClassObject(t) PROVE Alive'
  BY <1>2, CallsAlive
<1>3. ASSUME NEW t \in Threads, NEW s \in ClientSlots, Calls(t, s) PROVE Alive'
  BY <1>3, CallsAlive
<1>4. ASSUME NEW t \in Threads, Steps(t) PROVE Alive'
  BY <1>4, StepsAlive
<1> QED
  BY <1>1, <1>2, <1>3, <1>4 DEF ComNext

\* Once the client has let go of everything and no call runs, no object is left behind and
\* the DLL may be unloaded.
THEOREM NothingLeaks == ComSpec => []NoLeak
<1>1. Inv /\ Alive => NoLeak
  <2> SUFFICES ASSUME Inv, Alive, locks = 0,
                      \A s \in ClientSlots : ref[s] = Null,
                      \A t \in Threads : pc[t] = "idle" /\ dying[t] = Null
               PROVE  count = 0 /\ \A o \in Objects : phase[o] = "free"
    BY DEF NoLeak
  <2>1. \A o \in Objects : ~Deleted(o) /\ ~BeingMade(o)
    BY ComAssumption DEF Deleted, BeingMade
  <2>2. \A s \in Slots : ref[s] # Null => \E p \in Objects : s = TokenOf(p)
    BY DEF Slots, Inv, CallOK, ThreadOK
  <2>3. ASSUME NEW o \in Objects, phase[o] = "counted"
        PROVE  \E p \in Objects : ref[TokenOf(p)] = o
    <3>1. Refs(ref, o) # {}
      BY <2>1, <2>3, FS_EmptySet DEF Alive, Inv, Memory, Balanced
    <3>2. PICK s \in Slots : ref[s] = o
      BY <3>1 DEF Refs
    <3>3. o # Null
      BY ComAssumption
    <3> QED
      BY <2>2, <3>2, <3>3
  <2>4. ASSUME NEW o \in Objects PROVE phase[o] = "free"
    <3>1. CASE phase[o] = "counted"
      <4>1. PICK p \in Objects : ref[TokenOf(p)] = o
        BY <2>3, <3>1
      <4>2. phase[p] = "counted" /\ kind[p] = "engine"
        BY <2>1, <4>1, ComAssumption DEF Alive, Inv, Memory, MemoryTypes
      <4>3. PICK q \in Objects : ref[TokenOf(q)] = p
        BY <2>3, <4>2
      <4>4. kind[p] = "token"
        BY <4>3, ComAssumption DEF Alive
      <4> QED
        BY <4>2, <4>4
    <3>2. CASE phase[o] = "uncounted"
      BY <2>1, <3>2 DEF Alive
    <3> QED
      BY <3>1, <3>2 DEF Inv, Memory, MemoryTypes
  <2>5. Counted = {}
    BY <2>4 DEF Counted
  <2> QED
    BY <2>4, <2>5, FS_EmptySet DEF Inv, Memory, CountRight
<1> QED
  BY <1>1, InvInit, InvStep, PositionsInit, PositionsStep, AliveInit, AliveStep, PTL DEF ComSpec
=============================================================================
