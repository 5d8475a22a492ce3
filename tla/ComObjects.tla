----------------------------- MODULE ComObjects -----------------------------
(***************************************************************************)
(* The objects the DLL hands to SAPI and the life of the DLL: src/com.hpp, *)
(* the entry points of sapi_main.cpp, the voice enumerator, OpenKey of a   *)
(* voice token, and the engine object as far as it holds a token and       *)
(* creates the process-wide engine.  The client's threads call through     *)
(* references they hold, any object from any thread (ThreadingModel        *)
(* "Both"), but one enumerator or engine object from one thread at a time. *)
(*                                                                         *)
(* A reference is a pointer variable that was AddRef'd: a slot.  Slots are *)
(* the client's variables, the locals of a call (object<T>, interface_ptr, *)
(* Next's vector, a pointer being replaced) and an engine object's token_. *)
(* AddRef, Release and the two counters are single atomic steps; between   *)
(* them anything may happen.  SAPI's SpObjectToken, which holds one        *)
(* reference to its voice_token, is taken for one with it.                 *)
(***************************************************************************)
EXTENDS Integers, FiniteSets

CONSTANTS
  Threads, Objects,  \* Objects: memory for that many objects at a time
  Null,
  MaxOuts,           \* pointer variables of each client thread
  NVoices,           \* voices installed
  MaxLocks           \* LockServer(TRUE) not yet taken back

ASSUME ComAssumption ==
  /\ IsFiniteSet(Objects) /\ IsFiniteSet(Threads)
  /\ Threads \cap Objects = {} /\ Null \notin Threads \cup Objects
  /\ MaxOuts \in [Threads -> Nat] /\ NVoices \in Nat /\ MaxLocks \in Nat

VARIABLES
  kind, phase,   \* phase[o]: "free", "uncounted" (constructed, or being destroyed), "counted"
  rc,            \* ref_count_
  pos,           \* index_ of an enumerator
  ref,           \* slot -> object or Null
  count,         \* object_counter::count_
  locks,         \* the client's LockServer balance
  pc, call,      \* a thread inside the DLL: the step and the call it is in
  self,          \* the slot the call was made through, <<>> if none
  want,          \* tokens the call is to create
  dying,         \* the object whose last reference the thread released
  engine,        \* "none", "made" (g_engine), "flagged" (g_engineLaunched)
  pinned,        \* the module is pinned
  unload         \* DllCanUnloadNow: "no", "asked" (has read g_engineLaunched), "freed"

objectVars == <<kind, phase, rc, pos, ref>>
threadVars == <<pc, call, self, want, dying>>
dllVars    == <<count, locks, engine, pinned, unload>>
comVars    == <<objectVars, threadVars, dllVars>>

Outs(t)    == {t} \X {"out"} \X (1..MaxOuts[t])
Vector(t)  == {t} \X {"vector"} \X (1..MaxOuts[t])
Object(t)    == <<t, "object", 0>>
Interface(t) == <<t, "interface", 0>>
Old(t)       == <<t, "old", 0>>
Local(t)   == {Object(t), Interface(t), Old(t)} \cup Vector(t)
TokenOf(o) == <<o, "token_", 0>>
ClientSlots == UNION {Outs(t) : t \in Threads}
Slots == ClientSlots \cup (UNION {Local(t) : t \in Threads}) \cup {TokenOf(o) : o \in Objects}

Factories == {"enumFactory", "engineFactory"}
Kinds     == Factories \cup {"enum", "engine", "token", "key"}
Creates(k) == IF k = "enumFactory" THEN "enum" ELSE "engine"

RefsTo(o) == {s \in Slots : ref[s] = o}
Loaded    == unload # "freed"

ComInit ==
  /\ kind = [o \in Objects |-> "token"] /\ phase = [o \in Objects |-> "free"]
  /\ rc = [o \in Objects |-> 0] /\ pos = [o \in Objects |-> 0]
  /\ ref = [s \in Slots |-> Null]
  /\ count = 0 /\ locks = 0 /\ engine = "none" /\ pinned = FALSE /\ unload = "no"
  /\ pc = [t \in Threads |-> "idle"] /\ call = [t \in Threads |-> "none"]
  /\ self = [t \in Threads |-> <<>>] /\ want = [t \in Threads |-> 0]
  /\ dying = [t \in Threads |-> Null]

-----------------------------------------------------------------------------
(* References. *)

Empty(S) == {s \in S : ref[s] = Null}
Slot(S)  == CHOOSE s \in Empty(S) : TRUE

\* AddRef of o, for an empty slot of S.
Put(S, o) ==
  /\ Empty(S) # {}
  /\ ref' = [ref EXCEPT ![Slot(S)] = o]
  /\ rc'  = [rc EXCEPT ![o] = @ + 1]

\* Release of slot s: who takes the last reference deletes the object.
Clear(t, s) ==
  LET o == ref[s] IN
  /\ ref'   = [ref EXCEPT ![s] = Null]
  /\ rc'    = [rc EXCEPT ![o] = @ - 1]
  /\ dying' = [dying EXCEPT ![t] = IF rc[o] = 1 THEN o ELSE Null]

\* delete this: ~IUnknownImpl uncounts the object ...
Uncounts(t) ==
  /\ dying[t] # Null /\ phase[dying[t]] = "counted"
  /\ phase' = [phase EXCEPT ![dying[t]] = "uncounted"]
  /\ count' = count - 1
  /\ UNCHANGED <<kind, rc, pos, ref, locks, engine, pinned, unload>> /\ UNCHANGED threadVars

\* ... and ~T, which releases token_, comes after it.
Destroys(t) ==
  LET o == dying[t] IN
  /\ o # Null /\ phase[o] = "uncounted"
  /\ phase' = [phase EXCEPT ![o] = "free"]
  /\ IF ref[TokenOf(o)] # Null THEN Clear(t, TokenOf(o))
       ELSE dying' = [dying EXCEPT ![t] = Null] /\ UNCHANGED <<ref, rc>>
  /\ kind' = [kind EXCEPT ![o] = "token"] /\ pos' = [pos EXCEPT ![o] = 0]
  /\ UNCHANGED <<pc, call, self, want>> /\ UNCHANGED dllVars

-----------------------------------------------------------------------------
(* The client's calls. *)

Idle(t) == Loaded /\ pc[t] = "idle" /\ dying[t] = Null

\* A variable the client may use: no call is about to fill or is using it.
Usable(t, s) == ref[s] # Null /\ (s \in Outs(t) \/ pc[s[1]] = "idle")

\* Thread t calls an object of a kind in K through s.
Through(t, s, K) ==
  /\ Idle(t) /\ Usable(t, s) /\ kind[ref[s]] \in K
  /\ kind[ref[s]] \in {"enum", "engine"} =>
       \A u \in Threads : self[u] # <<>> => ref[self[u]] # ref[s]

Enters(t, step, what, s, n) ==
  /\ pc' = [pc EXCEPT ![t] = step] /\ call' = [call EXCEPT ![t] = what]
  /\ self' = [self EXCEPT ![t] = s] /\ want' = [want EXCEPT ![t] = n]
  /\ UNCHANGED dying

DllGetClassObject(t) ==
  /\ Idle(t) /\ Empty(Outs(t)) # {}
  /\ \E k \in Factories : Enters(t, "new", k, <<>>, 1)
  /\ UNCHANGED objectVars /\ UNCHANGED dllVars

CreateInstance(t, s) ==
  /\ Through(t, s, Factories) /\ Empty(Outs(t)) # {}
  /\ Enters(t, "new", Creates(kind[ref[s]]), s, 1)
  /\ UNCHANGED objectVars /\ UNCHANGED dllVars

\* Clone of an enumerator, OpenKey of a token, Item, and Next with celt > 0.
Clone(t, s) ==
  /\ Through(t, s, {"enum"}) /\ Empty(Outs(t)) # {}
  /\ Enters(t, "new", "clone", s, 1)
  /\ UNCHANGED objectVars /\ UNCHANGED dllVars

OpenKey(t, s) ==
  /\ Through(t, s, {"token"}) /\ Empty(Outs(t)) # {}
  /\ Enters(t, "new", "key", s, 1)
  /\ UNCHANGED objectVars /\ UNCHANGED dllVars

Item(t, s) ==
  /\ Through(t, s, {"enum"}) /\ Empty(Outs(t)) # {} /\ NVoices > 0
  /\ Enters(t, "new", "item", s, 1)
  /\ UNCHANGED objectVars /\ UNCHANGED dllVars

\* Slip: as many as were asked for.
NextAll(t, s) ==
  /\ Through(t, s, {"enum"})
  /\ \E celt \in 1..Cardinality(Empty(Outs(t))) : Enters(t, "new", "next", s, celt)
  /\ UNCHANGED objectVars /\ UNCHANGED dllVars

Next(t, s) ==
  /\ Through(t, s, {"enum"})
  /\ \E celt \in 1..Cardinality(Empty(Outs(t))) :
       LET left == NVoices - pos[ref[s]]
           n    == IF celt < left THEN celt ELSE left
       IN Enters(t, IF n = 0 THEN "leave" ELSE "new", "next", s, n)
  /\ UNCHANGED objectVars /\ UNCHANGED dllVars

\* Skip and Reset.
Moves(t, s) ==
  /\ Through(t, s, {"enum"})
  /\ \E p \in {0} \cup (pos[ref[s]]..NVoices) : pos' = [pos EXCEPT ![ref[s]] = p]
  /\ UNCHANGED <<kind, phase, rc, ref>> /\ UNCHANGED threadVars /\ UNCHANGED dllVars

AddRef(t, s) ==
  /\ Idle(t) /\ Usable(t, s)
  /\ Put(Outs(t), ref[s])
  /\ UNCHANGED <<kind, phase, pos>> /\ UNCHANGED threadVars /\ UNCHANGED dllVars

Release(t, s) ==
  /\ Idle(t) /\ Usable(t, s) /\ \A u \in Threads : self[u] # s
  /\ Clear(t, s)
  /\ UNCHANGED <<kind, phase, pos, pc, call, self, want>> /\ UNCHANGED dllVars

LockServer(t, s) ==
  /\ Through(t, s, Factories)
  /\ \E d \in {1, -1} : /\ locks + d \in 0..MaxLocks
                        /\ locks' = locks + d /\ count' = count + d
  /\ UNCHANGED objectVars /\ UNCHANGED threadVars /\ UNCHANGED <<engine, pinned, unload>>

\* token_ = pToken, which releases the token it held.
SetObjectToken(t, s) ==
  /\ Through(t, s, {"engine"})
  /\ \E v \in ClientSlots :
       /\ Usable(t, v) /\ kind[ref[v]] = "token" /\ ref[v] # ref[TokenOf(ref[s])]
       /\ ref' = [ref EXCEPT ![TokenOf(ref[s])] = ref[v],
                             ![Old(t)] = ref[TokenOf(ref[s])]]
       /\ rc' = [rc EXCEPT ![ref[v]] = @ + 1]
  /\ Enters(t, "leave", "token_", s, 0)
  /\ UNCHANGED <<kind, phase, pos>> /\ UNCHANGED dllVars

GetObjectToken(t, s) ==
  /\ Through(t, s, {"engine"}) /\ ref[TokenOf(ref[s])] # Null
  /\ Put(Outs(t), ref[TokenOf(ref[s])])
  /\ UNCHANGED <<kind, phase, pos>> /\ UNCHANGED threadVars /\ UNCHANGED dllVars

\* Speak, up to the engine: g_engineCs lets one thread in.
Speak(t, s) ==
  /\ Through(t, s, {"engine"}) /\ engine # "flagged"
  /\ \A u \in Threads : pc[u] # "launch"
  /\ Enters(t, "launch", "speak", s, 0)
  /\ UNCHANGED objectVars /\ UNCHANGED dllVars

-----------------------------------------------------------------------------
(* Inside a call. *)

Goes(t, step) == pc' = [pc EXCEPT ![t] = step]
Runs(t, step) == Loaded /\ pc[t] = step /\ dying[t] = Null

Made(t)  == {s \in Vector(t) : ref[s] # Null}
New(t)   == ref[Object(t)]
Fails(t) == Goes(t, "leave") /\ UNCHANGED <<ref, rc>>

KindMade(t) ==
  CASE call[t] = "clone"            -> "enum"
    [] call[t] \in {"item", "next"} -> "token"
    [] OTHER                        -> call[t]

\* object<T>: the object is constructed with one reference, not counted yet; or memory is
\* short.
Constructs(t) ==
  /\ Runs(t, "new")
  /\ \/ Fails(t) /\ UNCHANGED <<kind, phase, pos>>
     \/ \E o \in Objects :
          /\ phase[o] = "free"
          /\ Put({Object(t)}, o) /\ Goes(t, "count")
          /\ kind'  = [kind EXCEPT ![o] = KindMade(t)]
          /\ phase' = [phase EXCEPT ![o] = "uncounted"]
          /\ pos'   = [pos EXCEPT ![o] = IF call[t] = "clone" THEN pos[ref[self[t]]] ELSE 0]
  /\ UNCHANGED <<call, self, want, dying>> /\ UNCHANGED dllVars

Counts(t) ==
  /\ Runs(t, "count") /\ Goes(t, "query")
  /\ phase' = [phase EXCEPT ![New(t)] = "counted"]
  /\ count' = count + 1
  /\ UNCHANGED <<kind, rc, pos, ref, call, self, want, dying, locks, engine, pinned, unload>>

\* QueryInterface: for the client, who may ask for one the object lacks, or for an
\* interface_ptr.
Queries(t) ==
  /\ Runs(t, "query")
  /\ IF call[t] \in Factories \cup {"enum", "engine"}
       THEN \/ Fails(t)
            \/ Goes(t, "leave") /\ Put(Outs(t), New(t))
       ELSE Goes(t, "get") /\ Put({Interface(t)}, New(t))
  /\ UNCHANGED <<kind, phase, pos, call, self, want, dying>> /\ UNCHANGED dllVars

\* Slip: get(false) where the pointer is handed out.
GetsBare(t) ==
  /\ Runs(t, "get")
  /\ IF KindMade(t) = "token"
       THEN \/ Fails(t)
            \/ Goes(t, "scope") /\ Put(Vector(t), New(t))
       ELSE Goes(t, "leave") /\ UNCHANGED rc
            /\ ref' = [ref EXCEPT ![Slot(Outs(t))] = New(t)]
  /\ UNCHANGED <<kind, phase, pos, call, self, want, dying>> /\ UNCHANGED dllVars

\* The pointer handed out is AddRef'd; a token goes to InitFromDataKey, whose
\* SpObjectToken keeps a reference, or fails.
Gets(t) ==
  /\ Runs(t, "get")
  /\ IF KindMade(t) = "token"
       THEN \/ Fails(t)
            \/ Goes(t, "scope") /\ Put(Vector(t), New(t))
       ELSE Goes(t, "leave") /\ Put(Outs(t), New(t))
  /\ UNCHANGED <<kind, phase, pos, call, self, want, dying>> /\ UNCHANGED dllVars

\* Slip: Next keeps plain pointers, which nobody releases when a later token fails.
InScopePlain(t) ==
  {s \in Local(t) \ Vector(t) : ref[s] # Null}

\* The locals that are left: of create_token's scope, or of the whole call.
InScope(t) ==
  {s \in IF pc[t] = "scope" THEN Local(t) \ Vector(t) ELSE Local(t) : ref[s] # Null}

Drops(t) ==
  /\ Loaded /\ pc[t] \in {"scope", "leave"} /\ dying[t] = Null
  /\ \E s \in InScope(t) : Clear(t, s)
  /\ UNCHANGED <<kind, phase, pos, pc, call, self, want>> /\ UNCHANGED dllVars

TokenMade(t) ==
  /\ Runs(t, "scope") /\ InScope(t) = {}
  /\ Goes(t, IF Cardinality(Made(t)) < want[t] THEN "new" ELSE "hand")
  /\ UNCHANGED objectVars /\ UNCHANGED <<call, self, want, dying>> /\ UNCHANGED dllVars

\* With all tokens made they are handed out, each AddRef'd here and released with the vector,
\* and Next moves on by their number.
HandsOut(t) ==
  /\ Runs(t, "hand")
  /\ \/ \E s \in Made(t) :
          /\ Empty(Outs(t)) # {}
          /\ ref' = [ref EXCEPT ![Slot(Outs(t))] = ref[s], ![s] = Null]
          /\ UNCHANGED <<pos, pc>>
     \/ /\ Made(t) = {} /\ Goes(t, "leave")
        /\ pos' = IF call[t] = "next" THEN [pos EXCEPT ![ref[self[t]]] = @ + want[t]] ELSE pos
        /\ UNCHANGED ref
  /\ UNCHANGED <<kind, phase, rc, call, self, want, dying>> /\ UNCHANGED dllVars

Returns(t) ==
  /\ Runs(t, "leave") /\ InScope(t) = {}
  /\ Enters(t, "idle", "none", <<>>, 0)
  /\ UNCHANGED objectVars /\ UNCHANGED dllVars

\* Slip: the module is not pinned.
LaunchesUnpinned(t) ==
  /\ Runs(t, "launch")
  /\ engine' = IF engine = "none" THEN "made" ELSE "flagged"
  /\ Goes(t, IF engine = "none" THEN "launch" ELSE "leave")
  /\ UNCHANGED objectVars /\ UNCHANGED <<call, self, want, dying, count, locks, pinned, unload>>

\* The engine is created, the module pinned, and g_engineLaunched set; without an engine
\* directory Speak fails.
Launches(t) ==
  /\ Runs(t, "launch")
  /\ \/ engine = "none" /\ engine' = "made" /\ UNCHANGED <<pc, pinned>>
     \/ engine = "none" /\ Goes(t, "leave")  /\ UNCHANGED <<engine, pinned>>
     \/ engine = "made" /\ ~pinned /\ pinned' = TRUE /\ UNCHANGED <<pc, engine>>
     \/ pinned /\ engine' = "flagged" /\ Goes(t, "leave") /\ UNCHANGED pinned
  /\ UNCHANGED objectVars /\ UNCHANGED <<call, self, want, dying, count, locks, unload>>

-----------------------------------------------------------------------------
\* DllCanUnloadNow reads two variables; on S_OK COM frees the DLL, which has no effect on a
\* pinned one.  COM lets no DllGetClassObject run meanwhile.
AsksUnload ==
  /\ unload = "no" /\ engine # "flagged"
  /\ unload' = "asked"
  /\ UNCHANGED objectVars /\ UNCHANGED threadVars /\ UNCHANGED <<count, locks, engine, pinned>>

Unloads ==
  /\ unload = "asked"
  /\ \A t \in Threads : pc[t] # "idle" => self[t] # <<>>
  /\ unload' = IF count = 0 /\ ~pinned THEN "freed" ELSE "no"
  /\ UNCHANGED objectVars /\ UNCHANGED threadVars /\ UNCHANGED <<count, locks, engine, pinned>>

Calls(t, s) ==
  \/ CreateInstance(t, s) \/ Clone(t, s) \/ OpenKey(t, s) \/ Item(t, s) \/ Next(t, s)
  \/ Moves(t, s) \/ AddRef(t, s) \/ Release(t, s) \/ LockServer(t, s)
  \/ SetObjectToken(t, s) \/ GetObjectToken(t, s) \/ Speak(t, s)

Steps(t) ==
  \/ Constructs(t) \/ Counts(t) \/ Queries(t) \/ Gets(t) \/ Drops(t) \/ TokenMade(t)
  \/ HandsOut(t) \/ Returns(t) \/ Launches(t) \/ (Loaded /\ (Uncounts(t) \/ Destroys(t)))

ComNext ==
  \/ \E t \in Threads : DllGetClassObject(t) \/ Steps(t)
  \/ \E t \in Threads : Idle(t) /\ \E s \in ClientSlots : Calls(t, s)
  \/ AsksUnload \/ Unloads

ComSpec == ComInit /\ [][ComNext]_comVars

-----------------------------------------------------------------------------
ObjectTypes ==
  /\ kind \in [Objects -> Kinds] /\ phase \in [Objects -> {"free", "uncounted", "counted"}]
  /\ rc \in [Objects -> Nat] /\ pos \in [Objects -> 0..NVoices]
  /\ ref \in [Slots -> Objects \cup {Null}]
ThreadTypes ==
  /\ pc \in [Threads -> {"idle", "new", "count", "query", "get", "scope", "hand", "leave",
                         "launch"}]
  /\ call \in [Threads -> Kinds \cup {"none", "clone", "item", "next", "token_", "speak"}]
  /\ self \in [Threads -> ClientSlots \cup {<<>>}]
  /\ want \in [Threads -> Nat] /\ dying \in [Threads -> Objects \cup {Null}]
DllTypes ==
  /\ count \in Nat /\ locks \in 0..MaxLocks
  /\ engine \in {"none", "made", "flagged"} /\ pinned \in BOOLEAN
  /\ unload \in {"no", "asked", "freed"}
ComTypeOK == ObjectTypes /\ ThreadTypes /\ DllTypes

\* Whatever fails on the way, each object counts exactly the references there are to it, and
\* object_counter exactly the objects and locks.
RefsBalance ==
  /\ \A o \in Objects : rc[o] = Cardinality(RefsTo(o))
  /\ count = locks + Cardinality({o \in Objects : phase[o] = "counted"})

\* When COM frees the DLL nobody refers to anything in it, it holds no engine with a thread
\* and a child, and no call is in it but the end of a Release that deleted the last object
\* (sapi_main.cpp 78-82: the module "must never be unloaded until the process exits").
UnloadSafe ==
  unload = "freed" =>
    /\ locks = 0 /\ engine = "none"
    /\ \A s \in Slots : ref[s] = Null
    /\ \A t \in Threads : self[t] = <<>> /\ call[t] = "none"

\* Once the client has let go of everything the DLL may go, and no object is left behind.
NoLeak ==
  (/\ \A s \in ClientSlots : ref[s] = Null
   /\ \A t \in Threads : pc[t] = "idle" /\ dying[t] = Null
   /\ locks = 0)
  => count = 0 /\ \A o \in Objects : phase[o] = "free"
=============================================================================
