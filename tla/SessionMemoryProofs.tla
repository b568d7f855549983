------------------------- MODULE SessionMemoryProofs -------------------------
(***************************************************************************)
(* The table of sessions never holds a released session, whatever the ids; *)
(* if no two ids share a place it loses none either.                       *)
(*                                                                         *)
(* If of rdts_create's mallocs only the first or the last ever fails, no   *)
(* session loses memory to another, for any number of sessions.  The last  *)
(* is harmless because all pointers have been written by then.             *)
(***************************************************************************)
EXTENDS SessionMemory, TLAPS

-----------------------------------------------------------------------------
(* The table of sessions *)

\* No two ids fall on one place of the table.
Apart == \A a, b \in Sids : Slot(a) = Slot(b) => a = b

Safe == TypeOK /\ NoDangling

\* Every id has a place.
LEMMA SlotInTable == ASSUME NEW sid \in Sids PROVE Slot(sid) \in Slots
<1>1. sid \in Nat /\ MAXSOCKET \in Nat \ {0}
  BY ManagerAssumption
<1>2. sid % MAXSOCKET \in 0 .. MAXSOCKET - 1
  BY <1>1
<1>. QED
  BY <1>2 DEF Slot, Slots

\* find_by_id returns a session of that very id, not released.
LEMMA FindsOwn ==
  ASSUME Safe, NEW sid \in Sids, Found(sid)
  PROVE  LET o == find_by_id(sid)
         IN  o = ctx[Slot(sid)] /\ o \in DOMAIN heap /\ heap[o].sid = sid
BY SlotInTable DEF Found, find_by_id, Safe, NoDangling

\* A session once in heap keeps its id when only enable flags change.
LEMMA EnableKeeps ==
  ASSUME Safe, NEW o \in DOMAIN heap, NEW flag \in BOOLEAN,
         heap' = [heap EXCEPT ![o].enable = flag],
         UNCHANGED << ctx, made, held >>
  PROVE  /\ Safe'
         /\ DOMAIN heap' = DOMAIN heap
         /\ \A p \in DOMAIN heap : heap'[p].sid = heap[p].sid
<1>1. heap[o] \in [sid : Sids, enable : BOOLEAN]
  BY DEF Safe, TypeOK
<1>2. [heap[o] EXCEPT !.enable = flag] \in [sid : Sids, enable : BOOLEAN]
  BY <1>1
<1>3. DOMAIN heap' = DOMAIN heap
  OBVIOUS
<1>4. \A p \in DOMAIN heap : heap'[p].sid = heap[p].sid
  BY <1>1 DEF Safe, TypeOK
<1>5. heap' \in [DOMAIN heap' -> [sid : Sids, enable : BOOLEAN]]
  BY <1>2 DEF Safe, TypeOK
<1>6. TypeOK'
  BY <1>3, <1>5 DEF Safe, TypeOK
<1>7. NoDangling'
  BY <1>3, <1>4 DEF Safe, NoDangling, Slot, Slots
<1>. QED
  BY <1>3, <1>4, <1>6, <1>7 DEF Safe

\* create_session's new session is numbered past all others.
LEMMA CreateKeeps ==
  ASSUME Safe, NEW sid \in Sids, create_session(sid)
  PROVE  Safe'
<1>1. /\ made \in Nat /\ made' = made + 1
      /\ DOMAIN heap' = DOMAIN heap \cup {made'}
  BY DEF Safe, TypeOK, create_session
<1>2. made' \notin DOMAIN heap
  BY <1>1 DEF Safe, TypeOK
<1>3. \A o \in DOMAIN heap' :
         heap'[o] = IF o = made' THEN rdts_create(sid) ELSE heap[o]
  BY DEF create_session
<1>4. rdts_create(sid) \in [sid : Sids, enable : BOOLEAN]
  BY DEF rdts_create
<1>5. ctx' = [ctx EXCEPT ![Slot(sid)] = made']
  BY DEF create_session
<1>6. TypeOK'
  <2>1. DOMAIN heap' \subseteq 1 .. made'
    BY <1>1 DEF Safe, TypeOK
  <2>2. heap' \in [DOMAIN heap' -> [sid : Sids, enable : BOOLEAN]]
    BY <1>1, <1>3, <1>4 DEF Safe, TypeOK, create_session
  <2>3. ctx' \in [Slots -> 0 .. made']
    BY <1>1, <1>5, SlotInTable DEF Safe, TypeOK
  <2>4. held' \subseteq Sids
    BY DEF Safe, TypeOK, create_session
  <2>. QED
    BY <1>1, <2>1, <2>2, <2>3, <2>4 DEF TypeOK
<1>7. NoDangling'
  <2>. SUFFICES ASSUME NEW s \in Slots, ctx'[s] # NULL
                PROVE  ctx'[s] \in DOMAIN heap' /\ Slot(heap'[ctx'[s]].sid) = s
    BY DEF NoDangling, Slots, Slot
  <2>1. CASE s = Slot(sid)
    BY <2>1, <1>1, <1>3, <1>5, SlotInTable DEF Safe, TypeOK, rdts_create
  <2>2. CASE s # Slot(sid)
    BY <2>2, <1>1, <1>2, <1>3, <1>5 DEF Safe, TypeOK, NoDangling
  <2>. QED
    BY <2>1, <2>2
<1>. QED
  BY <1>6, <1>7 DEF Safe

\* delete_session clears the only place that holds the session it releases.
LEMMA DeleteKeeps ==
  ASSUME Safe, NEW sid \in Sids, delete_session(sid)
  PROVE  Safe'
<1>. DEFINE o == find_by_id(sid)
<1>1. o = ctx[Slot(sid)] /\ o \in DOMAIN heap /\ heap[o].sid = sid
  BY FindsOwn DEF delete_session, FoundEnabled
<1>2. /\ ctx' = [ctx EXCEPT ![Slot(sid)] = NULL]
      /\ heap' = [p \in DOMAIN heap \ {o} |-> heap[p]]
      /\ held' = held \ {sid} /\ made' = made
  BY DEF delete_session, Cleared
<1>3. TypeOK'
  BY <1>2, SlotInTable DEF Safe, TypeOK, NULL
<1>4. NoDangling'
  <2>. SUFFICES ASSUME NEW s \in Slots, ctx'[s] # NULL
                PROVE  ctx'[s] \in DOMAIN heap' /\ Slot(heap'[ctx'[s]].sid) = s
    BY DEF NoDangling, Slots, Slot
  <2>1. s # Slot(sid) /\ ctx'[s] = ctx[s]
    BY <1>2 DEF Safe, TypeOK
  <2>2. ctx[s] \in DOMAIN heap /\ Slot(heap[ctx[s]].sid) = s
    BY <2>1 DEF Safe, NoDangling
  <2>3. ctx[s] # o
    BY <1>1, <2>1, <2>2
  <2>. QED
    BY <1>2, <2>1, <2>2, <2>3
<1>. QED
  BY <1>3, <1>4 DEF Safe

\* A create that fails clears a place.
LEMMA FailKeeps ==
  ASSUME Safe, NEW sid \in Sids, create_fails(sid)
  PROVE  Safe'
<1>1. /\ ctx' = [ctx EXCEPT ![Slot(sid)] = NULL]
      /\ heap' = heap /\ held' = held /\ made' = made
  BY DEF create_fails, Cleared
<1>2. TypeOK'
  BY <1>1, SlotInTable DEF Safe, TypeOK, NULL
<1>3. NoDangling'
  BY <1>1 DEF Safe, TypeOK, NoDangling, Slots, Slot
<1>. QED
  BY <1>2, <1>3 DEF Safe

\* find_by_id never reads a session that rdts_release has freed, whatever ids
\* are created and deleted in whatever order.
THEOREM TableSafe == Spec => [](TypeOK /\ NoDangling)
<1>1. Init => Safe
  BY ManagerAssumption DEF Init, Safe, TypeOK, NoDangling, NULL
<1>2. Safe /\ [Next]_vars => Safe'
  <2>. SUFFICES ASSUME Safe, [Next]_vars PROVE Safe'
    OBVIOUS
  <2>1. ASSUME NEW sid \in Sids, create_session(sid) PROVE Safe'
    BY <2>1, CreateKeeps
  <2>2. ASSUME NEW sid \in Sids, delete_session(sid) PROVE Safe'
    BY <2>2, DeleteKeeps
  <2>3. ASSUME NEW sid \in Sids, disable_session(sid) PROVE Safe'
    BY <2>3, FindsOwn, EnableKeeps DEF disable_session, FoundEnabled
  <2>4. ASSUME NEW sid \in Sids, reconnect_session(sid) PROVE Safe'
    BY <2>4, FindsOwn, EnableKeeps DEF reconnect_session
  <2>5. ASSUME NEW sid \in Sids, create_fails(sid) PROVE Safe'
    BY <2>5, FailKeeps
  <2>6. CASE UNCHANGED vars
    BY <2>6 DEF vars, Safe, TypeOK, NoDangling, Slots, Slot
  <2>. QED
    BY <2>1, <2>2, <2>3, <2>4, <2>5, <2>6 DEF Next
<1>. QED
  BY <1>1, <1>2, PTL DEF Spec, Safe

-----------------------------------------------------------------------------
(* When every id has a place of its own. *)

Kept == NoLeak /\ HeldIsFound

\* What find_by_id answers for an id whose place and session do not change.
LEMMA FindDepends ==
  ASSUME Safe, NEW sid \in Sids, Found(sid),
         ctx'[Slot(sid)] = ctx[Slot(sid)],
         heap'[ctx[Slot(sid)]].sid = heap[ctx[Slot(sid)]].sid
  PROVE  Found(sid)'
BY DEF Found, find_by_id, Slot, NULL

\* A new session displaces none, and the others stay where they are.
LEMMA CreateKeepsAll ==
  ASSUME Apart, Safe, Kept, NEW sid \in Sids, create_session(sid)
  PROVE  Kept'
<1>1. /\ made' \notin DOMAIN heap /\ made' # NULL
      /\ DOMAIN heap' = DOMAIN heap \cup {made'}
  BY DEF Safe, TypeOK, create_session, NULL
<1>2. /\ heap'[made'] = rdts_create(sid)
      /\ \A o \in DOMAIN heap : heap'[o] = heap[o]
  BY <1>1 DEF create_session
<1>3. /\ ctx'[Slot(sid)] = made'
      /\ \A s \in Slots : s # Slot(sid) => ctx'[s] = ctx[s]
  BY SlotInTable DEF create_session, Safe, TypeOK
<1>4. rdts_create(sid).sid = sid
  BY DEF rdts_create
<1>5. NoLeak'
  <2>. SUFFICES ASSUME NEW o \in DOMAIN heap, heap[o].sid \in Sids
                PROVE  ctx'[Slot(heap[o].sid)] = o
    BY <1>1, <1>2, <1>3, <1>4 DEF NoLeak, Slot, Safe, TypeOK
  <2>1. ctx[Slot(heap[o].sid)] = o
    BY DEF Kept, NoLeak
  <2>2. o # NULL
    BY DEF Safe, TypeOK, NULL
  <2>3. heap[o].sid # sid
    BY <2>1, <2>2 DEF create_session, MayCreate, Found, find_by_id
  <2>4. Slot(heap[o].sid) # Slot(sid)
    BY <2>3 DEF Apart
  <2>. QED
    BY <1>3, <2>1, <2>4, SlotInTable
<1>6. HeldIsFound'
  <2>. SUFFICES ASSUME NEW other \in held' PROVE Found(other)'
    BY DEF HeldIsFound
  <2>1. CASE other = sid
    BY <2>1, <1>1, <1>2, <1>3, <1>4 DEF Found, find_by_id, Slot, NULL
  <2>2. CASE other # sid
    <3>1. other \in held /\ other \in Sids
      BY <2>2 DEF create_session, Safe, TypeOK
    <3>2. Found(other)
      BY <3>1 DEF Kept, HeldIsFound
    <3>3. ctx'[Slot(other)] = ctx[Slot(other)]
      BY <1>3, <2>2, <3>1, SlotInTable DEF Apart
    <3>4. ctx[Slot(other)] \in DOMAIN heap
      BY <3>1, <3>2, FindsOwn
    <3>. QED
      BY <1>2, <3>1, <3>2, <3>3, <3>4, FindDepends
  <2>. QED
    BY <2>1, <2>2
<1>. QED
  BY <1>5, <1>6 DEF Kept

\* Deleting a session takes no other out of the table.
LEMMA DeleteKeepsAll ==
  ASSUME Apart, Safe, Kept, NEW sid \in Sids, delete_session(sid)
  PROVE  Kept'
<1>. DEFINE gone == find_by_id(sid)
<1>1. gone = ctx[Slot(sid)] /\ gone \in DOMAIN heap /\ heap[gone].sid = sid
  BY FindsOwn DEF delete_session, FoundEnabled
<1>2. /\ heap' = [o \in DOMAIN heap \ {gone} |-> heap[o]]
      /\ held' = held \ {sid}
  BY DEF delete_session
<1>3. \A s \in Slots : s # Slot(sid) => ctx'[s] = ctx[s]
  BY DEF delete_session, Cleared, Safe, TypeOK
<1>4. NoLeak'
  <2>. SUFFICES ASSUME NEW o \in DOMAIN heap, o # gone
                PROVE  ctx'[Slot(heap[o].sid)] = o
    BY <1>2 DEF NoLeak, Slot
  <2>1. ctx[Slot(heap[o].sid)] = o /\ heap[o].sid \in Sids
    BY DEF Kept, NoLeak, Safe, TypeOK
  <2>. QED
    BY <1>1, <1>3, <2>1, SlotInTable
<1>5. HeldIsFound'
  <2>. SUFFICES ASSUME NEW other \in held, other # sid, other \in Sids
                PROVE  Found(other)'
    BY <1>2 DEF HeldIsFound, Safe, TypeOK
  <2>1. Found(other)
    BY DEF Kept, HeldIsFound
  <2>2. ctx'[Slot(other)] = ctx[Slot(other)]
    BY <1>3, SlotInTable DEF Apart
  <2>3. /\ ctx[Slot(other)] \in DOMAIN heap
        /\ heap[ctx[Slot(other)]].sid = other
    BY <2>1, FindsOwn
  <2>4. heap'[ctx[Slot(other)]] = heap[ctx[Slot(other)]]
    BY <1>1, <1>2, <2>3
  <2>. QED
    BY <2>1, <2>2, <2>4, FindDepends
<1>. QED
  BY <1>4, <1>5 DEF Kept

\* A create that fails clears a place that was empty: a session there would be
\* of the id itself, and the create would have been refused.
LEMMA FailKeepsAll ==
  ASSUME Apart, Safe, Kept, NEW sid \in Sids, create_fails(sid)
  PROVE  Kept'
<1>1. ctx[Slot(sid)] = NULL
  <2>. SUFFICES ASSUME ctx[Slot(sid)] # NULL PROVE FALSE
    OBVIOUS
  <2>1. /\ ctx[Slot(sid)] \in DOMAIN heap
        /\ Slot(heap[ctx[Slot(sid)]].sid) = Slot(sid)
    BY SlotInTable DEF Safe, NoDangling
  <2>2. heap[ctx[Slot(sid)]].sid \in Sids
    BY <2>1 DEF Safe, TypeOK
  <2>3. heap[ctx[Slot(sid)]].sid = sid
    BY <2>1, <2>2 DEF Apart
  <2>. QED
    BY <2>3 DEF create_fails, MayCreate, Found, find_by_id
<1>2. ctx' = ctx
  BY <1>1, SlotInTable DEF create_fails, Cleared, Safe, TypeOK
<1>. QED
  BY <1>2 DEF create_fails, Kept, NoLeak, HeldIsFound, Found, find_by_id, Slot

\* Enabling or disabling a session loses none.
LEMMA EnableKeepsAll ==
  ASSUME Safe, Kept, NEW o \in DOMAIN heap, NEW flag \in BOOLEAN,
         heap' = [heap EXCEPT ![o].enable = flag],
         UNCHANGED << ctx, made, held >>
  PROVE  Kept'
<1>1. /\ DOMAIN heap' = DOMAIN heap
      /\ \A p \in DOMAIN heap : heap'[p].sid = heap[p].sid
  BY EnableKeeps
<1>2. NoLeak'
  BY <1>1 DEF Kept, NoLeak, Slot
<1>3. ASSUME NEW sid \in held PROVE Found(sid)'
  <2>1. sid \in Sids /\ Found(sid)
    BY <1>3 DEF Safe, TypeOK, Kept, HeldIsFound
  <2>2. ctx[Slot(sid)] \in DOMAIN heap
    BY <2>1, FindsOwn
  <2>. QED
    BY <1>1, <2>1, <2>2, FindDepends
<1>. QED
  BY <1>2, <1>3 DEF Kept, HeldIsFound

\* As long as no two ids share a place, a session that was created and not
\* deleted is found, and the table holds every session not yet released.
THEOREM NothingLost ==
  ASSUME Apart PROVE Spec => [](NoLeak /\ HeldIsFound)
<1>1. Init => Kept
  BY DEF Init, Kept, NoLeak, HeldIsFound
<1>2. Safe /\ Kept /\ [Next]_vars => Kept'
  <2>. SUFFICES ASSUME Safe, Kept, [Next]_vars PROVE Kept'
    OBVIOUS
  <2>1. ASSUME NEW sid \in Sids, create_session(sid) PROVE Kept'
    BY <2>1, CreateKeepsAll
  <2>2. ASSUME NEW sid \in Sids, delete_session(sid) PROVE Kept'
    BY <2>2, DeleteKeepsAll
  <2>3. ASSUME NEW sid \in Sids, disable_session(sid) PROVE Kept'
    BY <2>3, FindsOwn, EnableKeepsAll DEF disable_session, FoundEnabled
  <2>4. ASSUME NEW sid \in Sids, reconnect_session(sid) PROVE Kept'
    BY <2>4, FindsOwn, EnableKeepsAll DEF reconnect_session
  <2>5. ASSUME NEW sid \in Sids, create_fails(sid) PROVE Kept'
    BY <2>5, FailKeepsAll
  <2>6. CASE UNCHANGED vars
    BY <2>6 DEF vars, Kept, NoLeak, HeldIsFound, Found, find_by_id, Slot
  <2>. QED
    BY <2>1, <2>2, <2>3, <2>4, <2>5, <2>6 DEF Next
<1>. QED
  BY <1>1, <1>2, TableSafe, PTL DEF Spec, Safe, Kept

-----------------------------------------------------------------------------
(* The memory of sessions *)

\* The inductive invariant.
MemoryInv == MemoryTypeOK /\ NoDangling /\ MemoryOwned

\* The table does what SessionManager says, whatever happens to memory.
LEMMA MemoryImplementsTable == MemorySpec => Spec
<1>1. MemoryInit => Init
  BY DEF MemoryInit
<1>2. [MemoryNext]_memoryVars => [Next]_vars
  BY DEF MemoryNext, Next, Create, CreateNothing, CreateInPart, Delete, memoryVars, vars
<1>. QED
  BY <1>1, <1>2, PTL DEF MemorySpec, Spec

\* Four different buffers, none of them allocated.
LEMMA NextBuffersFree ==
  ASSUME NEW b \in NextBuffers
  PROVE  /\ b \in [Fields -> Buffers \ used]
         /\ \A f, g \in Fields : b[f] = b[g] => f = g
<1>. DEFINE F      == Buffers \ used
            first  == Lowest(F)
            second == Lowest(F \ first)
            third  == Lowest(F \ (first \cup second))
            fourth == Lowest(F \ (first \cup second \cup third))
<1>1. b \in first \X second \X third \X fourth
  BY DEF NextBuffers
<1>2. PICK w \in first, x \in second, y \in third, z \in fourth : b = << w, x, y, z >>
  BY <1>1
<1>3. w \in F /\ x \in F \ first /\ y \in F \ (first \cup second)
      /\ z \in F \ (first \cup second \cup third)
  BY DEF Lowest
<1>4. w # x /\ w # y /\ w # z /\ x # y /\ x # z /\ y # z
  BY <1>2, <1>3
<1>5. b[1] = w /\ b[2] = x /\ b[3] = y /\ b[4] = z
  BY <1>2
<1>6. b \in [Fields -> F]
  BY <1>2, <1>3 DEF Fields
<1>7. \A f \in Fields : f = 1 \/ f = 2 \/ f = 3 \/ f = 4
  BY DEF Fields
<1>. QED
  BY <1>4, <1>5, <1>6, <1>7

\* A complete struct points at the buffers just allocated.
LEMMA AllConstructed ==
  ASSUME NEW F, NEW b \in [Fields -> F], NEW old
  PROVE  Constructed(b, old, 6) = b
BY DEF Constructed, Fields

\* What a new session takes was nobody's.
LEMMA CreateOwns ==
  ASSUME MemoryInv, NEW sid \in Sids, Create(sid)
  PROVE  MemoryInv'
<1>1. Safe /\ Safe'
  BY CreateKeeps DEF MemoryInv, MemoryTypeOK, Safe, Create
<1>2. PICK a \in Structs \ used, b \in NextBuffers :
         /\ at' = [o \in DOMAIN heap' |-> IF o = made' THEN a ELSE at[o]]
         /\ mem' = [mem EXCEPT ![a] = Constructed(b, @, 6)]
         /\ used' = used \cup {a} \cup Pointers(mem'[a])
  BY DEF Create
<1>3. /\ b \in [Fields -> Buffers \ used]
      /\ \A f, g \in Fields : b[f] = b[g] => f = g
  BY NextBuffersFree
<1>4. Constructed(b, mem[a], 6) = b
  BY <1>3, AllConstructed
<1>5. mem' = [mem EXCEPT ![a] = b]
  BY <1>2, <1>4
<1>6. /\ DOMAIN heap' = DOMAIN heap \cup {made'} /\ made' \notin DOMAIN heap
  BY <1>1 DEF Create, create_session, Safe, TypeOK
<1>7. /\ mem'[a] = b /\ at'[made'] = a
      /\ \A o \in DOMAIN heap : at'[o] = at[o]
  BY <1>2, <1>5, <1>6 DEF MemoryInv, MemoryTypeOK
<1>8. \A o \in DOMAIN heap : Owned(o) \subseteq used
  BY DEF MemoryInv, MemoryOwned
<1>9. \A o \in DOMAIN heap : at[o] # a /\ mem'[at'[o]] = mem[at[o]]
  BY <1>5, <1>7, <1>8 DEF Owned, MemoryInv, MemoryTypeOK
<1>10. \A o \in DOMAIN heap : Owned(o)' = Owned(o)
  BY <1>7, <1>9 DEF Owned, Pointers
<1>11. Owned(made)' = {a} \cup {b[f] : f \in Fields}
  BY <1>3, <1>7, MemoryAssumption DEF Owned, Pointers
<1>12. Owned(made)' \cap used = {}
  BY <1>3, <1>11
<1>13. MemoryTypeOK'
  <2>1. at' \in [DOMAIN heap' -> Structs]
    BY <1>2, <1>6 DEF MemoryInv, MemoryTypeOK
  <2>2. mem' \in [Structs -> [Fields -> Buffers \cup {NULL}]]
    BY <1>3, <1>5 DEF MemoryInv, MemoryTypeOK
  <2>3. used' \subseteq Structs \cup Buffers
    BY <1>2, <1>3, <1>7 DEF MemoryInv, MemoryTypeOK, Pointers
  <2>. QED
    BY <1>1, <2>1, <2>2, <2>3 DEF MemoryInv, MemoryTypeOK, Safe, Create
<1>14. used' = UNION {Owned(o)' : o \in DOMAIN heap'}
  <2>1. used' = used \cup Owned(made)'
    BY <1>2, <1>7 DEF Owned
  <2>2. UNION {Owned(o)' : o \in DOMAIN heap'}
          = (UNION {Owned(o)' : o \in DOMAIN heap}) \cup Owned(made)'
    BY <1>6
  <2>3. UNION {Owned(o)' : o \in DOMAIN heap} = UNION {Owned(o) : o \in DOMAIN heap}
    BY <1>10
  <2>. QED
    BY <2>1, <2>2, <2>3 DEF MemoryInv, MemoryOwned
<1>15. \A o \in DOMAIN heap' :
         /\ \A f, g \in Fields : mem'[at'[o]][f] = mem'[at'[o]][g] => f = g
         /\ NULL \notin {mem'[at'[o]][f] : f \in Fields}
  BY <1>3, <1>6, <1>7, <1>9, MemoryAssumption DEF MemoryInv, MemoryOwned
<1>16. \A o, p \in DOMAIN heap' : p # o => Owned(o)' \cap Owned(p)' = {}
  BY <1>6, <1>8, <1>10, <1>12 DEF MemoryInv, MemoryOwned
<1>17. ~broken'
  BY DEF Create, MemoryInv, MemoryOwned
<1>. QED
  BY <1>1, <1>13, <1>14, <1>15, <1>16, <1>17 DEF MemoryInv, MemoryOwned, Safe

\* A deleted session gives back what it had, and nothing else.
LEMMA DeleteReturns ==
  ASSUME MemoryInv, NEW sid \in Sids, Delete(sid)
  PROVE  MemoryInv'
<1>. DEFINE d == find_by_id(sid)
<1>1. Safe /\ Safe'
  BY DeleteKeeps DEF MemoryInv, MemoryTypeOK, Safe, Delete
<1>2. d \in DOMAIN heap
  BY <1>1, FindsOwn DEF Delete, delete_session, FoundEnabled
<1>3. /\ DOMAIN heap' = DOMAIN heap \ {d}
      /\ at' = [o \in DOMAIN heap' |-> at[o]] /\ mem' = mem
      /\ rdts_release(at[d], mem[at[d]], used)
  BY DEF Delete, delete_session
<1>4. \A o \in DOMAIN heap' : at'[o] = at[o] /\ Owned(o)' = Owned(o)
  BY <1>3 DEF Owned, Pointers
<1>5. used' = used \ Owned(d)
  BY <1>3 DEF rdts_release, Owned
<1>6. ~broken'
  <2>1. Pointers(mem[at[d]]) \subseteq used
    BY <1>2 DEF MemoryInv, MemoryOwned, Owned
  <2>2. \A f, g \in Fields : mem[at[d]][f] = mem[at[d]][g] => f = g
    BY <1>2 DEF MemoryInv, MemoryOwned
  <2>. QED
    BY <1>3, <2>1, <2>2 DEF rdts_release, MemoryInv, MemoryOwned
<1>7. MemoryTypeOK'
  <2>1. at' \in [DOMAIN heap' -> Structs]
    BY <1>3 DEF MemoryInv, MemoryTypeOK
  <2>2. mem' \in [Structs -> [Fields -> Buffers \cup {NULL}]]
    BY <1>3 DEF MemoryInv, MemoryTypeOK
  <2>3. used' \subseteq Structs \cup Buffers /\ broken' \in BOOLEAN
    <3>1. used' \subseteq Structs \cup Buffers
      BY <1>5 DEF MemoryInv, MemoryTypeOK
    <3>2. broken' \in BOOLEAN
      BY <1>3, Zenon DEF rdts_release
    <3>. QED
      BY <3>1, <3>2
  <2>. QED
    BY <1>1, <2>1, <2>2, <2>3 DEF MemoryTypeOK, Safe
<1>8. used' = UNION {Owned(o)' : o \in DOMAIN heap'}
  <2>1. UNION {Owned(o)' : o \in DOMAIN heap'} = UNION {Owned(o) : o \in DOMAIN heap \ {d}}
    BY <1>3, <1>4
  <2>2. \A o \in DOMAIN heap \ {d} : Owned(o) \cap Owned(d) = {}
    BY <1>2 DEF MemoryInv, MemoryOwned
  <2>3. used = UNION {Owned(o) : o \in DOMAIN heap}
    BY DEF MemoryInv, MemoryOwned
  <2>. QED
    BY <1>2, <1>5, <2>1, <2>2, <2>3
<1>9. \A o \in DOMAIN heap' :
         /\ \A f, g \in Fields : mem'[at'[o]][f] = mem'[at'[o]][g] => f = g
         /\ NULL \notin {mem'[at'[o]][f] : f \in Fields}
         /\ \A p \in DOMAIN heap' : p # o => Owned(o)' \cap Owned(p)' = {}
  BY <1>3, <1>4 DEF MemoryInv, MemoryOwned
<1>. QED
  BY <1>1, <1>6, <1>7, <1>8, <1>9 DEF MemoryInv, MemoryOwned, Safe

\* When snd_buf's malloc fails, the three buffers before it are freed again.
LEMMA LastFailureIsHarmless ==
  ASSUME Fails \subseteq {1, 5}, MemoryInv, NEW sid \in Sids, CreateInPart(sid)
  PROVE  MemoryInv'
<1>1. Safe /\ Safe'
  BY FailKeeps DEF MemoryInv, MemoryTypeOK, Safe, CreateInPart
<1>2. PICK a \in Structs \ used, b \in NextBuffers :
         /\ mem' = [mem EXCEPT ![a] = Constructed(b, @, 5)]
         /\ rdts_release(a, mem'[a], used \cup {a} \cup {b[f] : f \in 1 .. 3})
  <2>1. PICK k \in Fails \ {1}, a \in Structs \ used : \E b \in NextBuffers :
          /\ mem' = [mem EXCEPT ![a] = Constructed(b, @, k)]
          /\ rdts_release(a, mem'[a], used \cup {a} \cup {b[f] : f \in 1 .. k - 2})
    BY DEF CreateInPart
  <2>2. k = 5 /\ 5 - 2 = 3
    OBVIOUS
  <2>. QED
    BY <2>1, <2>2
<1>3. /\ b \in [Fields -> Buffers \ used]
      /\ \A f, g \in Fields : b[f] = b[g] => f = g
  BY NextBuffersFree
<1>. DEFINE s == [f \in Fields |-> IF f < 4 THEN b[f] ELSE NULL]
<1>4. Constructed(b, mem[a], 5) = s
  BY DEF Constructed, Fields
<1>5. mem' = [mem EXCEPT ![a] = s] /\ mem'[a] = s
  BY <1>2, <1>4 DEF MemoryInv, MemoryTypeOK
<1>6. Pointers(s) = {b[f] : f \in 1 .. 3}
  BY <1>3, MemoryAssumption DEF Pointers, Fields
<1>7. used' = used
  <2>1. used' = (used \cup {a} \cup Pointers(s)) \ (Pointers(s) \cup {a})
    BY <1>2, <1>5, <1>6 DEF rdts_release
  <2>2. Pointers(s) \cap used = {}
    BY <1>3, <1>6 DEF Fields
  <2>. QED
    BY <2>1, <2>2
<1>8. ~broken'
  <2>1. \A f, g \in Fields : f # g /\ s[f] = s[g] => s[f] = NULL
    BY <1>3, MemoryAssumption DEF Fields
  <2>. QED
    BY <1>2, <1>5, <1>6, <2>1 DEF rdts_release, MemoryInv, MemoryOwned
<1>9. UNCHANGED << heap, at >>
  BY DEF CreateInPart, create_fails
<1>10. \A o \in DOMAIN heap : at[o] # a /\ mem'[at[o]] = mem[at[o]]
  BY <1>5 DEF MemoryInv, MemoryOwned, MemoryTypeOK, Owned
<1>11. \A o \in DOMAIN heap : Owned(o)' = Owned(o)
  BY <1>9, <1>10 DEF Owned, Pointers
<1>12. MemoryTypeOK'
  <2>1. s \in [Fields -> Buffers \cup {NULL}]
    BY <1>3 DEF Fields
  <2>2. mem' \in [Structs -> [Fields -> Buffers \cup {NULL}]]
    BY <1>5, <2>1 DEF MemoryInv, MemoryTypeOK
  <2>3. at' \in [DOMAIN heap' -> Structs]
    BY <1>9 DEF MemoryInv, MemoryTypeOK
  <2>4. used' \subseteq Structs \cup Buffers /\ broken' \in BOOLEAN
    <3>1. used' \subseteq Structs \cup Buffers
      BY <1>7 DEF MemoryInv, MemoryTypeOK
    <3>2. broken' \in BOOLEAN
      BY <1>2, Zenon DEF rdts_release
    <3>. QED
      BY <3>1, <3>2
  <2>. QED
    BY <1>1, <2>2, <2>3, <2>4 DEF MemoryTypeOK, Safe
<1>13. MemoryOwned'
  <2>1. used' = UNION {Owned(o)' : o \in DOMAIN heap'}
    BY <1>7, <1>9, <1>11 DEF MemoryInv, MemoryOwned
  <2>2. \A o \in DOMAIN heap' :
           /\ \A f, g \in Fields : mem'[at'[o]][f] = mem'[at'[o]][g] => f = g
           /\ NULL \notin {mem'[at'[o]][f] : f \in Fields}
           /\ \A p \in DOMAIN heap' : p # o => Owned(o)' \cap Owned(p)' = {}
    BY <1>9, <1>10, <1>11 DEF MemoryInv, MemoryOwned
  <2>. QED
    BY <1>8, <2>1, <2>2 DEF MemoryOwned
<1>. QED
  BY <1>1, <1>12, <1>13 DEF MemoryInv, Safe

\* The memory of a session does not depend on its flags.
LEMMA FlagsKeepMemory ==
  ASSUME MemoryInv, Safe', DOMAIN heap' = DOMAIN heap, UNCHANGED memory
  PROVE  MemoryInv'
<1>1. at' = at /\ mem' = mem /\ used' = used /\ broken' = broken
  BY DEF memory
<1>2. MemoryTypeOK'
  BY <1>1 DEF MemoryInv, MemoryTypeOK, Safe
<1>3. \A o \in DOMAIN heap : Owned(o)' = Owned(o)
  BY <1>1 DEF Owned, Pointers
<1>4. MemoryOwned'
  BY <1>1, <1>3 DEF MemoryInv, MemoryOwned
<1>. QED
  BY <1>2, <1>4 DEF MemoryInv, Safe

\* If nothing but the first and the last malloc of rdts_create fails, a session has
\* its memory to itself, none is freed twice and none is lost.
THEOREM MemoryIsOwned ==
  ASSUME Fails \subseteq {1, 5} PROVE MemorySpec => [](MemoryTypeOK /\ MemoryOwned)
<1>1. MemoryInit => MemoryInv
  <2>. SUFFICES ASSUME MemoryInit PROVE MemoryInv
    OBVIOUS
  <2>1. TypeOK /\ NoDangling /\ DOMAIN heap = {}
    BY DEF MemoryInit, Init, TypeOK, NoDangling, NULL
  <2>2. MemoryTypeOK
    BY <2>1 DEF MemoryInit, MemoryTypeOK
  <2>3. MemoryOwned
    BY <2>1 DEF MemoryInit, MemoryOwned
  <2>. QED
    BY <2>1, <2>2, <2>3 DEF MemoryInv
<1>2. MemoryInv /\ [MemoryNext]_memoryVars => MemoryInv'
  <2>. SUFFICES ASSUME MemoryInv, [MemoryNext]_memoryVars PROVE MemoryInv'
    OBVIOUS
  <2>. Safe
    BY DEF MemoryInv, MemoryTypeOK, Safe
  <2>1. ASSUME NEW sid \in Sids, Create(sid) PROVE MemoryInv'
    BY <2>1, CreateOwns
  <2>2. ASSUME NEW sid \in Sids, CreateNothing(sid) PROVE MemoryInv'
    BY <2>2, FailKeeps, FlagsKeepMemory DEF CreateNothing, create_fails
  <2>3. ASSUME NEW sid \in Sids, CreateInPart(sid) PROVE MemoryInv'
    BY <2>3, LastFailureIsHarmless
  <2>4. ASSUME NEW sid \in Sids, Delete(sid) PROVE MemoryInv'
    BY <2>4, DeleteReturns
  <2>5. ASSUME NEW sid \in Sids, disable_session(sid), UNCHANGED memory PROVE MemoryInv'
    <3>1. find_by_id(sid) \in DOMAIN heap
      BY <2>5, FindsOwn DEF disable_session, FoundEnabled
    <3>2. Safe' /\ DOMAIN heap' = DOMAIN heap
      BY <2>5, <3>1, EnableKeeps DEF disable_session
    <3>. QED
      BY <2>5, <3>2, FlagsKeepMemory
  <2>6. ASSUME NEW sid \in Sids, reconnect_session(sid), UNCHANGED memory PROVE MemoryInv'
    <3>1. find_by_id(sid) \in DOMAIN heap
      BY <2>6, FindsOwn DEF reconnect_session
    <3>2. Safe' /\ DOMAIN heap' = DOMAIN heap
      BY <2>6, <3>1, EnableKeeps DEF reconnect_session
    <3>. QED
      BY <2>6, <3>2, FlagsKeepMemory
  <2>7. CASE UNCHANGED memoryVars
    <3>1. Safe' /\ DOMAIN heap' = DOMAIN heap
      BY <2>7 DEF memoryVars, vars, Safe, TypeOK, NoDangling, Slots, Slot
    <3>. QED
      BY <2>7, <3>1, FlagsKeepMemory DEF memoryVars
  <2>. QED
    BY <2>1, <2>2, <2>3, <2>4, <2>5, <2>6, <2>7 DEF MemoryNext
<1>. QED
  BY <1>1, <1>2, PTL DEF MemorySpec, MemoryInv

-----------------------------------------------------------------------------
(* Types, whichever of the mallocs fail *)

\* The memory variables without the table.
MemoryTypes ==
    /\ at \in [DOMAIN heap -> Structs]
    /\ mem \in [Structs -> [Fields -> Buffers \cup {NULL}]]
    /\ used \subseteq Structs \cup Buffers
    /\ broken \in BOOLEAN

\* Whatever rdts_create got before it stopped, the struct holds buffers or NULL.
LEMMA ConstructedTypes ==
  ASSUME NEW b \in [Fields -> Buffers], NEW old \in [Fields -> Buffers \cup {NULL}], NEW k
  PROVE  Constructed(b, old, k) \in [Fields -> Buffers \cup {NULL}]
BY DEF Constructed

\* A release frees, and allocates nothing.
LEMMA ReleaseTypes ==
  ASSUME NEW a, NEW s, NEW U, U \subseteq Structs \cup Buffers, rdts_release(a, s, U)
  PROVE  used' \subseteq Structs \cup Buffers /\ broken' \in BOOLEAN
<1>1. used' \subseteq Structs \cup Buffers
  BY DEF rdts_release
<1>2. broken' \in BOOLEAN
  BY Zenon DEF rdts_release
<1>. QED
  BY <1>1, <1>2

\* A session made.
LEMMA CreateTypes ==
  ASSUME Safe, MemoryTypes, NEW sid \in Sids, Create(sid)
  PROVE  MemoryTypes'
<1>1. PICK a \in Structs \ used, b \in NextBuffers :
         /\ at' = [o \in DOMAIN heap' |-> IF o = made' THEN a ELSE at[o]]
         /\ mem' = [mem EXCEPT ![a] = Constructed(b, @, 6)]
         /\ used' = used \cup {a} \cup Pointers(mem'[a])
  BY DEF Create
<1>2. b \in [Fields -> Buffers]
  BY NextBuffersFree
<1>3. Constructed(b, mem[a], 6) \in [Fields -> Buffers \cup {NULL}]
  BY <1>2, ConstructedTypes DEF MemoryTypes
<1>4. mem' \in [Structs -> [Fields -> Buffers \cup {NULL}]]
  BY <1>1, <1>3 DEF MemoryTypes
<1>5. at' \in [DOMAIN heap' -> Structs]
  BY <1>1 DEF MemoryTypes, Create, create_session
<1>6. used' \subseteq Structs \cup Buffers
  BY <1>1, <1>4 DEF MemoryTypes, Pointers
<1>7. broken' \in BOOLEAN
  BY DEF MemoryTypes, Create
<1>. QED
  BY <1>4, <1>5, <1>6, <1>7 DEF MemoryTypes

\* A session half made and given up.
LEMMA CreateInPartTypes ==
  ASSUME MemoryTypes, NEW sid \in Sids, CreateInPart(sid)
  PROVE  MemoryTypes'
<1>1. PICK k \in Fails \ {1}, a \in Structs \ used : \E b \in NextBuffers :
         /\ mem' = [mem EXCEPT ![a] = Constructed(b, @, k)]
         /\ rdts_release(a, mem'[a], used \cup {a} \cup {b[f] : f \in 1 .. k - 2})
  BY DEF CreateInPart
<1>2. PICK b \in NextBuffers :
         /\ mem' = [mem EXCEPT ![a] = Constructed(b, @, k)]
         /\ rdts_release(a, mem'[a], used \cup {a} \cup {b[f] : f \in 1 .. k - 2})
  BY <1>1
<1>3. b \in [Fields -> Buffers]
  BY NextBuffersFree
<1>4. {b[f] : f \in 1 .. k - 2} \subseteq Buffers
  BY <1>3, MemoryAssumption DEF Fields
<1>5. used' \subseteq Structs \cup Buffers /\ broken' \in BOOLEAN
  <2>1. used \cup {a} \cup {b[f] : f \in 1 .. k - 2} \subseteq Structs \cup Buffers
    BY <1>4 DEF MemoryTypes
  <2>. QED
    BY <1>2, <2>1, ReleaseTypes
<1>6. mem' \in [Structs -> [Fields -> Buffers \cup {NULL}]]
  <2>1. Constructed(b, mem[a], k) \in [Fields -> Buffers \cup {NULL}]
    BY <1>3, ConstructedTypes DEF MemoryTypes
  <2>. QED
    BY <1>2, <2>1 DEF MemoryTypes
<1>7. at' \in [DOMAIN heap' -> Structs]
  BY DEF MemoryTypes, CreateInPart, create_fails
<1>. QED
  BY <1>5, <1>6, <1>7 DEF MemoryTypes

\* A session deleted.
LEMMA DeleteTypes ==
  ASSUME MemoryTypes, NEW sid \in Sids, Delete(sid)
  PROVE  MemoryTypes'
<1>. DEFINE d == find_by_id(sid)
<1>1. /\ DOMAIN heap' = DOMAIN heap \ {d}
      /\ at' = [o \in DOMAIN heap' |-> at[o]] /\ mem' = mem
      /\ rdts_release(at[d], mem[at[d]], used)
  BY DEF Delete, delete_session
<1>2. used' \subseteq Structs \cup Buffers /\ broken' \in BOOLEAN
  BY <1>1, ReleaseTypes DEF MemoryTypes
<1>3. at' \in [DOMAIN heap' -> Structs] /\ mem' \in [Structs -> [Fields -> Buffers \cup {NULL}]]
  BY <1>1 DEF MemoryTypes
<1>. QED
  BY <1>2, <1>3 DEF MemoryTypes

\* rdt_session.c:200-230: whichever mallocs fail, every session lies at a struct
\* malloc returned, whose pointers are buffers malloc returned or NULL, and nothing
\* outside what malloc returned is ever allocated.
THEOREM MemoryTypeCorrect == MemorySpec => []MemoryTypeOK
<1>1. MemoryInit => Safe /\ MemoryTypes
  <2>. SUFFICES ASSUME MemoryInit PROVE Safe /\ MemoryTypes
    OBVIOUS
  <2>1. Safe /\ DOMAIN heap = {}
    BY ManagerAssumption DEF MemoryInit, Init, Safe, TypeOK, NoDangling, NULL
  <2>. QED
    BY <2>1 DEF MemoryInit, MemoryTypes
<1>2. Safe /\ MemoryTypes /\ [MemoryNext]_memoryVars => (Safe /\ MemoryTypes)'
  <2>. SUFFICES ASSUME Safe, MemoryTypes, [MemoryNext]_memoryVars
                PROVE  Safe' /\ MemoryTypes'
    OBVIOUS
  <2>1. ASSUME NEW sid \in Sids, Create(sid) PROVE Safe' /\ MemoryTypes'
    BY <2>1, CreateKeeps, CreateTypes DEF Create
  <2>2. ASSUME NEW sid \in Sids, CreateNothing(sid) PROVE Safe' /\ MemoryTypes'
    BY <2>2, FailKeeps DEF CreateNothing, create_fails, MemoryTypes, memory
  <2>3. ASSUME NEW sid \in Sids, CreateInPart(sid) PROVE Safe' /\ MemoryTypes'
    BY <2>3, FailKeeps, CreateInPartTypes DEF CreateInPart
  <2>4. ASSUME NEW sid \in Sids, Delete(sid) PROVE Safe' /\ MemoryTypes'
    BY <2>4, DeleteKeeps, DeleteTypes DEF Delete
  <2>5. ASSUME NEW sid \in Sids, disable_session(sid), UNCHANGED memory
        PROVE  Safe' /\ MemoryTypes'
    <3>1. find_by_id(sid) \in DOMAIN heap
      BY <2>5, FindsOwn DEF disable_session, FoundEnabled
    <3>2. Safe' /\ DOMAIN heap' = DOMAIN heap
      BY <2>5, <3>1, EnableKeeps DEF disable_session
    <3>. QED
      BY <2>5, <3>2 DEF MemoryTypes, memory
  <2>6. ASSUME NEW sid \in Sids, reconnect_session(sid), UNCHANGED memory
        PROVE  Safe' /\ MemoryTypes'
    <3>1. find_by_id(sid) \in DOMAIN heap
      BY <2>6, FindsOwn DEF reconnect_session
    <3>2. Safe' /\ DOMAIN heap' = DOMAIN heap
      BY <2>6, <3>1, EnableKeeps DEF reconnect_session
    <3>. QED
      BY <2>6, <3>2 DEF MemoryTypes, memory
  <2>7. CASE UNCHANGED memoryVars
    BY <2>7 DEF memoryVars, memory, vars, Safe, TypeOK, NoDangling, Slots, Slot, MemoryTypes
  <2>. QED
    BY <2>1, <2>2, <2>3, <2>4, <2>5, <2>6, <2>7 DEF MemoryNext
<1>3. Safe /\ MemoryTypes => MemoryTypeOK
  BY DEF Safe, MemoryTypes, MemoryTypeOK
<1>. QED
  BY <1>1, <1>2, <1>3, PTL DEF MemorySpec

\* The table as proved above, whichever mallocs fail.
THEOREM TableSafeWithMemory == MemorySpec => [](TypeOK /\ NoDangling)
BY MemoryImplementsTable, TableSafe

\* With sids that stay apart no allocation failure makes rdtc_manager_free miss a
\* session or hides one from its handle.
THEOREM NothingLostWithMemory ==
  ASSUME Apart PROVE MemorySpec => [](NoLeak /\ HeldIsFound)
BY MemoryImplementsTable, NothingLost
=============================================================================
