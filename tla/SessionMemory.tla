---------------------------- MODULE SessionMemory ----------------------------
(***************************************************************************)
(* What a session is made of: the memory rdts_create takes from malloc and *)
(* rdts_release gives back, under the table of SessionManager.  A session  *)
(* is a struct with pointers to four buffers.  A struct that malloc hands  *)
(* out again still holds what its last owner left in it, and rdts_create   *)
(* calls rdts_release as soon as one malloc has failed.                    *)
(***************************************************************************)
EXTENDS SessionManager

CONSTANTS
    Structs,  \* where malloc(sizeof(rdt_session_t)) may be
    Buffers,  \* where malloc(sizeof(mbuf_t)) may be
    Fails     \* which of rdts_create's five mallocs may return NULL

ASSUME MemoryAssumption ==
    /\ Structs \cap Buffers = {}
    /\ Structs \cup Buffers \subseteq Nat \ {NULL}
    /\ Fails \subseteq 1 .. 5

VARIABLES
    at,     \* at[o]: where session o is
    mem,    \* mem[a]: the four pointers last written at a, in rdts_create's order
    used,   \* what has been allocated and not freed
    broken  \* history: something was freed that was not allocated

memory     == << at, mem, used, broken >>
memoryVars == << vars, memory >>

\* raw_rcv_buf, rcv_buf, raw_snd_buf, snd_buf
Fields == 1 .. 4

\* Memory that was never used is zero, as the kernel gives it to a process; what
\* makes the difference is what a released session has left in it.
MemoryInit ==
    /\ Init
    /\ at = [o \in {} |-> NULL]
    /\ mem = [a \in Structs |-> [f \in Fields |-> NULL]]
    /\ used = {}
    /\ broken = FALSE

-----------------------------------------------------------------------------

\* The lowest of F, if there is one.
Lowest(F) == {x \in F : \A y \in F : x <= y}

\* The next four buffers malloc may return, which are all different: the lowest
\* that are free, where a real allocator may take any.
NextBuffers ==
    LET F      == Buffers \ used
        first  == Lowest(F)
        second == Lowest(F \ first)
        third  == Lowest(F \ (first \cup second))
        fourth == Lowest(F \ (first \cup second \cup third))
    IN  first \X second \X third \X fourth

\* the pointer stored only when malloc has succeeded
Bug_Constructed(b, old, k) ==
    [f \in Fields |-> IF f + 1 < k THEN b[f] ELSE old[f]]

\* The pointers in the struct when the k-th malloc has failed, or none has
\* (k = 6).  The struct is the first, the buffers the others.
Constructed(b, old, k) ==
    [f \in Fields |-> IF f + 1 < k THEN b[f] ELSE IF f + 1 = k THEN NULL ELSE old[f]]

Pointers(s) == {s[f] : f \in Fields} \ {NULL}

\* rdts_release of the struct at a with pointers s, when U is allocated.
rdts_release(a, s, U) ==
    /\ used' = U \ (Pointers(s) \cup {a})
    /\ broken' = (broken \/ ~(Pointers(s) \subseteq U)
                         \/ \E f, g \in Fields : f # g /\ s[f] = s[g] /\ s[f] # NULL)

-----------------------------------------------------------------------------

Create(sid) ==
    /\ create_session(sid)
    /\ \E a \in Structs \ used : \E b \in NextBuffers :
         /\ at' = [o \in DOMAIN heap' |-> IF o = made' THEN a ELSE at[o]]
         /\ mem' = [mem EXCEPT ![a] = Constructed(b, @, 6)]
         /\ used' = used \cup {a} \cup Pointers(mem'[a])
    /\ UNCHANGED broken

\* Not even the struct.
CreateNothing(sid) ==
    /\ create_fails(sid)
    /\ 1 \in Fails
    /\ UNCHANGED memory

\* A buffer: what there is so far is released again.
CreateInPart(sid) ==
    /\ create_fails(sid)
    /\ \E k \in Fails \ {1}, a \in Structs \ used : \E b \in NextBuffers :
         /\ mem' = [mem EXCEPT ![a] = Constructed(b, @, k)]
         /\ rdts_release(a, mem'[a], used \cup {a} \cup {b[f] : f \in 1 .. k - 2})
    /\ UNCHANGED at

Delete(sid) ==
    /\ delete_session(sid)
    /\ LET o == find_by_id(sid) IN rdts_release(at[o], mem[at[o]], used)
    /\ at' = [o \in DOMAIN heap' |-> at[o]]
    /\ UNCHANGED mem

MemoryNext ==
    \E sid \in Sids :
        \/ Create(sid) \/ CreateNothing(sid) \/ CreateInPart(sid) \/ Delete(sid)
        \/ (disable_session(sid) \/ reconnect_session(sid)) /\ UNCHANGED memory

MemorySpec == MemoryInit /\ [][MemoryNext]_memoryVars

-----------------------------------------------------------------------------
(* Properties *)

MemoryTypeOK ==
    /\ TypeOK
    /\ at \in [DOMAIN heap -> Structs]
    /\ mem \in [Structs -> [Fields -> Buffers \cup {NULL}]]
    /\ used \subseteq Structs \cup Buffers
    /\ broken \in BOOLEAN

\* What session o has.
Owned(o) == {at[o]} \cup Pointers(mem[at[o]])

\* rdt_session.c:200-230: a session has its struct and four buffers to itself until
\* it is deleted, whatever other sessions are made, half made and deleted in
\* between; all that is allocated is some session's; nothing is freed twice.
MemoryOwned ==
    /\ ~broken
    /\ used = UNION {Owned(o) : o \in DOMAIN heap}
    /\ \A o \in DOMAIN heap :
         /\ \A f, g \in Fields : mem[at[o]][f] = mem[at[o]][g] => f = g
         /\ NULL \notin {mem[at[o]][f] : f \in Fields}
         /\ \A p \in DOMAIN heap : p # o => Owned(o) \cap Owned(p) = {}
=============================================================================
