--------------------------- MODULE SessionManager ---------------------------
(***************************************************************************)
(* The table of sessions (rdts_manager.c) as the Lua functions rdt_create, *)
(* rdt_delete, rdt_disable and rdt_reconnect use it.  A session's place is *)
(* its id modulo MAXSOCKET; find_by_id looks at that place only, and there *)
(* is no list behind it.  A call that finds no session, or a disabled one  *)
(* where an enabled one is asked for, raises a Lua error and changes       *)
(* nothing: it is not an action.                                           *)
(*                                                                         *)
(* Sessions are numbered in the order rdts_create makes them; a number     *)
(* stands for the pointer, and heap for what has not been released.        *)
(***************************************************************************)
EXTENDS Integers

CONSTANTS
    Sids,       \* session ids; get_session asks for positive ones
    MAXSOCKET,  \* 16384 in rdts_manager.c
    MaxMade     \* bound: sessions ever made

ASSUME ManagerAssumption ==
    /\ MAXSOCKET \in Nat \ {0}
    /\ Sids \subseteq Nat \ {0}
    /\ MaxMade \in Nat

VARIABLES
    ctx,   \* the table
    heap,  \* heap[o]: sid and enable of session o, not yet released
    made,  \* sessions ever made
    held   \* history: ids created and not deleted since

vars == << ctx, heap, made, held >>

NULL == 0

Slots == 0 .. MAXSOCKET - 1

\* one place too few
Bug_Slot(sid) == sid % (MAXSOCKET - 1)

Slot(sid) == sid % MAXSOCKET

\* the place stored for the id
Bug_rdts_create(sid) == [sid |-> Slot(sid), enable |-> TRUE]

rdts_create(sid) == [sid |-> sid, enable |-> TRUE]

\* rdt_manager_create
Init ==
    /\ ctx = [s \in Slots |-> NULL]
    /\ heap = [o \in {} |-> NULL]
    /\ made = 0
    /\ held = {}

-----------------------------------------------------------------------------

find_by_id(sid) ==
    LET o == ctx[Slot(sid)]
    IN  IF o # NULL /\ heap[o].sid = sid THEN o ELSE NULL

Found(sid) == find_by_id(sid) # NULL

\* find_session(sid, 1)
FoundEnabled(sid) == Found(sid) /\ heap[find_by_id(sid)].enable

\* created whatever is there
Bug_MayCreate(sid) == TRUE

\* "session already create"
MayCreate(sid) == ~Found(sid)

\* That create_session first deletes a session with the same id (rdts_manager.c:80-83)
\* never happens: lrdt_create, its one caller, has just found none.
create_session(sid) ==
    /\ MayCreate(sid)
    /\ made < MaxMade
    /\ made' = made + 1
    /\ ctx' = [ctx EXCEPT ![Slot(sid)] = made']
    /\ heap' = [o \in DOMAIN heap \cup {made'} |->
                  IF o = made' THEN rdts_create(sid) ELSE heap[o]]
    /\ held' = held \cup {sid}

\* the place not cleared
Bug_Cleared(sid) == ctx

\* The table without sid's session.
Cleared(sid) == [ctx EXCEPT ![Slot(sid)] = NULL]

\* rdts_create has returned NULL, which goes into the table like a session;
\* lrdt_create does not look at it.
create_fails(sid) ==
    /\ MayCreate(sid)
    /\ ctx' = Cleared(sid)
    /\ UNCHANGED << heap, made, held >>

\* A disabled session cannot be deleted.
delete_session(sid) ==
    /\ FoundEnabled(sid)
    /\ ctx' = Cleared(sid)
    /\ heap' = [o \in DOMAIN heap \ {find_by_id(sid)} |-> heap[o]]
    /\ held' = held \ {sid}
    /\ UNCHANGED made

disable_session(sid) ==
    /\ FoundEnabled(sid)
    /\ heap' = [heap EXCEPT ![find_by_id(sid)].enable = FALSE]
    /\ UNCHANGED << ctx, made, held >>

reconnect_session(sid) ==
    /\ Found(sid)
    /\ heap' = [heap EXCEPT ![find_by_id(sid)].enable = TRUE]
    /\ UNCHANGED << ctx, made, held >>

Next ==
    \E sid \in Sids :
        \/ create_session(sid) \/ create_fails(sid) \/ delete_session(sid)
        \/ disable_session(sid) \/ reconnect_session(sid)

Spec == Init /\ [][Next]_vars

-----------------------------------------------------------------------------
(* Properties *)

TypeOK ==
    /\ made \in Nat
    /\ ctx \in [Slots -> 0 .. made]
    /\ DOMAIN heap \subseteq 1 .. made
    /\ heap \in [DOMAIN heap -> [sid : Sids, enable : BOOLEAN]]
    /\ held \subseteq Sids

\* No place of the table holds a released session (find_by_id reads its sid),
\* and a session lies where find_by_id looks for it.
NoDangling ==
    \A s \in Slots :
        ctx[s] # NULL => ctx[s] \in DOMAIN heap /\ Slot(heap[ctx[s]].sid) = s

\* Every session not released is in the table: create_session never makes one
\* over another, of its own id or of any.
NoLeak == \A o \in DOMAIN heap : ctx[Slot(heap[o].sid)] = o

\* rdt_server.lua:101: a session that has not been deleted is found when its
\* client comes back, however many others have been created since.
HeldIsFound == \A sid \in held : Found(sid)
=============================================================================
