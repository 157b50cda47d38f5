------------------------------ MODULE ZendList ------------------------------
(***************************************************************************)
(* The resource registry of zend_list.c.                                   *)
(*                                                                         *)
(* regular is EG(regular_list), the per-request list of resources indexed  *)
(* by handle; plist is EG(persistent_list), keyed by the string keys the   *)
(* extensions choose; dtors is list_destructors, the per-type pair of      *)
(* destructors indexed by resource type id.  A resource is the record of   *)
(* struct _zend_resource (refcount, type, ptr; the handle is its key).     *)
(* The native object a resource wraps is identified with its handle (or    *)
(* persistent key), so ptr is either that identity or NULL.                *)
(*                                                                         *)
(* The program's side is abstracted to refs[h], the number of references  *)
(* to resource h that zvals or extension structures hold: each holder      *)
(* copies its reference (GC_ADDREF), fetches through it, closes through it *)
(* (fclose and friends call zend_list_close) and finally drops it with     *)
(* zend_list_delete.  calls[h] and pcalls[k] count the invocations of the  *)
(* type's regular and persistent destructor on the native object.          *)
(*                                                                         *)
(* phase follows the engine's life cycle: module startup registers         *)
(* destructor types; each request initialises the regular list, uses it,   *)
(* closes it (zend_close_rsrc_list) and destroys it (zend_destroy_rsrc_     *)
(* list); module shutdown cleans each module's types and destroys the      *)
(* persistent list and finally the destructor table.                       *)
(***************************************************************************)
EXTENDS Integers, FiniteSets

CONSTANTS
    MAX_HANDLE,     \* bound on the handles a request hands out
    MAX_TYPES,      \* bound on the registered resource types
    MAX_RC,         \* bound on a resource's reference count
    PKeys,          \* keys of the persistent list
    Modules,        \* module numbers
    Names,          \* resource type names
    NULL

ASSUME MAX_HANDLE \in Nat /\ MAX_TYPES \in Nat /\ MAX_RC \in Nat \ {0}

VARIABLES regular, nNextFree, refs, calls,
          plist, pcalls, dtors, dtorNext, phase,
          want, pwant   \* history: the destructor calls each handle / key is owed

vars == <<regular, nNextFree, refs, calls, plist, pcalls, dtors, dtorNext, phase,
          want, pwant>>

Handles == 0 .. MAX_HANDLE
TypeIds == 0 .. MAX_TYPES
NONE == [rc |-> 0, type |-> -1, ptr |-> NULL]   \* no entry under this key
Live(h) == regular[h] /= NONE
Phases == {"startup", "request", "closed", "destroyed", "shutdown", "pdestroyed", "done"}

\* zend_rsrc_list_dtors_entry; ld and pld say whether the destructor is set
DtorEntries == [ld : BOOLEAN, pld : BOOLEAN, name : Names,
                module : Modules, resource_id : TypeIds]
Registered(t) == t \in TypeIds /\ dtors[t] /= NULL

-----------------------------------------------------------------------------
(* Destructors *)

\* Mutant: the copy handed to the destructor is marked closed instead of
\* the resource in the list.
ResourceDtorCopyOnly(res, c) ==
    [res  |-> res,
     call |-> IF Registered(res.type) /\ dtors[res.type].ld THEN c + 1 ELSE c]

\* Mutant: the pointer is cleared but the type is left as it was.
ResourceDtorKeepType(res, c) ==
    [res  |-> [res EXCEPT !.ptr = NULL],
     call |-> IF Registered(res.type) /\ dtors[res.type].ld THEN c + 1 ELSE c]

\* zend_resource_dtor: the resource is marked closed (type -1, ptr NULL)
\* before the type's destructor runs on a copy of it; an unknown type only
\* warns.  Returns the new resource and the new call count of its object.
ResourceDtor(res, c) ==
    [res  |-> [res EXCEPT !.type = -1, !.ptr = NULL],
     call |-> IF Registered(res.type) /\ dtors[res.type].ld THEN c + 1 ELSE c]

\* list_entry_destructor: a resource still open is closed, then freed
ListEntryDestructor(res, c) ==
    IF res.type >= 0 THEN ResourceDtor(res, c).call ELSE c

\* plist_entry_destructor: the persistent destructor of the type runs
PlistEntryDestructor(res, c) ==
    IF res.type >= 0 /\ Registered(res.type) /\ dtors[res.type].pld
    THEN c + 1 ELSE c

\* zend_fetch_resource / zend_fetch_resource2: the pointer of a resource
\* of one of the expected types, NULL otherwise
FetchResource2(res, type1, type2) ==
    IF res.type \in {type1, type2} THEN res.ptr ELSE NULL

\* zend_fetch_list_dtor_id: the id of the first type registered under
\* name, in insertion (= id) order, and 0 when there is none
FetchListDtorId(name) ==
    LET ids == {t \in TypeIds : Registered(t) /\ dtors[t].name = name}
    IN  IF ids = {} THEN 0
        ELSE dtors[CHOOSE t \in ids : \A u \in ids : t <= u].resource_id

-----------------------------------------------------------------------------
(* Module startup *)

\* Mutant: list_destructors keeps the default nNextFreeElement of 0.
FirstDtorIdZero == 0

\* zend_init_rsrc_list_dtors: nNextFreeElement of list_destructors starts at
\* 1, so that type 0 is never handed out
FirstDtorId == 1

\* Mutant: resource_id read from nNextFreeElement after the insert.
RegisterListDestructorsIdAfterInsert(ld, pld, name, m) ==
    /\ phase = "startup"
    /\ dtorNext <= MAX_TYPES
    /\ dtors' = [dtors EXCEPT ![dtorNext] =
                   [ld |-> ld, pld |-> pld, name |-> name, module |-> m,
                    resource_id |-> dtorNext + 1]]
    /\ dtorNext' = dtorNext + 1
    /\ UNCHANGED <<regular, nNextFree, refs, calls, plist, pcalls, phase, want, pwant>>

\* zend_register_list_destructors_ex: next_index_insert of the entry,
\* whose resource_id is nNextFreeElement read before the insert
RegisterListDestructors(ld, pld, name, m) ==
    /\ phase = "startup"
    /\ dtorNext <= MAX_TYPES
    /\ dtors' = [dtors EXCEPT ![dtorNext] =
                   [ld |-> ld, pld |-> pld, name |-> name, module |-> m,
                    resource_id |-> dtorNext]]
    /\ dtorNext' = dtorNext + 1
    /\ UNCHANGED <<regular, nNextFree, refs, calls, plist, pcalls, phase, want, pwant>>

\* ZVAL_NEW_PERSISTENT_RES stored into EG(persistent_list) under key k
\* (a pconnect): refcount 1, owned by the list itself
RegisterPersistent(k, t) ==
    /\ phase \in {"startup", "request", "closed"}
    /\ plist[k] = NONE /\ pcalls[k] = 0 /\ Registered(t)
    /\ plist' = [plist EXCEPT ![k] = [rc |-> 1, type |-> t, ptr |-> k]]
    /\ pwant' = [pwant EXCEPT ![k] = IF dtors[t].pld THEN 1 ELSE 0]
    /\ UNCHANGED <<regular, nNextFree, refs, calls, pcalls, dtors, dtorNext, phase, want>>

-----------------------------------------------------------------------------
(* Requests *)

\* zend_init_rsrc_list: a fresh regular list, nNextFreeElement 0
InitRsrcList ==
    /\ phase \in {"startup", "destroyed"}
    /\ regular' = [h \in Handles |-> NONE]
    /\ nNextFree' = 0
    /\ refs' = [h \in Handles |-> 0]
    /\ calls' = [h \in Handles |-> 0]
    /\ want' = [h \in Handles |-> 0]
    /\ phase' = "request"
    /\ UNCHANGED <<plist, pcalls, dtors, dtorNext, pwant>>

\* zend_register_resource / zend_list_insert: index_add_new at
\* nNextFreeElement (1 instead of 0), refcount 1 held by the caller
ListInsert(t) ==
    LET index == IF nNextFree = 0 THEN 1 ELSE nNextFree
    IN  /\ phase \in {"request", "closed"}
        /\ index <= MAX_HANDLE /\ Registered(t)
        /\ regular' = [regular EXCEPT ![index] = [rc |-> 1, type |-> t, ptr |-> index]]
        /\ nNextFree' = index + 1
        /\ refs' = [refs EXCEPT ![index] = 1]
        /\ want' = [want EXCEPT ![index] = IF dtors[t].ld THEN 1 ELSE 0]
        /\ UNCHANGED <<calls, plist, pcalls, dtors, dtorNext, phase, pwant>>

\* GC_ADDREF by a holder that copies its reference (zval_addref_p)
AddRef(h) ==
    /\ phase \in {"request", "closed"}
    /\ refs[h] > 0 /\ regular[h].rc < MAX_RC
    /\ regular' = [regular EXCEPT ![h].rc = @ + 1]
    /\ refs' = [refs EXCEPT ![h] = @ + 1]
    /\ UNCHANGED <<nNextFree, calls, plist, pcalls, dtors, dtorNext, phase, want, pwant>>

\* Mutant: the entry is deleted only below zero (--refcount < 0).
ListDeleteBelowZero(h) ==
    /\ phase \in {"request", "closed"}
    /\ refs[h] > 0
    /\ refs' = [refs EXCEPT ![h] = @ - 1]
    /\ IF regular[h].rc - 1 < 0
       THEN /\ calls' = [calls EXCEPT ![h] = ListEntryDestructor(regular[h], @)]
            /\ regular' = [regular EXCEPT ![h] = NONE]
       ELSE /\ regular' = [regular EXCEPT ![h].rc = @ - 1]
            /\ UNCHANGED calls
    /\ UNCHANGED <<nNextFree, plist, pcalls, dtors, dtorNext, phase, want, pwant>>

\* zend_list_delete by a holder: --refcount, and at zero index_del, whose
\* destructor is list_entry_destructor
ListDelete(h) ==
    /\ phase \in {"request", "closed"}
    /\ refs[h] > 0
    /\ refs' = [refs EXCEPT ![h] = @ - 1]
    /\ IF regular[h].rc - 1 <= 0
       THEN /\ calls' = [calls EXCEPT ![h] = ListEntryDestructor(regular[h], @)]
            /\ regular' = [regular EXCEPT ![h] = NONE]
       ELSE /\ regular' = [regular EXCEPT ![h].rc = @ - 1]
            /\ UNCHANGED calls
    /\ UNCHANGED <<nNextFree, plist, pcalls, dtors, dtorNext, phase, want, pwant>>

\* zend_list_close by a holder: free when no reference is left (zend_list_
\* free), else run the destructor of a resource still open
ListClose(h) ==
    /\ phase \in {"request", "closed"}
    /\ refs[h] > 0
    /\ CASE regular[h].rc <= 0 ->
              /\ calls' = [calls EXCEPT ![h] = ListEntryDestructor(regular[h], @)]
              /\ regular' = [regular EXCEPT ![h] = NONE]
         [] regular[h].type >= 0 ->
              LET r == ResourceDtor(regular[h], calls[h])
              IN  /\ regular' = [regular EXCEPT ![h] = r.res]
                  /\ calls' = [calls EXCEPT ![h] = r.call]
         [] OTHER -> UNCHANGED <<regular, calls>>
    /\ UNCHANGED <<nNextFree, refs, plist, pcalls, dtors, dtorNext, phase, want, pwant>>

\* zend_close_rsrc_list: reverse_apply of zend_close_rsrc, which runs the
\* destructor of every resource still open and keeps the entry
CloseRsrcList ==
    /\ phase = "request"
    /\ regular' = [h \in Handles |-> IF regular[h].type >= 0
                                     THEN ResourceDtor(regular[h], 0).res
                                     ELSE regular[h]]
    /\ calls' = [h \in Handles |-> IF regular[h].type >= 0
                                   THEN ResourceDtor(regular[h], calls[h]).call
                                   ELSE calls[h]]
    /\ phase' = "closed"
    /\ UNCHANGED <<nNextFree, refs, plist, pcalls, dtors, dtorNext, want, pwant>>

\* zend_destroy_rsrc_list: graceful_reverse_destroy, list_entry_destructor
\* on every entry; the request's holders are gone by now
DestroyRsrcList ==
    /\ phase = "closed"
    /\ calls' = [h \in Handles |-> IF Live(h)
                                   THEN ListEntryDestructor(regular[h], calls[h])
                                   ELSE calls[h]]
    /\ regular' = [h \in Handles |-> NONE]
    /\ phase' = "destroyed"
    /\ UNCHANGED <<nNextFree, refs, plist, pcalls, dtors, dtorNext, want, pwant>>

-----------------------------------------------------------------------------
(* Module shutdown *)

\* zend_clean_module_rsrc_dtors: every type of module m is removed from
\* list_destructors, after the persistent resources of that type have been
\* removed (clean_module_resource) and their destructor run
CleanModuleRsrcDtors(m) ==
    LET types == {t \in TypeIds : Registered(t) /\ dtors[t].module = m}
        gone  == {k \in PKeys : plist[k] /= NONE /\ plist[k].type \in types}
    IN  /\ phase \in {"destroyed", "shutdown", "pdestroyed"}
        /\ types /= {}
        /\ pcalls' = [k \in PKeys |-> IF k \in gone
                                      THEN PlistEntryDestructor(plist[k], pcalls[k])
                                      ELSE pcalls[k]]
        /\ plist' = [k \in PKeys |-> IF k \in gone THEN NONE ELSE plist[k]]
        /\ dtors' = [t \in TypeIds |-> IF t \in types THEN NULL ELSE dtors[t]]
        /\ phase' = IF phase = "pdestroyed" THEN phase ELSE "shutdown"
        /\ UNCHANGED <<regular, nNextFree, refs, calls, dtorNext, want, pwant>>

\* zend_destroy_rsrc_list(&EG(persistent_list)): plist_entry_destructor on
\* every persistent resource
DestroyPersistentList ==
    /\ phase \in {"destroyed", "shutdown"}
    /\ pcalls' = [k \in PKeys |-> IF plist[k] /= NONE
                                  THEN PlistEntryDestructor(plist[k], pcalls[k])
                                  ELSE pcalls[k]]
    /\ plist' = [k \in PKeys |-> NONE]
    /\ phase' = "pdestroyed"
    /\ UNCHANGED <<regular, nNextFree, refs, calls, dtors, dtorNext, want, pwant>>

\* zend_destroy_rsrc_list_dtors: list_destructors is destroyed
DestroyRsrcListDtors ==
    /\ phase = "pdestroyed"
    /\ dtors' = [t \in TypeIds |-> NULL]
    /\ phase' = "done"
    /\ UNCHANGED <<regular, nNextFree, refs, calls, plist, pcalls, dtorNext, want, pwant>>

-----------------------------------------------------------------------------

Init ==
    /\ regular = [h \in Handles |-> NONE]
    /\ nNextFree = 0
    /\ refs = [h \in Handles |-> 0]
    /\ calls = [h \in Handles |-> 0]
    /\ plist = [k \in PKeys |-> NONE]
    /\ pcalls = [k \in PKeys |-> 0]
    /\ dtors = [t \in TypeIds |-> NULL]
    /\ dtorNext = FirstDtorId
    /\ phase = "startup"
    /\ want = [h \in Handles |-> 0]
    /\ pwant = [k \in PKeys |-> 0]

Next ==
    \/ \E ld, pld \in BOOLEAN, name \in Names, m \in Modules :
          RegisterListDestructors(ld, pld, name, m)
    \/ \E k \in PKeys, t \in TypeIds : RegisterPersistent(k, t)
    \/ InitRsrcList
    \/ \E t \in TypeIds : ListInsert(t)
    \/ \E h \in Handles : AddRef(h) \/ ListDelete(h) \/ ListClose(h)
    \/ CloseRsrcList
    \/ DestroyRsrcList
    \/ \E m \in Modules : CleanModuleRsrcDtors(m)
    \/ DestroyPersistentList
    \/ DestroyRsrcListDtors

Spec == Init /\ [][Next]_vars

-----------------------------------------------------------------------------
(* Properties *)

Resources == [rc : 0 .. MAX_RC, type : TypeIds \cup {-1}, ptr : Handles \cup PKeys \cup {NULL}]

TypeOK ==
    /\ regular \in [Handles -> Resources]
    /\ nNextFree \in 0 .. MAX_HANDLE + 1
    /\ refs \in [Handles -> 0 .. MAX_RC]
    /\ calls \in [Handles -> Nat]
    /\ plist \in [PKeys -> Resources]
    /\ pcalls \in [PKeys -> Nat]
    /\ dtors \in [TypeIds -> DtorEntries \cup {NULL}]
    /\ dtorNext \in 0 .. MAX_TYPES + 1
    /\ phase \in Phases
    /\ want \in [Handles -> 0 .. 1]
    /\ pwant \in [PKeys -> 0 .. 1]

\* Each native object is destroyed at most once however its holders close
\* and delete it (zend_resource_dtor marks the resource closed before the
\* destructor runs), and exactly once by the time its list is destroyed:
\* a request's resources when zend_destroy_rsrc_list has run, a persistent
\* one when the persistent list is gone, if its type has that destructor.
DestructorsRunExactlyOnce ==
    /\ \A h \in Handles : calls[h] <= 1
    /\ \A k \in PKeys : pcalls[k] <= 1
    /\ phase \notin {"startup", "request", "closed"} =>
          \A h \in Handles : calls[h] = want[h]
    /\ phase \in {"pdestroyed", "done"} =>
          \A k \in PKeys : pcalls[k] = pwant[k]

\* zend_fetch_resource(2) never hands out the pointer of an object whose
\* destructor has run, whichever types the caller asks for, and what it
\* hands out is the object registered under that handle.
NoFetchAfterClose ==
    \A h \in Handles, t1, t2 \in TypeIds :
       LET p == FetchResource2(regular[h], t1, t2)
       IN  p /= NULL => calls[h] = 0 /\ p = h

\* While a request runs, a resource's refcount is the number of its holders,
\* zend_list_delete frees it exactly when the last holder lets go, and no
\* holder is left with a handle whose entry is gone.
RefcountTracksHolders ==
    phase \in {"request", "closed"} =>
       \A h \in Handles :
          /\ Live(h) => regular[h].rc = refs[h] /\ regular[h].rc > 0
          /\ refs[h] > 0 => Live(h)

\* zend_fetch_list_dtor_id finds every registered type name, and the id it
\* returns (0 meaning "no such type") names an entry of that name.
DtorIdsResolve ==
    \A t \in TypeIds :
       Registered(t) =>
          LET id == FetchListDtorId(dtors[t].name)
          IN  id /= 0 /\ Registered(id) /\ dtors[id].name = dtors[t].name
=============================================================================
