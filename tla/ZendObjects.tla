----------------------------- MODULE ZendObjects -----------------------------
(***************************************************************************)
(* The objects store of zend_objects_API.c and the object life cycle of    *)
(* zend_objects.c: handles are taken from a free list threaded through     *)
(* invalidated buckets, or from the top of a doubling bucket array; an     *)
(* object whose refcount drops to zero has its destructor and then its     *)
(* free_obj handler called, both guarded by a refcount hold and a flag;    *)
(* the request shutdown calls the remaining destructors with handle reuse  *)
(* switched off, frees the contents of what is left, and destroys the     *)
(* store.                                                                  *)
(*                                                                         *)
(* Destructors are user code, and user code can do anything the script     *)
(* can: create objects, copy and drop references, set and unset            *)
(* properties, and so reach zend_objects_store_del again.  The C frames    *)
(* that are waiting for user code or for a property release are kept on   *)
(* a stack, so a nested deletion runs to completion inside the one that    *)
(* caused it, exactly as the recursion of the code does.                   *)
(*                                                                         *)
(* The script's variables are EG(symbol_table).  The script writes them   *)
(* as the VM does, storing first and releasing the old value after, and   *)
(* unsets them with zend_hash_del_ind, which sets the slot UNDEF before   *)
(* the destructor runs.  An engine or extension function that calls       *)
(* zend_hash_update on an existing key, or zend_hash_str_del_ind, runs the *)
(* destructor first and stores the new value (or UNDEF) when it returns.  *)
(***************************************************************************)
EXTENDS Integers, Sequences, SequencesExt, FiniteSets

CONSTANTS
    Objs,           \* the objects alive at one time, as model values; a
                    \* freed one is a slot a later `new` may reuse
    INIT_SIZE,      \* zend_objects_store_init(&EG(objects_store), init_size)
    Keys,           \* the names of the script's global variables
    UNDEF,          \* an IS_UNDEF zval: a variable that holds nothing
    REENTRANT_WRITE, \* may a destructor run by zend_hash_update or
                     \* zend_hash_str_del_ind write the variable that is
                     \* being changed?
    MAX_HANDLE      \* bound on the handles the store hands out

VARIABLE eg         \* the executor globals this part of the engine uses

\* handle 0 is reserved
Handles == 0 .. MAX_HANDLE

(***************************************************************************)
(* Buckets: a valid object pointer; SET_OBJ_INVALID(obj), the pointer with *)
(* its low bit set while free_obj runs; SET_OBJ_BUCKET_NUMBER(n), a link   *)
(* of the free list; or the NULL of the memset of bucket 0.                *)
(***************************************************************************)
Valid(o) == [t |-> "obj", o |-> o]
Invalid(o) == [t |-> "inv", o |-> o]
FreeLink(n) == [t |-> "free", next |-> n]
Null == [t |-> "null"]
IsObjValid(b) == b.t \in {"obj", "null"}

\* an object that was never created
NoObj == [st |-> "none", handle |-> 0, rc |-> 0, dtor |-> FALSE,
          dc |-> FALSE, fc |-> FALSE, props |-> {}]

(***************************************************************************)
(* zend_objects_store_put                                                  *)
(***************************************************************************)
\* mutant: handles are reused from the free list during the shutdown too
StorePutReuseAlways(e, o) ==
    LET s == e.store
        h == IF s.head /= -1 THEN s.head ELSE s.top
        s1 == IF s.head /= -1
              THEN [s EXCEPT !.head = s.buckets[h].next]
              ELSE [s EXCEPT !.size = IF s.top = s.size THEN 2 * s.size ELSE s.size,
                             !.top = s.top + 1]
    IN [e EXCEPT !.store = [s1 EXCEPT !.buckets[h] = Valid(o)],
                 !.obj[o].handle = h]

\* mutant: a handle taken from the free list is not unlinked from it
StorePutKeepHead(e, o) ==
    LET s == e.store
        reuse == s.head /= -1 /\ ~e.noReuse
        h == IF reuse THEN s.head ELSE s.top
        s1 == IF reuse THEN s
              ELSE [s EXCEPT !.size = IF s.top = s.size THEN 2 * s.size ELSE s.size,
                             !.top = s.top + 1]
    IN [e EXCEPT !.store = [s1 EXCEPT !.buckets[h] = Valid(o)],
                 !.obj[o].handle = h]

\* mutant: the new handle is taken as ++top instead of top++
StorePutPreIncrement(e, o) ==
    LET s == e.store
        reuse == s.head /= -1 /\ ~e.noReuse
        h == IF reuse THEN s.head ELSE s.top + 1
        s1 == IF reuse
              THEN [s EXCEPT !.head = s.buckets[h].next]
              ELSE [s EXCEPT !.size = IF s.top = s.size THEN 2 * s.size ELSE s.size,
                             !.top = s.top + 1]
    IN [e EXCEPT !.store = [s1 EXCEPT !.buckets[h] = Valid(o)],
                 !.obj[o].handle = h]

StorePut(e, o) ==
    LET s == e.store
        reuse == s.head /= -1 /\ ~e.noReuse
        h == IF reuse THEN s.head ELSE s.top
        s1 == IF reuse
              THEN [s EXCEPT !.head = s.buckets[h].next]
              ELSE [s EXCEPT !.size = IF s.top = s.size THEN 2 * s.size ELSE s.size,
                             !.top = s.top + 1]
    IN [e EXCEPT !.store = [s1 EXCEPT !.buckets[h] = Valid(o)],
                 !.obj[o].handle = h]

\* zend_objects_new -> zend_object_std_init: refcount 1, then the store
ObjectsNew(e, o, hasDtor) ==
    StorePut([e EXCEPT !.obj[o] = [NoObj EXCEPT !.st = "live", !.rc = 1,
                                                 !.dtor = hasDtor]], o)

(***************************************************************************)
(* zend_objects_store_del and what it calls                                *)
(***************************************************************************)
Top(e) == e.stack[Len(e.stack)]
Push(e, f) == [e EXCEPT !.stack = Append(@, f)]
Pop(e) == [e EXCEPT !.stack = Front(@)]

\* efree(ptr), then ZEND_OBJECTS_STORE_ADD_TO_FREE_LIST(handle)
FreeToList(e, o) ==
    LET h == e.obj[o].handle
    IN [e EXCEPT !.obj[o].st = "freed",
                 !.store.buckets[h] = FreeLink(e.store.head),
                 !.store.head = h]

\* the second half of store_del: once the refcount is still zero after the
\* destructor, the bucket is invalidated and free_obj (zend_object_std_dtor,
\* which releases every property) is called under a refcount hold
\* mutant: the refcount is not looked at again after the destructor
DelFreeNoRecheck(e, o) ==
    LET e1 == [e EXCEPT !.store.buckets[e.obj[o].handle] = Invalid(o)]
    IN IF e1.obj[o].fc THEN FreeToList(e1, o)
       ELSE Push([e1 EXCEPT !.obj[o].fc = TRUE, !.obj[o].rc = @ + 1],
                 [k |-> "free", o |-> o, del |-> TRUE])

DelFree(e, o) ==
    IF e.obj[o].rc /= 0 THEN e
    ELSE LET e1 == [e EXCEPT !.store.buckets[e.obj[o].handle] = Invalid(o)]
         IN IF e1.obj[o].fc THEN FreeToList(e1, o)
            ELSE Push([e1 EXCEPT !.obj[o].fc = TRUE, !.obj[o].rc = @ + 1],
                      [k |-> "free", o |-> o, del |-> TRUE])

\* the first half: the destructor is called once, under a refcount hold;
\* zend_objects_destroy_object adds one more for the zval it calls it on
StoreDel(e, o) ==
    IF ~e.store.alloc \/ ~IsObjValid(e.store.buckets[e.obj[o].handle])
    THEN e
    ELSE IF e.obj[o].rc /= 0 THEN [e EXCEPT !.obj[o].rc = @ - 1]
    ELSE IF e.obj[o].dc THEN DelFree(e, o)
    ELSE IF e.obj[o].dtor
         THEN Push([e EXCEPT !.obj[o].dc = TRUE, !.obj[o].rc = @ + 2],
                   [k |-> "dtor", o |-> o, del |-> TRUE])
         ELSE DelFree([e EXCEPT !.obj[o].dc = TRUE], o)

\* zval_ptr_dtor of an object: the refcount drops, and at zero the object
\* is handed to zend_objects_store_del
Release(e, o) ==
    IF e.obj[o].rc = 1 THEN StoreDel([e EXCEPT !.obj[o].rc = 0], o)
    ELSE [e EXCEPT !.obj[o].rc = @ - 1]

(***************************************************************************)
(* The request shutdown                                                    *)
(***************************************************************************)
\* zend_objects_store_call_destructors, the body of the loop for handle i
CallDestructorAt(e, i) ==
    LET b == e.store.buckets[i]
    IN IF b.t /= "obj" \/ e.obj[b.o].dc THEN e
       ELSE IF e.obj[b.o].dtor
       THEN Push([e EXCEPT !.obj[b.o].dc = TRUE, !.obj[b.o].rc = @ + 2],
                 [k |-> "dtor", o |-> b.o, del |-> FALSE])
       ELSE [e EXCEPT !.obj[b.o].dc = TRUE]

\* zend_objects_store_mark_destructed: every valid bucket below top
MarkDestructed(e) ==
    LET valid == {h \in 1 .. e.store.top - 1 : e.store.buckets[h].t = "obj"}
        marked == IF e.store.alloc THEN {e.store.buckets[h].o : h \in valid} ELSE {}
    IN [e EXCEPT !.obj = [o \in Objs |->
          IF o \in marked THEN [e.obj[o] EXCEPT !.dc = TRUE] ELSE e.obj[o]]]

\* zend_objects_store_free_object_storage, the body of the loop for the
\* bucket below obj_ptr; with fast_shutdown the standard free_obj is skipped
FreeStorageAt(e, j) ==
    LET b == e.store.buckets[j]
    IN IF b.t /= "obj" \/ e.obj[b.o].fc THEN e
       ELSE IF e.fast THEN [e EXCEPT !.obj[b.o].fc = TRUE]
       ELSE Push([e EXCEPT !.obj[b.o].fc = TRUE, !.obj[b.o].rc = @ + 1],
                 [k |-> "free", o |-> b.o, del |-> FALSE])

(***************************************************************************)
(* The specification.  The script runs while no C frame is open, and a    *)
(* destructor's body runs while its frame is on top of the stack; it sees  *)
(* the objects reachable from the script's variables and from $this.       *)
(***************************************************************************)
RECURSIVE ReachFrom(_, _)
ReachFrom(e, S) ==
    LET T == S \cup UNION {e.obj[a].props : a \in S}
    IN IF T = S THEN S ELSE ReachFrom(e, T)

\* the variables a zend_hash_update or zend_hash_str_del_ind is waiting to
\* store into
Updating(e) == {e.stack[i].key : i \in {i \in DOMAIN e.stack : e.stack[i].k = "upd"}}

\* may the script read or write variable k now?  Without REENTRANT_WRITE
\* a destructor leaves alone the variable whose update or deletion
\* destroyed it
Writable(e, k) == REENTRANT_WRITE \/ k \notin Updating(e)

Visible(e) ==
    ReachFrom(e, {e.sym[k] : k \in {k \in Keys : e.sym[k] /= UNDEF /\ Writable(e, k)}}
                 \cup IF e.stack /= << >> /\ Top(e).k = "dtor" THEN {Top(e).o} ELSE {})

UserRuns(e) ==
    \/ e.stack = << >> /\ e.phase = "run"
    \/ e.stack /= << >> /\ Top(e).k = "dtor"

\* zend_assign_to_variable: the new value is stored, then the old one is
\* released
AssignTo(e, k, o) ==
    IF e.sym[k] = UNDEF THEN [e EXCEPT !.sym[k] = o]
    ELSE Release([e EXCEPT !.sym[k] = o], e.sym[k])

\* zend_hash_del_ind on the symbol table: an INDIRECT slot's CV (or, for a
\* plain slot, _zend_hash_del_el_ex's bucket) is copied to a temporary and
\* set UNDEF, and only then is the destructor run on the temporary
DelInd(e, k) ==
    IF e.sym[k] = UNDEF THEN e
    ELSE Release([e EXCEPT !.sym[k] = UNDEF], e.sym[k])

\* _zend_hash_add_or_update_i with HASH_UPDATE on the symbol table: a new
\* key is added; for an existing key pDestructor runs on the slot itself,
\* and ZVAL_COPY_VALUE(data, pData) stores the new value when it returns
HashUpdate(e, k, o) ==
    IF e.sym[k] = UNDEF THEN [e EXCEPT !.sym[k] = o]
    ELSE Release(Push(e, [k |-> "upd", o |-> o, del |-> FALSE, key |-> k]), e.sym[k])

\* zend_objects_store_init: top 1, free list empty, bucket 0 NULL (the
\* buckets above top are uninitialised, and nothing reads one before
\* zend_objects_store_put writes it); fast_shutdown is fixed for the
\* process (the Zend MM in use and no full table cleanup)
Init ==
    \E fast \in BOOLEAN : eg = [store |-> [alloc |-> TRUE, top |-> 1, size |-> INIT_SIZE, head |-> -1,
                     buckets |-> [h \in Handles |-> Null]],
          obj |-> [o \in Objs |-> NoObj],
          sym |-> [k \in Keys |-> UNDEF],
          stack |-> << >>,
          noReuse |-> FALSE,
          phase |-> "run",
          cursor |-> 0,
          fast |-> fast]

\* $x = new C (with or without __destruct), in memory never used or freed;
\* a handle past MAX_HANDLE is not handed out
New(k, o, hasDtor) ==
    /\ UserRuns(eg)
    /\ Writable(eg, k)
    /\ eg.obj[o].st \in {"none", "freed"}
    /\ (eg.store.head /= -1 /\ ~eg.noReuse) \/ eg.store.top <= MAX_HANDLE
    /\ eg' = AssignTo(ObjectsNew(eg, o, hasDtor), k, o)

\* $k = $x: one more reference, from variable k
Assign(k, o) ==
    /\ UserRuns(eg)
    /\ Writable(eg, k)
    /\ o \in Visible(eg)
    /\ eg' = AssignTo([eg EXCEPT !.obj[o].rc = @ + 1], k, o)

\* unset($k)
Unset(k) ==
    /\ UserRuns(eg)
    /\ Writable(eg, k)
    /\ eg.sym[k] /= UNDEF
    /\ eg' = DelInd(eg, k)

\* an internal function stores a copy of $x under key k of the symbol
\* table with zend_hash_update
Update(k, o) ==
    /\ UserRuns(eg)
    /\ Writable(eg, k)
    /\ o \in Visible(eg)
    /\ eg' = HashUpdate([eg EXCEPT !.obj[o].rc = @ + 1], k, o)

\* zend_hash_str_del_ind on the symbol table: for an INDIRECT slot the
\* destructor runs on the CV itself, and ZVAL_UNDEF(data) follows when it
\* returns; a plain slot goes through _zend_hash_del_el_ex
StrDelInd(e, k) ==
    IF e.sym[k] = UNDEF THEN e
    ELSE Release(Push(e, [k |-> "upd", o |-> UNDEF, del |-> FALSE, key |-> k]), e.sym[k])

\* an internal function deletes global k by its C string
UnsetStr(k) ==
    /\ UserRuns(eg)
    /\ Writable(eg, k)
    /\ eg.sym[k] /= UNDEF
    /\ eg' = StrDelInd(eg, k)

\* the destructor has returned into zend_hash_update, which stores pData,
\* or into zend_hash_str_del_ind, which stores UNDEF
UpdateReturn ==
    /\ eg.stack /= << >>
    /\ Top(eg).k = "upd"
    /\ eg' = [Pop(eg) EXCEPT !.sym[Top(eg).key] = Top(eg).o]

\* $a->p = $b
SetProp(a, b) ==
    /\ UserRuns(eg)
    /\ {a, b} \subseteq Visible(eg)
    /\ b \notin eg.obj[a].props
    /\ eg' = [eg EXCEPT !.obj[a].props = @ \cup {b}, !.obj[b].rc = @ + 1]

\* unset($a->p)
UnsetProp(a, b) ==
    /\ UserRuns(eg)
    /\ a \in Visible(eg)
    /\ b \in eg.obj[a].props
    /\ eg' = Release([eg EXCEPT !.obj[a].props = @ \ {b}], b)

\* __destruct returns: zval_ptr_dtor(&obj) in zend_objects_destroy_object,
\* then the caller's GC_REFCOUNT(object)--; store_del goes on to free
DtorReturn ==
    /\ eg.stack /= << >>
    /\ Top(eg).k = "dtor"
    /\ LET o == Top(eg).o
       IN eg' = IF Top(eg).del
                THEN DelFree([Pop(eg) EXCEPT !.obj[o].rc = @ - 2], o)
                ELSE [Pop(eg) EXCEPT !.obj[o].rc = @ - 2]

\* zend_object_std_dtor releases one property (the loop over the property
\* table; the order of the table is the class's, so any order is taken)
FreeProp(p) ==
    /\ eg.stack /= << >>
    /\ Top(eg).k = "free"
    /\ p \in eg.obj[Top(eg).o].props
    /\ eg' = Release([eg EXCEPT !.obj[Top(eg).o].props = @ \ {p}], p)

\* free_obj returns: the hold is dropped; store_del frees the memory and
\* puts the handle on the free list
FreeReturn ==
    /\ eg.stack /= << >>
    /\ Top(eg).k = "free"
    /\ eg.obj[Top(eg).o].props = {}
    /\ LET o == Top(eg).o
           e1 == [Pop(eg) EXCEPT !.obj[o].rc = @ - 1]
       IN eg' = IF Top(eg).del THEN FreeToList(e1, o) ELSE e1

\* php_request_shutdown -> zend_call_destructors ->
\* zend_objects_store_call_destructors: no handle reuse from here on
CallDestructors ==
    /\ eg.phase = "run"
    /\ eg.stack = << >>
    /\ eg' = [eg EXCEPT !.noReuse = TRUE, !.phase = "dtors", !.cursor = 1]

\* one iteration of the loop, while i < objects->top
CallDestructorsStep ==
    /\ eg.phase = "dtors"
    /\ eg.stack = << >>
    /\ eg.cursor < eg.store.top
    /\ eg' = [CallDestructorAt(eg, eg.cursor) EXCEPT !.cursor = @ + 1]

\* the loop ends; shutdown_executor -> free_object_storage starts at top
FreeObjectStorage ==
    /\ eg.phase = "dtors"
    /\ eg.stack = << >>
    /\ eg.cursor >= eg.store.top
    /\ eg' = [eg EXCEPT !.phase = "free", !.cursor = eg.store.top]

\* one iteration of the backwards loop, while obj_ptr != buckets + 1
\* mutant: obj_ptr is not moved past a bucket
FreeObjectStorageStepStuck ==
    /\ eg.phase = "free"
    /\ eg.stack = << >>
    /\ eg.cursor > 1
    /\ eg' = FreeStorageAt(eg, eg.cursor - 1)

FreeObjectStorageStep ==
    /\ eg.phase = "free"
    /\ eg.stack = << >>
    /\ eg.cursor > 1
    /\ eg' = [FreeStorageAt(eg, eg.cursor - 1) EXCEPT !.cursor = @ - 1]

\* zend_objects_store_destroy
StoreDestroy ==
    /\ eg.phase = "free"
    /\ eg.stack = << >>
    /\ eg.cursor <= 1
    /\ eg' = [eg EXCEPT !.phase = "done", !.store.alloc = FALSE]

\* a fatal error in the script or in a destructor: the bailout abandons
\* every open C frame and zend_objects_store_mark_destructed runs (in the
\* error handler, or in the catch around the destructor loop, which then
\* ends); the shutdown goes on with no destructor left to call
Bailout ==
    /\ UserRuns(eg)
    /\ eg' = IF eg.phase = "run"
             THEN [MarkDestructed(eg) EXCEPT !.stack = << >>, !.noReuse = TRUE,
                                             !.phase = "dtors", !.cursor = 1]
             ELSE [MarkDestructed(eg) EXCEPT !.stack = << >>,
                                             !.phase = "free", !.cursor = eg.store.top]

Done ==
    /\ eg.phase = "done"
    /\ UNCHANGED eg

Next ==
    \/ \E k \in Keys, o \in Objs, d \in BOOLEAN : New(k, o, d)
    \/ \E k \in Keys, o \in Objs : Assign(k, o) \/ Update(k, o)
    \/ \E k \in Keys : Unset(k) \/ UnsetStr(k)
    \/ UpdateReturn
    \/ \E a, b \in Objs : SetProp(a, b) \/ UnsetProp(a, b)
    \/ DtorReturn
    \/ \E p \in Objs : FreeProp(p)
    \/ FreeReturn
    \/ CallDestructors
    \/ CallDestructorsStep
    \/ FreeObjectStorage
    \/ FreeObjectStorageStep
    \/ StoreDestroy
    \/ Bailout
    \/ Done

Spec == Init /\ [][Next]_eg

\* the steps of the C code: a frame returning or moving on, and the
\* shutdown loops
Engine ==
    \/ UpdateReturn
    \/ DtorReturn
    \/ \E p \in Objs : FreeProp(p)
    \/ FreeReturn
    \/ CallDestructorsStep
    \/ FreeObjectStorage
    \/ FreeObjectStorageStep
    \/ StoreDestroy

\* a bound on the depth of the frame stack: a frame holds a reference to
\* its object, so an object has one frame at a time (a destructor frame's
\* hold keeps the refcount from zero, and a free_obj frame comes after the
\* destructor), and an update frame lies directly below one of those or on
\* top
StackBound == 2 * Cardinality(Objs) + 1

\* The C code at depth d goes on whenever the frames above it are done and
\* the user code on top, if any, lets it: every destructor returns, and a
\* destructor that keeps calling nested ones still returns in the end.
\* The frame at depth d is on top only intermittently, so the fairness is
\* strong.
FairSpec == Spec /\ \A d \in 0 .. StackBound : SF_eg(Engine /\ Len(eg.stack) = d)

(***************************************************************************)
(* Properties                                                              *)
(***************************************************************************)
Frame == [k : {"dtor", "free"}, o : Objs, del : BOOLEAN]
            \cup [k : {"upd"}, o : Objs \cup {UNDEF}, del : {FALSE}, key : Keys]
Bucket == {Null} \cup {Valid(o) : o \in Objs} \cup {Invalid(o) : o \in Objs}
              \cup {FreeLink(n) : n \in Handles \cup {-1}}

TypeOK ==
    /\ eg.store.buckets \in [Handles -> Bucket]
    /\ eg.store.top \in 1 .. Cardinality(Handles)
    /\ eg.store.head \in Handles \cup {-1}
    /\ eg.obj \in [Objs -> [st : {"none", "live", "freed"}, handle : Handles,
                            rc : Nat, dtor : BOOLEAN, dc : BOOLEAN, fc : BOOLEAN,
                            props : SUBSET Objs]]
    /\ eg.sym \in [Keys -> Objs \cup {UNDEF}]
    /\ eg.stack \in Seq(Frame)
    /\ eg.phase \in {"run", "dtors", "free", "done"}

\* the handles met following the free list from head
RECURSIVE Chain(_, _, _)
Chain(s, h, fuel) ==
    IF h = -1 \/ fuel = 0 \/ s.buckets[h].t /= "free" THEN << >>
    ELSE <<h>> \o Chain(s, s.buckets[h].next, fuel - 1)

\* The bucket array and the free list threaded through it agree, across
\* puts, dels, nested dels from destructors and the shutdown: below top
\* every bucket is a live object at its own handle, an object in the middle
\* of free_obj, or a free link; the free list starts at a free link, ends
\* at -1 and holds every free link below top exactly once; and size keeps
\* ahead of top.
StoreConsistent ==
    LET s == eg.store
        L == Chain(s, s.head, Cardinality(Handles))
    IN s.alloc =>
       /\ s.top <= s.size
       /\ \A h \in 1 .. s.top - 1 :
             \/ s.buckets[h].t = "free"
             \/ /\ s.buckets[h].t \in {"obj", "inv"}
                /\ eg.obj[s.buckets[h].o].st = "live"
                /\ eg.obj[s.buckets[h].o].handle = h
       /\ \A o \in Objs : eg.obj[o].st = "live" =>
             s.buckets[eg.obj[o].handle] \in {Valid(o), Invalid(o)}
       /\ s.head = -1 \/ s.buckets[s.head].t = "free"
       /\ IsInjective(L)
       /\ Range(L) = {h \in 1 .. s.top - 1 : s.buckets[h].t = "free"}
       /\ (L = << >> \/ s.buckets[Last(L)].next = -1)

\* the references the refcount has to cover: the script's variables (but
\* one whose old value is in the hands of pDestructor), the
\* properties of objects whose memory is not freed, and the holds of the
\* C frames (two for a destructor call, one for free_obj, and the pData
\* a zend_hash_update is waiting to store)
RefsTo(o) ==
    Cardinality({k \in Keys \ Updating(eg) : eg.sym[k] = o})
    + Cardinality({a \in Objs : eg.obj[a].st /= "freed" /\ o \in eg.obj[a].props})
    + 2 * Cardinality({i \in DOMAIN eg.stack : eg.stack[i].k = "dtor" /\ eg.stack[i].o = o})
    + Cardinality({i \in DOMAIN eg.stack : eg.stack[i].k \in {"free", "upd"} /\ eg.stack[i].o = o})

\* No object is freed while anything can still reach it: whatever a
\* destructor does (resurrect $this, drop or create references, delete
\* other objects, write the variables of the symbol table it was called
\* from), the refcount of a live object covers every reference to it, and
\* a freed object is referenced by no variable, property or frame.
NoUseAfterFree ==
    \A o \in Objs :
       /\ eg.obj[o].st = "live" => eg.obj[o].rc >= RefsTo(o)
       /\ eg.obj[o].st = "freed" => RefsTo(o) = 0

\* Once zend_objects_store_call_destructors is done (or a fatal error has
\* marked everything), no object is left whose destructor was never
\* called, objects created by destructors during the loop included: handle
\* reuse is off, so they get handles the loop has yet to reach.
ShutdownDestructsAll ==
    eg.phase \in {"free", "done"} =>
       \A o \in Objs : eg.obj[o].st = "live" => eg.obj[o].dc

\* The shutdown sequence ends with the store destroyed, whatever the
\* destructors do, as long as each of them returns.
ShutdownCompletes == eg.phase /= "run" ~> eg.phase = "done"

====
