------------------------------ MODULE WeakRef -------------------------------
(***************************************************************************)
(* GObject.weak_ref(): the objects of gi/pygobject-object.c that follow a  *)
(* GObject without owning it, composed with the object's life as its       *)
(* closures have it.  A weak reference with a callback owns a reference to *)
(* itself until it has been notified or given up.                          *)
(***************************************************************************)
EXTENDS ObjectClosures

CONSTANT Weak    \* weak references

VARIABLES
    target,      \* self->obj is set
    callback,    \* self->callback is set
    floating,    \* self->have_floating_ref: "set", "clear", or "unset" as the
                 \* memory was when the reference was made
    users,       \* Python code has a reference to it
    exists,      \* its memory has not been freed
    registered,  \* GLib has it among the object's weak notifications
    notifying,   \* pygobject_weak_ref_notify is calling the callback
    notified     \* how often the callback was called

weak_vars == <<target, callback, floating, users, exists, registered, notifying,
               notified>>
all_vars == <<vars, weak_vars>>

WeakInit ==
    /\ Init
    /\ LET no == [w \in Weak |-> FALSE] IN
          /\ target = no /\ callback = no /\ users = no
          /\ exists = no /\ registered = no /\ notifying = no
    /\ floating = [w \in Weak |-> "unset"]
    /\ notified = [w \in Weak |-> 0]

\* Fault: nothing keeps a weak reference that goes out of scope.
NotKept(cb) == FALSE

KeptByItself(cb) == cb

\* pygobject_weak_ref_new: without a callback the flag is left as it was.
New(w, cb) ==
    /\ held > 0 /\ obj \in {"alive", "disposing"}
    /\ ~exists[w] /\ ~users[w] /\ notified[w] = 0 /\ ~target[w]
    /\ exists' = [exists EXCEPT ![w] = TRUE]
    /\ users' = [users EXCEPT ![w] = TRUE]
    /\ target' = [target EXCEPT ![w] = TRUE]
    /\ registered' = [registered EXCEPT ![w] = TRUE]
    /\ callback' = [callback EXCEPT ![w] = cb]
    /\ floating' = [floating EXCEPT ![w] = IF KeptByItself(cb) THEN "set" ELSE "unset"]
    /\ UNCHANGED <<vars, notifying, notified>>

\* pygobject_weak_ref_dealloc if neither Python code nor the reference itself
\* has it: the notification is taken back.
DeallocUnless(w, kept_alive) ==
    /\ exists' = [exists EXCEPT ![w] = kept_alive]
    /\ target' = [target EXCEPT ![w] = @ /\ kept_alive]
    /\ callback' = [callback EXCEPT ![w] = @ /\ kept_alive]
    /\ registered' = [registered EXCEPT ![w] =
                         @ /\ (kept_alive \/ ~target[w])]

Forget(w) ==
    /\ users[w] /\ exists[w]
    /\ users' = [users EXCEPT ![w] = FALSE]
    /\ DeallocUnless(w, floating[w] = "set")
    /\ UNCHANGED <<vars, floating, notifying, notified>>

\* pygobject_weak_ref_call: a new reference to the wrapper.
Deref(w) ==
    /\ users[w] /\ target[w]
    /\ held < MaxHeld
    /\ Collected => LateUse
    /\ held' = held + 1 /\ wrapper' = TRUE
    /\ UNCHANGED <<obj, owned, do_dispose, closure_vars, closures, walks, gc_vars, made,
                   weak_vars>>

\* Fault: unref() leaves the reference the object has to itself.
UnrefKeepsFloating(w) == floating[w]

AfterUnrefFloating(w) == IF floating[w] = "set" THEN "clear" ELSE floating[w]

\* unref(), by Python code that has the reference.  A flag that nobody set may
\* read as set; what is given back then is the reference of that Python code,
\* whose further steps are undefined and not followed.
Unref(w) ==
    /\ users[w] /\ target[w]
    /\ target' = [target EXCEPT ![w] = FALSE]
    /\ registered' = [registered EXCEPT ![w] = FALSE]
    /\ floating' = [floating EXCEPT ![w] = AfterUnrefFloating(w)]
    /\ \E read \in BOOLEAN :
          exists' = [exists EXCEPT ![w] = ~(floating[w] = "unset" /\ read)]
    /\ UNCHANGED <<vars, callback, users, notifying, notified>>

\* pygobject_weak_ref_notify, while the object is disposed of, up to the call.
Notify(w) ==
    /\ obj = "disposing" /\ registered[w]
    /\ \A c \in Closure : ~handler[c] /\ ~Awaited(c)
    /\ \A v \in Weak : ~notifying[v]
    /\ registered' = [registered EXCEPT ![w] = FALSE]
    /\ target' = [target EXCEPT ![w] = FALSE]
    /\ notifying' = [notifying EXCEPT ![w] = callback[w]]
    /\ notified' = [notified EXCEPT ![w] = IF callback[w] THEN @ + 1 ELSE @]
    /\ UNCHANGED <<vars, callback, floating, users, exists>>

\* The callback has returned or raised.
Notified(w) ==
    /\ notifying[w]
    /\ notifying' = [notifying EXCEPT ![w] = FALSE]
    /\ callback' = [callback EXCEPT ![w] = FALSE]
    /\ floating' = [floating EXCEPT ![w] = "clear"]
    /\ exists' = [exists EXCEPT ![w] = users[w]]
    /\ UNCHANGED <<vars, target, users, registered, notified>>

WeakNext ==
    \/ NotFinalize /\ UNCHANGED weak_vars
    \/ /\ Finalize
       /\ \A w \in Weak : ~registered[w] /\ ~notifying[w]
       /\ UNCHANGED weak_vars
    \/ \E w \in Weak :
          \/ \E cb \in BOOLEAN : New(w, cb)
          \/ Forget(w) \/ Deref(w) \/ Unref(w) \/ Notify(w) \/ Notified(w)

WeakSpec == WeakInit /\ [][WeakNext]_all_vars

(***************************************************************************)
(* Properties.                                                             *)
(***************************************************************************)

\* GLib only ever notifies a weak reference that exists, and it exists until
\* its callback has returned ("we should INCREF the weakref object to make it
\* stay alive even if it goes out of scope").  So does one that Python code has,
\* unless it had no callback and unref() read the flag that was not set.
NotifiedAlive == \A w \in Weak :
    /\ registered[w] \/ notifying[w] => exists[w]
    /\ users[w] => exists[w] \/ (floating[w] = "unset" /\ ~target[w])
    /\ exists[w] /\ registered[w] <=> target[w]

\* The reference a weak reference has to itself is given back by whoever ends
\* its use, so that it is freed when Python code forgets it, and its callback
\* is called once at the most.
FloatingGivenBack == \A w \in Weak :
    /\ floating[w] = "set" <=> callback[w] /\ (target[w] \/ notifying[w])
    /\ exists[w] => users[w] \/ floating[w] = "set"
    /\ notified[w] <= 1

\* An object goes only after everybody who follows it heard of it.
NobodyFollowsTheGone == obj \in {"freeing", "gone"} =>
    \A w \in Weak : ~target[w] /\ floating[w] # "set"

\* A weak reference exists as long as Python code has it: unref() gives back the
\* reference taken "when we have a callback" and no other.  A flag that was never
\* set, and reads as set, breaks it.
UsersKeep == \A w \in Weak : users[w] => exists[w]

\* The three together: weak references are notified while they exist, once, and
\* freed when nobody needs them.
WeakRefsKept == NotifiedAlive /\ FloatingGivenBack /\ NobodyFollowsTheGone

(***************************************************************************)
(* The inductive invariant behind WeakRefsKept and ClosuresListed.         *)
(***************************************************************************)
WeakTypeOK ==
    /\ target \in [Weak -> BOOLEAN] /\ callback \in [Weak -> BOOLEAN]
    /\ floating \in [Weak -> {"set", "clear", "unset"}] /\ users \in [Weak -> BOOLEAN]
    /\ exists \in [Weak -> BOOLEAN] /\ registered \in [Weak -> BOOLEAN]
    /\ notifying \in [Weak -> BOOLEAN] /\ notified \in [Weak -> Nat]

NotifiedOnce == \A w \in Weak :
    /\ notifying[w] => callback[w] /\ ~target[w]
    /\ registered[w] => notified[w] = 0

IInv ==
    /\ ClosuresIInv
    /\ WeakTypeOK /\ WeakRefsKept /\ NotifiedOnce
=============================================================================
