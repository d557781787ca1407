# Formal model of PyGObject

TLA+ modules for the parts of PyGObject whose correctness depends on order:
references shared between Python and C, memory owned in turn by caller and
callee, callbacks that re-enter, two main loops nested into each other, classes
that are made when first asked for; and the conversions of values, where what
matters is that every route agrees on width, sign and encoding.
TLC checks the modules on small instances. For nine of the components
(wrappers, their construction, closures connected to objects and weak references,
awaitables, closures C calls, invocation, class statements, the classes of
GTypes, the event loop) TLAPS proves the safety properties that the runs check
for every instance; and for three of them that they implement their abstract
specification. For the conversions of values it proves all of them but one, and
of that one the part that is about integers.

Paths below are relative to the repository. `PROJECT.json` maps each
definition to the lines it models.

## 1. The system

PyGObject lets Python code use C libraries described by GObject
introspection. Python calls go *down* through generated call descriptions into
libffi; C calls go *up* through libffi closures, virtual functions, signals and
GLib sources. All of it happens under one lock, the GIL, which the code drops
around every C call, and every Python object it touches may run Python code
when it is compared, converted or freed.

| Component | State | Operations | What is hard | What makes it correct |
|---|---|---|---|---|
| object wrapper life cycle (`gi/pygobject-object.c`, `gi/pygobject-class.c`) | per GObject: reference count, qdata for the wrapper and the instance data; per wrapper: its object, its count | wrap, rewrap, drop, dealloc and clear, finalize, dispose with `do_dispose`, set attributes and class | the GIL is dropped around the last unref; destructors, weakref callbacks and `do_dispose` run Python code half way | one wrapper per object, exact counts, usable handles, `do_dispose` once and before finalization, instances outlive wrappers |
| awaitable of async calls (`gi/pygi-async.c`) | outcome, callbacks, references, `log_tb` | call, finish, add and remove callbacks, await, `result`, `cancel`, finalize | completion, cancellation, tasks and the closing of the loop in any order; refused callbacks | what a Future promises; no lost wakeup; references released once |
| closures of Python callables (`gi/pygi-closure.c`, `gi/pygi-cache-closure.c`) | block, scope, Python data, the list of finished async closures | create, activate, clear, list, free | activations overlap with frees by the caller, the notify and the next creation | nothing used after free, freed once, data released |
| function invocation (`gi/pygi-invoke.c`, `gi/pygi-marshal-cleanup.c`) | argument block cache; per call: block, cleanup data, progress | match, convert, call, convert back, clean up | nested and concurrent calls share the cache; five exits with different owners | blocks exclusive and big enough; nothing lost or released twice |
| argument marshallers (`gi/pygi-cache-*.c`) | the memory of one argument | convert in, convert out, fail at item *i*, clean up | transfer, kind and direction decide who frees what | the same |
| asyncio event loop (`gi/events.py`, `gi/overrides/GLib.py`) | `_ready`, `_idle_tasks`, two GLib sources, `_may_iterate`, quit functions | `call_soon`, run, iterate, pause, dispatch, `stop` | recursion of main loops, exceptions through C | asyncio never recursive; flags agree with the call stack; handles run |
| SIGINT fallback (`gi/_ossighelper.py`) | callback stack, handler, flag | register, signal, leave | a signal between any two steps of nested levels | callbacks in order, none missed or repeated |
| callable caches, argument matching (`gi/pygi-cache.c`, `gi/pygi-invoke.c`) | per callable: argument caches and their indices | build, bind Python arguments | children of arrays and callbacks renumber the arguments | each C argument is filled from one source |
| object construction (`gi/pygobject-object.c`, `gi/pygobject-class.c`) | per thread: the wrapper an object is meant for; per object: the references its levels took | `__init__`, `GObject.new`, `g_object_new` from C, instance init, `constructed`, hooks | constructions inside constructions; the floating reference; exceptions that pass through C | wrapper and object own each other once; one instance, of its own class |
| properties (`gi/pygobject-props.c`, `gi/pygi-property.c`, `gi/_propertyhelper.py`) | the declaration, the value or attribute | declare, get and set from Python and from C | ranges and defaults at their width; setters that raise | as declared; a refusal changes nothing |
| GObject weak references (`gi/pygobject-object.c`) | object, callback, own reference | create, notify, unref, collect | the reference kept for the callback | given back once, notified while they exist |
| object closures and signals (`gi/pygi-type.c`, `gi/pygi-signal-closure.c`, `gi/_signalhelper.py`) | list of closures per object | connect, emit, invalidate, unwatch, traverse, clear | list edited while walked; collector against C threads | what is listed has its callable; no callable taken apart that a signal reaches |
| GLib.Source in Python (`gi/pygi-source.c`) | callback tuple, source | prepare, check, dispatch, finalize | called from C in any order | references balance |
| flags and enums (`gi/pygflags.c`, `gi/pygenum.c`, `gi/pygi-cache-enum.c`, `gi/_enum.py`) | members by value, storage type | convert, look up the class | unknown values, width, who keeps the class | the same value back; a live class |
| basic types, GValue (`gi/pygi-basictype.c`, `gi/pygi-value.c`, `gi/pygi-argument.c`) | a union or a GValue | convert either way | ranges at their width on two platforms; two tables that must agree | what is taken comes back, what does not fit is refused |
| module, overrides, types (`gi/module.py`, `gi/overrides/__init__.py`, `gi/pygobject-object.c`, `gi/pygenum.c`) | class in the qdata of a GType, attributes of a namespace, lock | look up, make, override, let go | two threads and C code ask at once, while overrides load | one class per type, alive, the same for all |
| class statements (`gi/types.py`, `gi/gimodule.c`, `gi/pygobject-class.c`) | GType, vtables, signals, properties | register, add, hook up vfuncs | shared interface tables; failure half way | C calls the nearest method; a class Python has is whole |
| boxed, struct, pointer, fundamental (`gi/pygi-boxed.c` ...) | the block and whether it is owned | new, copy, free | a lent block outliving its owner | freed once, by its owner |
| repository infos, errors, GtkTemplate, result tuples, docs | mostly caches | read, format | versions | (not modelled, see `PROJECT.json`) |

How they meet: `Invoke` runs the marshallers; the closure marshaller creates
closures, or hands an awaitable to C; object marshallers create wrappers, for
which they look up a class, which may import a module;
asyncio schedules what the awaitable queues and is itself driven by sources
implemented in Python; constructing an object sets properties and so converts
values; `MainLoop.run` registers the SIGINT fallback.

## 2. Modules

| Module | Models | Extends |
|---|---|---|
| `ObjectWrapper` | wrappers, instance data, dispose | |
| `PersistentInstance` | what Python code may rely on: an instance belongs to the GObject (abstract) | |
| `Construction` | the stack of constructions in progress; implements `PersistentInstance` too | |
| `ObjectClosures` | the closures connected to one object, their list, the collector | |
| `WeakRef` | GObject weak references, with the life of their object | `ObjectClosures` |
| `Awaitable` | `gi.Async` from call to finalizer, tasks, ready queue | |
| `Future` | what an awaitable promises its waiters (abstract) | |
| `CallbackClosure` | closures, handlers, the free list | |
| `Marshal` | ownership of one argument, as operators | |
| `Invoke` | calls, argument blocks, cleanup | `Marshal` |
| `SigintFallback` | registration and signal, as operators on its variables | |
| `EventLoop` | the call stack of nested loops, both sources, stop | `SigintFallback` |
| `CallableInfo` | a callable as the typelib describes it, and the binding and results that promises (abstract) | |
| `CallableCache` | the cache of a callable, the binding of a Python call, what a Python callable gets | `CallableInfo` |
| `BasicTypes` | integers, floats, characters, strings and the union they travel in, as operators | |
| `EnumFlags` | enumerations and flags, as operators | `BasicTypes` |
| `GValues` | GValues of every kind of type, as operators | `EnumFlags` |
| `PropertySpecs` | what the declaration of a property makes, as operators | `GValues` |
| `Values` | a place a value goes into and comes out of | `PropertySpecs` |
| `TypeRegistry` | which Python class stands for a GType | |
| `PythonClass` | class statements, their GTypes and vfunc tables | |
| `Classes_proofs` | the theorems about the two before | `PythonClass`, `TypeRegistry` |
| `Closures_proofs` | the theorems about `WeakRef` and `CallbackClosure` | both |
| `MC*` | model values, signatures, symmetry | |
| `*_proofs` | the other theorems of section 4 | the module they are named after |

Some definitions are marked *Fault* in their comment. They are not part of any
specification: each is a plausible mistake in the definition that follows it,
and shows that the property named with it in `PROJECT.json` would notice.

### ObjectWrapper

An action is one section run under the GIL, or one call made without it. A
wrapper block goes through the phases `free`, `live`, `finalizing`
(`pygobject_finalize` runs `do_dispose`), `weakrefs` (inside
`PyObject_ClearWeakRefs`), `unref` (`pygobject_clear` has dropped the key and is
in `g_object_unref` without the GIL), and back to `free`; memory is used again.
`dispose[o][k]` is where disposer `k` is in `pyg_object_dispose`: the thread
that drops the last reference, the finalizer of the wrapper, or any thread
calling `g_object_run_dispose`. `inst_data` is `PyGObjectData`. `ref_count` is
kept as the code keeps it; who owns the references is recorded separately
(`cref`, `floating`, the wrappers, the disposers), so that `RefCountExact`
compares two independent counts. `disposed` is a history variable.

`RewrapDying` tells whether somebody asks for an object while the weak
references of its wrapper are being cleared. The code does not defend against
it (section 5), so the run and the proofs assume `FALSE`; with `TRUE` TLC finds
`HandlesUsable` violated.

### Construction

`stack` has one frame for each `g_object_new_with_properties` in progress on the
thread: who called it (`by`: `__init__`, `GObject.new()` or C), where it is
(`at`), and how many of the classes registered by Python had their
instance_init (`level`). GObject runs these from the root class outward, C
ancestors first (`ancestors`), then one `pygobject__g_instance_init` per Python
class (`InstanceInit` to `Inited` or `InitReturns`), then construct properties
(`CallSetter`) and `constructed`. Whenever Python or C code runs (`CodeRuns`) it
may construct another object, be handed one that is being constructed, or own
it. `construction` is the thread-private `pygobject_construction_wrapper`,
`init_refs` the qdata `pygobject_instance_init_ref_count`. What a finished
object's wrapper goes through is in `ObjectWrapper`; here deallocation is one
step.

`EarlyUse` and `KeptByNew` name what the code does not hold up against (section
5); the run sets both to `FALSE`. The model has one running `__init__` per
instance; a container that C code puts a new object into does not let go of the
formerly floating reference before the construction ends; once `constructed`
returned, only setters run other code.

### ObjectClosures and WeakRef

One GObject with the closures connected to its signals. `stage` takes a closure
through the three steps of an invalidation, between which Python code runs:
notifiers (`Invalidating`, `Unwatch`), the Python references (`DropPython`), dead
(`Invalidated`). `closures` is `data->closures`, `tmp` what `pygobject_data_free`
has left to walk; the list is emptied before, or not in a build with `NDEBUG`. An
extension lets go of a closure at any time, also while the list is walked;
`released` names the closures it gave up as their last owner. `disconnect_by_func`
and its like search the list one comparison at a time (`search`), and Python code
runs in each; a search whose link was freed (`lost`) is not followed further.
`gc` is CPython's collector: it visits the closures only if the object's count
says the wrapper is its only owner (`Visited`), then runs finalizers, then
clears. `WeakRef` adds the weak references of
`GObject.weak_ref()`, with the reference each has to itself: `floating` is the
flag for it, which is `"unset"`, that is reads as either, where it was never
written. `LateUse` is the one assumption (section 5).

### Awaitable

`op` is the C operation. `ob_refcnt` is computed by the actions, its owners are
separate. `pygi_async_finish_cb` is one action per round of its loop, split
where `call_soon` runs Python code. `task` and `queue` model `asyncio.Task` and
the ready queue as far as `gi.Async` meets them: they are external. A loop that
is closed, a `Bad` callback and debug mode make `call_soon` raise. Two
constants stay `FALSE` in the run because the code does not hold up otherwise:
`Reentrant` (a callable's `__eq__` or what `call_soon` runs edits the list that
is being walked) and `KeepFuture` (the exception handler keeps the awaitable
that is being finalized).

### CallbackClosure

`block` is the memory of a closure, `function` whether its Python data is there,
`callable` whether C may still call it, `holder` which part of the call that
created it has it. `Make` sweeps `async_free_list` first, as
`_pygi_make_native_closure` does. The fact that `Py_CLEAR` runs Python code makes
freeing two steps. `ret` is what C finds as the return value: a callable that
raises has it zeroed, one that returns has it written, or not if the conversion
fails. `NotifyInUse` turns on a destroy notify inside the callback (section 5).
The two early returns of the handler have no action: once Python has ended
(`gi/pygi-closure.c:523`) there is nothing left to model, but for the return value,
which C finds unwritten; a closure whose `cache` is `NULL` (line 531) is one that C
gave back and still calls.

### Marshal and Invoke

Memory is a set of chunks, `<<argument, side, position>>`. `Marshal` has one
operator per marshaller. Each says what a conversion that stops at item *f*
has allocated (`had`), has released itself before it returned (`gone`) and has
left as cells of cleanup data (`cells`: what `destroy` releases once the call was
made, and `destroy_failed` otherwise). `Invoke` runs them: `MarshalIn` and
`MarshalOut` are one action per argument because every conversion may run Python
code, and `pc` follows `pygi_invoke_c_callable` with every early exit. `slot` is
`free_arg_state`. What the callee takes is decided by the annotations,
independently of what the code releases; `ReleasedInError` and `Untold` list, by
kind of argument and outcome, what the code is known to release too often or to
lose (section 5), and `MemoryBalanced` excepts exactly that. Kind `plain` is
whatever has no memory of its own: also `None` for a pointer, and a `GLib.Value`
passed for a `GValue`, which C borrows (`gi/pygi-cache-struct.c:117`). `Annotated` says
what annotations are like.

### CallableInfo and CallableCache

`callable` is the description (`GICallableInfo` and the calling context), `cache`
the `PyGICallableCache` with one record per argument: `meta` is `meta_type`, `dir`
the marshalling directions, `py` is `py_arg_index`, `info` whether the argument's
`GIArgInfo` is there (it gives the name and `NULL`-ability), `pointer` whether it is a
`gpointer`. `at` walks over the arguments as
`_callable_cache_generate_args_cache_real` does: `CacheReturn`, then for each
argument one of `CacheClosure` (a callback's own user data), `CacheChild` (filled
in by its owner), `CacheArray`, `CacheCallback` or `CacheArg`; `Ready` is the reverse
loop after them and, for closures, the rest of `pygi_closure_cache_new`.
`LengthSetup` and `CallbackSetup` are what owners do to the arguments they own.
`Abort` is the assertion on user data that Python gets already
(`gi/pygi-cache-closure.c:275`), after which there is only `at = Aborted`. In a build
without assertions `to_py_args` would keep the cache that line 280 frees, and
`gi/pygi-cache.c:518` read it; that is not modelled.

`Bind` computes the tuple that `_py_args_combine_and_check_length` combines, with
`next_python_argument` and the `skipped_args` it carries from one argument to the
next as a fold; an argument no number is found for is the outcome `crashed` (the
assertion there). `HandleClosure` computes the arguments of a Python callable.
`Return` ends a call; the cache stays.

`CallableInfo` says what is promised, without numbers: `Shown` are the arguments
Python passes, `Accepts` and `Promised` bind a call to them as Python binds a
signature, `CallableArgs` is what a callable gets. `WellFormed` states what
annotations are assumed to be like; section 6 names what it leaves out.

### BasicTypes to Values

The conversions are pure functions and are written as operators with the names
of the C functions: a result is `Ok(v)` or `Refused(exception)`. Widths are
scaled (a byte has 3 bits, then 4, 5 and 6), so that every type is still
strictly wider than the one before and TLC can enumerate the edges of all; a
`long` is 5 or 6 bits wide, which is the platform (`longbits`). A float counts
halves. A string is a sequence of code points, of which 0 is NUL, those below 4
are ASCII, and a negative one is a byte that is no UTF-8. `Store` and `Load` are
the writes and reads of the members of `GIArgument`, so that reading another
member than was written gives what the machine gives.

`Values` is a machine around them: `decl` is one place (an argument, an entry
of a hash table, a GValue, a property that is introspected, known only by its
GParamSpec, or defined in Python), `held` what C holds there, `attr` the
attribute behind a property of Python, `given` the object it was set to, `did`
the last operation. `StandsFor` is the reference definition: what an object
means as a value of the declared type, said without the conversions.
`PropertySpecs` adds the declaration of a property both ways.

### TypeRegistry

`named` is the class in the qdata of a GType, without a reference; `dict` and
`over` are the attributes of the introspection module and of the module with its
overrides; `lock` is the lock of `IntrospectionModule.__getattr__`. A thread's `at`
is where it is in a lookup, whether it came from Python (`Attribute`) or from C
code that wraps a value (`pygobject_lookup_class`, `pyg_enum_from_gtype`), and what
it returns to: a lookup of a class makes its parents first. `Loader` imports the
namespace while the other thread works. `Kind` says where a type comes from.
`refs` is the references to each class, but for those of its own members; a thread
refers to the class it carries (`w`) and to the one it found for a parent
(`bases`). `mro` has the classes for the same type that a class derives from.
`Collect` is the collector, `held` what the program refers to, `handed` and
`overlap` are history variables.

### PythonClass

Classes are numbered by their statements. `pyg_type_register` is the whole of
the C part of one (a name, the GType, the tables, interfaces, signals,
properties), which may stop at any of them with the GType registered;
`SetupVfunc` then treats one method, `Defined` ends the statement. `slot` is the
function in each table. A class structure is its own; an interface that a class
does not list shares the parent's (`Holder`).

### EventLoop and SigintFallback

The state of the one thread is `stack`: Python code, levels that run a loop
(`MainLoop.run`, `run_forever`, `Gtk.main`, `Gio.Application.run`), single
iterations, and the two dispatches (`select` is asyncio's `_run_once`, `idle` is
`_glib_idle_dispatch`). `RunLoop` is `register_sigint_fallback` and `running()` up
to the start of the C loop, `Begin` the start (so `stop` and SIGINT can come in
between), `Leave` the way out of all the `finally` blocks. Timers and file
descriptors only make handles ready, which is what `CallSoon` does. `Raise` is a
`KeyboardInterrupt` that passes through a dispatch.

## 3. Runs

| Run | Instance | Distinct states | Shows |
|---|---|---|---|
| `wrapper_two` | 2 objects (Python and C type), 3 blocks, 2 values, 2 classes, 1 extra disposer | 1,049,077 | handles usable, one wrapper, exact counts, `do_dispose` once, with a live wrapper, before finalization, and the refinement of `PersistentInstance` |
| `construct` | 3 objects (two Python levels, a template, a C class; two float), 3 blocks, 3 constructions deep | 1.88 million | object and wrapper own each other once (`ConstructionBalanced`), and the refinement of `PersistentInstance` |
| `follow` | 2 closures of 3 made, 2 weak references, 2 references to the wrapper | 2.93 million | the list is sound, nothing in use is cleared, weak references are kept and given back |
| `values` | 130 places, 60 objects, 2 platforms | 193,413 | what is taken comes back; numbers are taken exactly in range; declarations hold; refusals change nothing |
| `registry` | 2 threads, 8 types, 5 programs, 3 classes per type | 121,128 | one class per type, alive, the same for Python and C; lookups end |
| `vfunc` | 4 vfuncs, 2 interfaces, up to 5 statements, 3 programs | 775,129 | C calls the nearest method; failures have a reason; classes are whole |
| `async` | 2 tasks, 2 callbacks of which one is refused, 2 registrations | 26,628 | references and entries exact, no lost wakeup, refinement of `Future`, report exactly when nobody got the exception, cancelling resumes |
| `closure` | 2 blocks, 2 activations, 4 creations | 112,588 | no use after free, freed once, bare list, data released |
| `invoke` | 2 calls, 4 blocks, cached sizes below 3, 9 signatures | 2.01 million | blocks exclusive and fitting, nothing lost or released twice but what is named, borrowed memory read in time |
| `callable` | 14 families of 3 to 5 arguments in every order; 5 positional, 2 keyword arguments | 81,424 | calls bound, results listed and callables served as promised, or building the cache aborts, for exactly the callables named |
| `loop` | 2 handles, 2 priorities and the default, 3 loops, 5 calls deep | 1,035,960 | asyncio never recursive, flags agree with the stack, stop and SIGINT in order, handles run |
| `closure_inuse` | as `closure`, with a destroy notify inside the callback | | the finding of section 5 |

Several properties are conjunctions of named parts: `RefsBalanced` of `TypeOK`,
`RefExact` and `ReleasedOnce`; `ClosuresOwned` of `TypeOK`, `FreedOnce` and
`ListedBare`; `BlocksOwned` of `TypeOK`, `BlockExclusive` and `BlockFits`;
`MemoryBalanced` of `NothingOver` and `NothingLost`; `LoopConsistent` of `TypeOK`,
`NeverRecursive`, `FlagsTrue` and `HandlesThere`; `SignatureKept` of `TypeOK`, `BoundAsDeclared` and
`ResultsAsDeclared`; `ValuesKept` of `ComesBack` and `AttributeAsC`; and so on. The
parts have comments of their own.

Why the bounds are enough to be interesting:

* *Wrappers.* Two blocks let an object be wrapped again while its old wrapper
  is still in `unref`; three let two objects do so and contend for memory. One
  reference of Python and one of C, next to the wrapper's and the floating one,
  give every order in which owners of different kinds let go; more of one kind
  is covered by the proofs, which hold for every bound.
* *Construction.* Two levels of Python classes tell what is done once per
  object from what is done once per class; a floating class with a template and
  one without Python cover the other ways in. Three constructions inside one
  another are one more than the thread-private wrapper can tell apart. One
  reference of each owner is enough to show an object released too early.
* *Closures and weak references.* Two closures let one be invalidated while the
  other is walked; a third creation reuses a block that was freed.
* *Values.* The places are every kind of type a conversion has a case for; the
  numbers are the edges of every scaled width and their neighbours.
* *Types.* A program uses one set of types of which one is made on the way to
  another; the types do not meet otherwise, so one run over all at once would
  only multiply. Two threads are one more than the lock lets in. Three classes of
  one type are one that is looked up, one that overrides it, and one that the other
  thread derives from what it had read before.
* *Class statements.* Three statements give a class, its child and its
  grandchild or sibling. `Tries = 5` stands for 1000 names: five statements
  use up the names and one more fails.
* *Awaitable.* A task can be woken by another's callback; one refused callback
  before and after an accepted one; adding twice covers a callback registered
  twice and one registered after completion.
* *Closures.* With two blocks and four creations a block is freed, used again
  and freed again while the other is active; both activations may be of one.
* *Invoke.* `NMax = 3` makes argument counts 1 and 2 cached and 3 not. Two calls
  are enough to contend for a slot; four blocks are as many as two calls and
  two slots can hold. The signatures cover every kind, direction and transfer
  whose conversions differ; two items per container (two pairs in a table)
  tell "before the failing one" from "the failing one".
* *Callables.* What can go wrong is the order of owners and what they own, so
  each family of arguments is taken in every order that is well formed. Five
  arguments hold a callback with all it owns next to an array with its length.
  Two keywords tell an argument named twice from one named once; five
  positional arguments are at least one more than most callables take.
* *Event loop.* `MaxDepth = 5` allows a loop in a dispatch in an iteration in a
  loop, with a third loop on top. A callback makes one call, and a loop told to
  quit dispatches at most one source more; the program at the bottom is not
  limited.

Deadlock is checked in `invoke` and `registry`, where there is always another call
or lookup; `callable` ends where an assertion fails. In the other runs the system may stop: all objects
finalized, places declared, statements, creations or weak references used up,
an awaitable gone, handles run.

### Fairness

* `async`: the finish callback goes on, the loop runs its handles, and an
  operation that is cancelled ends (what `GCancellable` asks of every
  operation). An operation that is not cancelled may run forever.
* `closure`: callables return and C calls return.
* `registry`: a thread inside a lookup goes on; the processor is shared fairly
  and imports end. Nobody is obliged to look anything up.
* `loop`: weak fairness of the thread's own steps; strong fairness of the two
  dispatches, because GLib does not starve a source that is ready each time it
  polls; weak fairness of quitting a loop that a callback runs, as asyncio cannot
  go on below it. `HandleRuns` does not need a stopped loop to run.
* The other runs check safety only and assume no fairness.

## 4. Proofs

TLAPS checks the theorems below for every value of the constants, under the
assumptions the modules state of them and those named here. A proof module has
one lemma per action (`...Step` or `...IInv`), a theorem `Invariance` (or the
lemma `IInvHolds`) for the inductive invariant `IInv`, and short theorems that
derive each property from it; for `TypeRegistry` these are `RegistryKept` and
`RegistryInv`, for `CallbackClosure` `CallbackInvariance` and `CallbackInv`, and
`Values` has one for each property. TLC checked each invariant on the instance of its run before it was
proved.

| Module | Theorem | States | Assumes |
|---|---|---|---|
| `ObjectWrapper_proofs` | `TypeCorrect`, `WrapperUnique`, `NoLeakNoDoubleUnref`, `HandlesStayUsable`, `DisposeHasWrapper` | `[]TypeOK`, `[]OneWrapper`, `[]RefCountExact`, `[]HandlesUsable`, `[]DisposeSeesObject` | `RewrapDying = FALSE` |
| | `WrappersImplementInstance` | `InstancePersists` (refinement) | the same |
| | `DisposesInTime` | `DisposedInTime` (action property) | the same, and at most one `Runner` |
| `Construction_proofs` | `Balanced` | `[]ConstructionBalanced` | `~EarlyUse`, `~KeptByNew` |
| | `ConstructionImplementsInstance` | `IsInstance` (refinement) | the same |
| `Closures_proofs` | `ListKept`, `WeakReferencesKept` | `[]ClosuresListed`, `[]WeakRefsKept` | |
| | `CollectsUnreached` | `[]ClearedNotCalled` | `LateUse = FALSE` |
| | `UsesAlive`, `EachFreedOnce` | `[]UsedAlive`, `[]ClosuresOwned` | `~NotifyInUse` |
| `Awaitable_proofs` | `BalancesRefs`, `KeepsWakeups` | `[]RefsBalanced`, `[]NoLostWakeup` | `~Reentrant`, `~KeepFuture` |
| | `ReportsUnretrieved` | `ReportedUnlessRetrieved` (action property) | the same |
| | `ImplementsFuture` | `IsFuture` (refinement) | the same |
| | `WithoutType` | what `remove_done_callback` leaves of the array | |
| `Invoke_proofs` | `SharesBlocks`, `ReadsInTime` | `[]BlocksOwned`, `[]ReadBeforeFree` | `SignatureAssumption` |
| | `BalancesMemory`, `AccountsKept` | `[]MemoryBalanced`, and its invariant `[]Accounts` | the same and `AnnotationAssumption` |
| `Classes_proofs` | `NearestCalled`, `ReasonToFail`, `ReadyClassIsWhole` | `[]CallsNearest`, `[]FailsForReason`, `[]ReadyIsWhole` | |
| | `NamedStayAlive`, `TypesHaveOneClass`, `NamespaceAndGTypeAgree` | `[]NamedAlive`, `[]OneClass`, `[]NamespaceAgrees` | `KindOfTypes` |
| | `RegistryKept` | their invariant, `[]RegistryInv` | the same |
| `EventLoop_proofs` | `Consistent`, `StopReaches`, `SigintOrdered` | `[]LoopConsistent`, `[]StopPassedOn`, `[]SigintInOrder` | |
| `Values_proofs` | `RefusedConversionLeavesAlone` | `RefusedLeavesAlone` (action property) | `PlacesAssumption`, `ObjectsAssumption`, `EnumsAssumption` |
| | `NumbersTakenByRange`, `DeclaredAsAsked` | `[]TakesItsRange`, `[]SpecAsDeclared` | the same, and `FloatsAreNarrower` |
| | `IntegersKept` | `ValuesKept` for numbers that a place of an integer type was given | the same |

The assumptions that a Boolean constant is `FALSE` are not conveniences: with
`TRUE` the code does not have the property, and section 5 says where. They
are the values the runs use. `SignatureAssumption` of `Invoke` says that some
signature has the most arguments, and that what a result points into is an argument
that Python gives and that its conversion keeps. `AnnotationAssumption` says what
annotations can be: only structs and arrays are allocated by the caller, only
containers are transferred without their items, and what comes from C fails to
convert as a whole or at one of its items. `KindOfTypes` of `TypeRegistry` says that
types and threads are finitely many, and that objects outside any typelib derive
from an introspected class. `PlacesAssumption` of `Values` says that a GType has a
name of its own, that a `gunichar` is a `guint` to GObject and that only arguments
and entries of hash tables have 16 bits or are file names, and that a member of
an enumeration has one of its values; `ObjectsAssumption` that numbers are
numbers, and the bounds of a property finite; `EnumsAssumption` that the values of
an enumeration are `gint`s, stored in an integer. `FloatsAreNarrower` says what the
largest floats are in the scaled widths.

### How the invariants work

*ObjectWrapper.* `OneWrapper` alone says nothing of the Python counts that
decide when a wrapper is torn down, so `IInv` adds `Lifetime` (an object is alive
exactly while its count is positive), `KeyPointsBack` (the qdata never names a
block that has moved on), `Phases` (which fields a block has in which phase, and
that nobody holds one that is not usable), `DataBound` and `FramesLive` (dispose
has instance data and a wrapper), `PyRefCountExact` (a wrapper's count is
handles, `do_dispose` frames and the finalizer's resurrection), `FinalizerFrame`
and `LastUnref` (both are where the object says they are). Exact counts give
that a block with a frame or a handle is not deallocated (`ReferencedUsable`),
hence that a frame's object has an owner, hence that it is alive; an object at
count zero has no owner at all (`NoOwners`), so finalizing it disturbs nobody. The
counts are cardinalities of sets of owners; `RefCountStep` and `PyRefCountStep`
reduce each step to the object or block it touches. The refinement needs that
instance data is there exactly from binding to finalization (`DataLifetime`), and
maps each action to one step for one object (`OneMaps`) or to none
(`Unchanged`). `DisposedInTime` also needs who may be about to call `do_dispose`
(`DisposeOnce`), of which there is one if only one thread runs dispose.

*Construction.* The invariant is said frame by frame: how far a construction
has come (`Progress`), whether its object has met its wrapper (`Meeting`), which
references its levels took (`Taken`) and who owns the object meanwhile
(`Owned`); frames are of different objects and instances (`Apart`). The
cardinalities of `RefCountExact` become flags (`ObjectOK`, `WrapperOK`), because at
most one frame is of an object. Each step concerns one object and one wrapper
(`Only`), which leaves all the others as they are (`OthersKept`). What holds the
nesting together is `ConstructionOK`: the thread-private wrapper is that of the
innermost `__init__` that still waits for its object, and whatever was begun
since is of no Python class; so the instance_init that takes it is that of its
own object. For the refinement, Python has one reference at the most to an
instance without an object (`Unshared`): the one that `__init__` was called with.

*ObjectClosures and WeakRef.* `pygobject_data_free` walks a copy of the list, and
notifiers and destructors run Python code on the way: `WalkedLive` says that what is left to walk
is what is left to invalidate, or was let go of by an extension meanwhile. A freed object has no users (`FreedAlone`), which
needs that weak references are told before it is freed. `CollectedAlone` is a
second invariant, under `LateUse = FALSE`: nobody has a way to an object whose
callables the collector takes apart.

*Awaitable.* `Progress` relates outcome, operation, array and position in
`pygi_async_finish_cb`; `FuncRefsExact` counts the references per callable, as the
array may have one twice; `Scheduled` keeps a callable whose `call_soon` ran
between queue and array, so that `NoLostWakeup` survives the step that releases
the entry; `LogKept` says when `log_tb` is set. That `Awaitable` implements
`Future` follows action by action from the same invariant.

*CallbackClosure.* `FreedOnce` is a cardinality of a set of four possible owners
and follows from the stages of a closure: with the marshaller, handed over
(`HandedOver`), callable or in a handler or on the list but only one of these if
it is async (`AsyncStages`, `AsyncOnce`, `ListedDone`), ended with the call or
with the notify (`Ends`).

*Invoke.* A block has one holder, a call or a slot of the cache, and none is
forgotten (`OneHolder`); who has one and when is `BlockWhileCalling`. `ArgsKept`
says that what arguments were converted to stays with the call or its callee
until the results were made, whatever other calls do meanwhile.
For `MemoryBalanced`, `Accounts` gives a balance for each argument and each result
in each phase (`PlaceAccount`): what the call holds of it, what the Python result
answers for, and the cells that its conversion left in the block. Lemmas about
`Marshal` alone say that the cells of one conversion tell of what it holds:
no two of the same, of nothing else, and of all (`WholeArg`, `FailedArg`,
`WholeResult`, `FailedResult`, each but for the exceptions). Places and sides are
apart (`NamedSeparate`), so running all cells of a call releases what it holds,
once (`CleanFromAccount`, `CleanToAccount`). A step writes the block of its own
call only, so it leaves the balance of the others alone (`OthersAccount`).

*PythonClass.* `NearestSoFar` is `CallsNearest` while methods are still hooked
up, in the order the code takes them. A table is written by its owner and by
classes that share it, which come later than the owner; so a method found in a
table is the nearest or comes from a class in `Sharing`. `NamesApart` gives
that a GType's name is that of one statement.

*TypeRegistry.* `Counted` says that no class has fewer references than the GType
that names it, the two namespaces, the program, threads and the classes derived
from it have (`References`), and `GoneUnowned` that a class that was collected has
none of them. A GType names most classes with a reference, so these are alive;
for enumerations `EnumKept` says who else keeps them: the namespace, or the thread
that makes the class and has not stored it yet. `OneClass` and `NamespaceAgrees`
need to know which class is the last (`InOrder`), and that each derives from those
before it (`InLine`). That is one argument for each kind of type: an enumeration is
only made under the lock, when its GType names none (`OneEnum`); so is a class,
which an override may then replace (`ObjectOrder`); a root class derives from what
its GType names, which is compared under the lock with what was read before, until
an override comes in between (`RootOrder`); without a lock or a GType, the first
class is the only one if nobody else looked for it meanwhile (`MadeAlone`, and
`RootAlone` for roots that are overridden). That is what `overlap` is for: the
races it excuses are the ones of section 5. A step is first brought to one of those
in `Elementary` (`Steps`), and each of these keeps both halves of the invariant
(`StepAlive`, `StepOne`).

*EventLoop.* `StackShaped` says which calls can be below which and that at most
one keeps asyncio from being iterated; `LevelsOrdered` that those entered after
`stop()` are the innermost and no two levels have the same loop; `BaseFirst` that
the outermost registered level has installed the handler. Each step changes the
top of the stack, so the lemmas say what that does to the subsequences of levels
and of registrations; the flags then follow from the stack alone.

*Values.* `RefusedLeavesAlone` needs no more than what each conversion leaves behind
when it fails (`BasicLeaves`, `ConversionLeaves`) and that a GValue keeps its type or
is unset (`HeldInv`). For `TakesItsRange`, every conversion of a number to a C
integer is brought to one comparison with the range of its type (`IntegerTakes`,
`FromPyTakes`, `GValueTakes`), and those of enumerations to their values
(`EnumTakes`, `FlagsTake`); that the tag a typelib has for a type has the same range
as the type is `TagsOfIntegers`, on each platform. `RangeInv` adds that a GValue of an
integer type still has that type. `DeclaredAsAsked` says what `create_property`
parses of each bound (`ParsedIntegral`, `ParsedFloating`) and that no bound that
`GObject.Property` lets pass is cut (`PropertyAsDeclared`). For `IntegersKept`,
`WayInv` says where each kind of place carries the number it was given
(`CarriedIn`) and what the last report said of it (`Says`). The arithmetic is in
`StoreLoad` (a member of the union that is read as it was written) and `ThroughHash`
(a number that an `int` has survives the pointer); `ArgumentMember` says that the
member a property is set from has the width of the one that was written, though it
goes by another name; `ParameterStored` the same for the parameter of a signal,
`ReadsBack` for the attribute of a property that C reads.

### What stays with TLC

* Liveness: `DataReleased`, `CancelResumes`, `HandleRuns`, `LookupsEnd`. The prover
  treats neither fairness with `ENABLED` nor leads-to over changing sets.
* The rest of `ValuesKept`: strings, containers, enumerations, floats and
  pointers. It compares what is selected from sequences with a reference
  definition, and is about objects that mean something as values of a type; `Given`
  in `MCValues` lists such, but there is no condition on objects in general that
  says so without repeating the conversions.
* `SignatureKept` and `CallableGets` of `CallableCache`: they compare folds over the
  arguments of a callable with a reference definition; what a fold computes for
  every input needs induction over an operator, which the provers cannot
  instantiate.

## 5. Where the code and its words differ

One run ends in a violation:

* `closure_inuse`: the destroy notify inside a callback frees the closure the
  handler is using (`gi/pygi-closure.c:550`).

The rest was seen while modelling and has no run of its own. Where a constant or
an exception in a property stands for it, it is named; five properties that are
stated in the modules are in no configuration, because TLC finds each violated
on the instance of the run named with it. The first groups break a property, the
others are smaller.

*Stated, and not kept.*

* `ReturnWritten` (`closure`): a value that does not convert leaves the C return
  value unwritten, as `success` is `TRUE` before it is or-ed
  (`gi/pygi-closure.c:551`); `NEWS:1482` says that return values are cleared when
  an exception occurs.
* `WalkMeetsClosures` (`follow`): `pygobject_data_free` keeps a link, but not the
  closure it is of; an extension that lets go of that closure during the walk has
  it freed (`gi/pygobject-object.c:142`). `ClosuresListed` excepts closures in
  `released`.
* `SearchKeepsLink` (`follow`): `gclosure_from_pyfunc` keeps a link while `__eq__`
  runs, which may disconnect that closure and so free the link
  (`gi/pygobject-object.c:70`).
* `UsersKeep` (`follow`): without a callback `have_floating_ref` is never written,
  and `unref()` reads it (`gi/pygobject-object.c:1973`): it may drop the reference
  of the Python code that calls it. `WeakRefsKept` excepts what follows.
* `NeverAborts` (`callable`): in a callable that C calls, the user data of a nested
  callback has direction `TO_PYTHON`; if it comes before the callback, or two
  share it, building the cache ends in the assertion at
  `gi/pygi-cache-closure.c:275`, where user data "should never be (out)".
  `CallableGets` says that it ends so for these callables and for no other.

*Wrappers and construction.*

* `pygobject_new_full` returns a wrapper under deallocation
  (`gi/pygobject-object.c:602`), although its documentation promises a
  reference to the wrapper (`RewrapDying`).
* `call_do_dispose` is read before the GIL is taken
  (`gi/pygobject-class.c:649`), so two threads call `do_dispose` twice
  (`Runner = {r1, r2}` violates `DisposedInTime`).
* C code that runs between `g_object_new` and the first Python instance_init
  and creates an object of another Python class makes that object take the
  wrapper that waits in `pygobject_construction_wrapper`
  (`gi/pygobject-class.c:747`); one that shows the object to Python gives it a
  second wrapper, against `gi/pygobject-object.c:286` (`EarlyUse = TRUE` violates
  `IsInstance` and `ConstructionBalanced`).
* `GObject.new()` returns a wrapper that exists already without a reference of
  its own, and keeps the object's first reference
  (`gi/pygobject-object.c:2149`); with an exception pending it unrefs an object
  that floats, which may be a container's (`KeptByNew = TRUE`).
* A setter that fails after `do_constructed` raised prints and so swallows the
  exception: `__init__` returns as if nothing had happened.
* A reference taken through a weak reference between the collector's visit and
  its clearing leads to a callable being cleared while a signal runs it, against
  the comment at `gi/pygobject-object.c:785` (`LateUse = TRUE` violates
  `ClearedNotCalled`).

*Calls.*

* With two callbacks that take user data, the one that does not come last is
  not wrapped in a tuple (`gi/pygi-cache-closure.c:84`), and its callback fails.
  `tests/test_callback.py:53` passes a tuple by hand. `BoundAsDeclared` excepts it.
* Strings in a table whose later entry fails are released twice
  (`gi/pygi-cache-hashtable.c:144`; excepted by `ReleasedInError`).
* When a result does not convert, the results made before it are dropped and their
  `destroy_failed` cells run as well (`gi/pygi-marshal-cleanup.c:128`): an object,
  a boxed or foreign value or a closure that was transferred is released by both.
  A list or array that C keeps is released although it was not given. A foreign
  struct that was lent is released when a later argument fails (`ReleasedInError`).
* A `GValue` that is given is never released (`gi/pygi-cache-struct.c:374`), nor is
  an array that was allocated for C to fill (`NeverReleased` in `Untold`).
* Memory for a caller-allocated result is lost when a later argument fails
  (`gi/pygi-invoke.c:692`), as are boxed values copied for C, and the results
  after one that does not convert (`Untold`).
* User data that comes before its callback loses its `GIArgInfo` when its cache is
  replaced (`gi/pygi-cache-closure.c:280`): it cannot be named or left out even
  where `NULL` is allowed (`Remembered`). User data that is the first argument of
  a function is dropped (`gi/pygi-cache-closure.c:71`, an index of 0 counts as none).
* In a C callback called from Python whose own user data comes first, the
  description of that data decides whether the first argument may be left out:
  its cache has number 0, as it is allocated zeroed (`gi/pygi-cache.c:382`).
* An input and an output array that share an inout length: the second is not
  counted (`gi/pygi-cache-array.c:698`), so the result is taken to be one longer
  than the list of results.

*Awaitables and the event loop.*

* `Await` on an awaitable that is already done does not clear `log_tb`
  (`gi/pygi-async.c:341`), so an exception that was raised in the coroutine is
  reported again as never retrieved. `ReportedUnlessRetrieved` is therefore
  stated for `result()` and `exception()`.
* The comment at `gi/pygi-async.c:491` says that nothing is called after the
  first exception; `PyErr_PrintEx` clears the exception, so the rest is called.
* A `KeyboardInterrupt` in a handle leaves `_may_iterate` `FALSE` and lets GLib
  remove the source (`gi/events.py:292`, `gi/pygi-source.c:140`); the same loop
  would hang if it were run again. `FlagsTrue` and `HandleRuns` exempt it.
* `stop()` before a loop is entered is not honoured by that loop
  (`gi/events.py:315`); `StopPassedOn` exempts levels entered later.

*Values.* `ComesBack` and `SpecAsDeclared` except these by name:

* numbers of more than 32 bits in a hash table are cut (`gi/pygi-argument.c:198`);
* a `unichar` as a signal parameter is read as another type, and a negative
  number that no unsigned enumeration has raises `OverflowError` there;
* a `G_TYPE_CHAR` beyond ASCII cannot be read from a GValue;
* the unsigned range and default of `__gproperties__` wrap
  (`gi/pygobject-class.c:311`), as does `GObject.Property(type=uint, default=-1)`.

And without an exception, as no property is about them: the empty string is
what `gunichar` 0 becomes but not what becomes it, though
`gi/pygi-basictype.c:209` promises both ways; some refusals of
`pyg_value_from_pyobject` raise nothing (`SystemError`); `pyg_object_set_property`
releases a NULL value when the conversion fails; a value that fails in
`pyg_object_get_property` leaves its exception pending; a property of type
`unichar` set to `None` stays as it was, silently.

*Types.*

* Types without a GType, those outside any typelib, whose classes C code makes
  without the lock, and a root class that is overridden while another thread asks
  for it can get two classes (`Raced`).
* The qdata of an enumeration that Python defines is left dangling once the
  class is collected (`gi/pygenum.c:204`); the model takes the program to keep it.
* A class that inherits an interface without listing it writes its methods
  into the table of its parent, so that C calls them for instances of the
  parent as well, even if the class statement failed (`Sharing` in
  `CallsNearest`; the comment at `gi/gimodule.c:60` describes the cause).
* A class statement that fails leaves its GType registered.

## 6. Not modelled

* In the modelled parts: annotations that are not `WellFormed` (a length whose
  direction is not its array's, a destroy notify before its callback, user data
  that is an output); builds without assertions; what becomes of a `GLib.Value` that
  is passed where C keeps the value, and so borrows memory Python frees; threads
  in `EventLoop` and in `Construction`; signal
  handlers the program sets itself; closing a GLib event loop, the policy,
  several event loops, file descriptors and the Windows proactor; version
  conflicts and dependencies of namespaces; the methods, fields and constants
  that the metaclass copies from a typelib; `G_TYPE_GSTRING`; the decorators of
  `_signalhelper.py`, `bind_property` and property notification.
* The cyclic collector is only in `ObjectClosures` and `TypeRegistry`; PyPy and the
  free-threaded build are not modelled (the GIL is assumed).
* GLib.Source in Python: its dispatch and removal are seen from `EventLoop`,
  the references of its callback are not.
* Boxed, struct, pointer and fundamental wrappers: `Marshal` has what they own
  as arguments, not the life of a wrapper Python keeps.
* Repository and info objects are read-only views; errors, result tuples, C
  callbacks passed to Python, the C API table and the cairo converters each are
  one call deep, without an order of steps to check; docstrings and signatures
  are formatting. `PROJECT.json` lists each with the reason.

## 7. Plan

1. `GLib.Source` in Python with the tuple its callback keeps, composed with
   `EventLoop`; the ownership of boxed and struct wrappers against
   `copy_in_place` and fields that refer into another block.
2. Proofs: what `Bind` gives for callables without owned arguments.
