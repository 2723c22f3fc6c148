---------------------------- MODULE ModuleLoader ----------------------------
(***************************************************************************)
(* Loading of kernel modules (os/kernel/module/module.c).  A module whose  *)
(* dependencies are not all loaded is delayed; after each module loaded    *)
(* from a file the delayed ones are gone through, again and again until a  *)
(* pass loads nothing.  Each step of such a pass is an action, so that the *)
(* state in the middle of one, in which an entry point runs, is visible.   *)
(* A file that cannot be read or has no header changes nothing and is left *)
(* out.  A module's entry point is only its result.                        *)
(***************************************************************************)
EXTENDS Naturals, Sequences

CONSTANTS
    File,               \* the module files
    Header,             \* per file: name, and the text of its dependencies
    Nil,                \* a null entry, and a text that names no module
    MODULE_ARRAY_SIZE   \* length of loaded_modules; bound of the model, as
                        \* the code only warns when the array is full

ASSUME LoaderAssumption == Nil \notin File /\ MODULE_ARRAY_SIZE \in Nat

VARIABLES
    loaded_modules,  \* the file each entry was made for
    state,           \* of each entry: 0 failed (or fresh), 1 loaded, 2 delayed
    last_loaded,     \* number of entries
    pc,              \* "idle", or in module_try_dependencies_reload: "reload"
    m, flag,         \* its local variables
    entered,         \* history: how often each entry's load() was called
    stamp,           \* history: of each loaded entry, the number of its turn
    loads            \* history: number of load() calls that succeeded

vars == <<loaded_modules, state, last_loaded, pc, m, flag, entered, stamp, loads>>
history == <<entered, stamp, loads>>

Slots == 0..MODULE_ARRAY_SIZE-1

-----------------------------------------------------------------------------
(* The text of dependencies: names separated by commas, and if `wrapped`   *)
(* also enclosed in commas.                                                *)

Commas(h) == IF h.wrapped THEN Len(h.names) + 1 ELSE Len(h.names) - 1

\* deps_block: the piece between two commas, or else the whole text, which is
\* a module's name only if it is a single one.
deps_block(h, block) ==
    IF block + 2 <= Commas(h) THEN h.names[block + (IF h.wrapped THEN 1 ELSE 2)]
    ELSE IF ~h.wrapped /\ Len(h.names) = 1 THEN h.names[1]
    ELSE Nil

Needs(f) == {deps_block(Header[f], block) : block \in 0..Len(Header[f].names)-1}

module_is_loaded(name) ==
    \E i \in Slots : i < last_loaded /\ Header[loaded_modules[i]].name = name /\ state[i] = 1

\* Faulty: one dependency is enough.
AnyDependency(f) == Needs(f) = {} \/ \E name \in Needs(f) : module_is_loaded(name)
module_check_dependencies(f) == \A name \in Needs(f) : module_is_loaded(name)

-----------------------------------------------------------------------------
Init ==
    /\ loaded_modules = [i \in Slots |-> Nil]
    /\ state = [i \in Slots |-> 0]
    /\ last_loaded = 0
    /\ pc = "idle"
    /\ m = 0
    /\ flag = FALSE
    /\ entered = [i \in Slots |-> 0]
    /\ stamp = [i \in Slots |-> 0]
    /\ loads = 0

Loaded == {i \in Slots : i < last_loaded /\ state[i] = 1}

\* hdr->load() of entry i; zero means success.
load(i, ok) ==
    /\ state' = [state EXCEPT ![i] = IF ok THEN 1 ELSE 0]
    /\ entered' = [entered EXCEPT ![i] = @ + 1]
    /\ loads' = IF ok THEN loads + 1 ELSE loads
    /\ stamp' = IF ok THEN [stamp EXCEPT ![i] = loads + 1] ELSE stamp

\* module_load, up to the call of module_try_dependencies_reload.
module_load(f, ok) ==
    /\ pc = "idle"
    /\ last_loaded < MODULE_ARRAY_SIZE
    /\ loaded_modules' = [loaded_modules EXCEPT ![last_loaded] = f]
    /\ last_loaded' = last_loaded + 1
    /\ IF module_check_dependencies(f)
       THEN /\ load(last_loaded, ok)
            /\ pc' = IF ok THEN "reload" ELSE "idle"
       ELSE /\ state' = [state EXCEPT ![last_loaded] = 2]
            /\ UNCHANGED <<pc, history>>
    /\ m' = 0 /\ flag' = FALSE

\* Faulty: a delayed module is not looked at again after it was passed over.
ReloadOnce ==
    /\ pc = "reload" /\ m = last_loaded
    /\ pc' = "idle" /\ m' = 0 /\ flag' = FALSE
    /\ UNCHANGED <<loaded_modules, state, last_loaded, history>>

\* The end of a pass: another one follows if this one loaded something.
reload_again ==
    /\ pc = "reload" /\ m = last_loaded
    /\ pc' = IF flag THEN "reload" ELSE "idle"
    /\ m' = 0 /\ flag' = FALSE
    /\ UNCHANGED <<loaded_modules, state, last_loaded, history>>

\* Faulty: whatever is not loaded is tried, failed modules too.
RetryFailed(ok) ==
    /\ pc = "reload" /\ m < last_loaded
    /\ m' = m + 1
    /\ IF state[m] # 1 /\ module_check_dependencies(loaded_modules[m])
       THEN load(m, ok) /\ flag' = (flag \/ ok)
       ELSE UNCHANGED <<state, flag, history>>
    /\ UNCHANGED <<loaded_modules, last_loaded, pc>>

\* Faulty: any delayed module asks for another pass.
AgainIfDelayed(ok) ==
    /\ pc = "reload" /\ m < last_loaded
    /\ m' = m + 1
    /\ flag' = (flag \/ state[m] = 2)
    /\ IF state[m] = 2 /\ module_check_dependencies(loaded_modules[m])
       THEN load(m, ok)
       ELSE UNCHANGED <<state, history>>
    /\ UNCHANGED <<loaded_modules, last_loaded, pc>>

\* One step of the loop of module_try_dependencies_reload.
reload_step(ok) ==
    /\ pc = "reload" /\ m < last_loaded
    /\ m' = m + 1
    /\ IF state[m] = 2 /\ module_check_dependencies(loaded_modules[m])
       THEN load(m, ok) /\ flag' = (flag \/ ok)
       ELSE UNCHANGED <<state, flag, history>>
    /\ UNCHANGED <<loaded_modules, last_loaded, pc>>

module_try_dependencies_reload == reload_again \/ \E ok \in BOOLEAN : reload_step(ok)

Next ==
    \/ \E f \in File, ok \in BOOLEAN : module_load(f, ok)
    \/ module_try_dependencies_reload

\* The loader runs to its end once called; nobody has to call it.
Spec == Init /\ [][Next]_vars /\ WF_vars(module_try_dependencies_reload)

-----------------------------------------------------------------------------
\* Type correctness; the scan never leaves the used entries.
TypeOK ==
    /\ loaded_modules \in [Slots -> File \cup {Nil}]
    /\ state \in [Slots -> {0, 1, 2}]
    /\ last_loaded \in 0..MODULE_ARRAY_SIZE
    /\ pc \in {"idle", "reload"}
    /\ m \in 0..last_loaded
    /\ flag \in BOOLEAN
    /\ entered \in [Slots -> Nat]
    /\ stamp \in [Slots -> Nat]
    /\ loads \in Nat

\* A module's entry point runs only after those of all its dependencies, also
\* when it was delayed and is loaded by a later pass.
DependenciesFirst ==
    \A i \in Loaded : \A name \in Needs(loaded_modules[i]) :
        \E j \in Loaded : Header[loaded_modules[j]].name = name /\ stamp[j] < stamp[i]

\* An entry's load() is called once: not while it is delayed, and not again by
\* later passes whether it succeeded or failed.
EnteredOnce ==
    \A i \in Slots : i < last_loaded => entered[i] = (IF state[i] = 2 THEN 0 ELSE 1)

\* When module_load has returned, no delayed module could be loaded: a chain
\* of delayed modules is loaded to its end, in whatever order it arrived.
NoneForgotten ==
    pc = "idle" => \A i \in Slots :
        i < last_loaded /\ state[i] = 2 => ~module_check_dependencies(loaded_modules[i])

\* The passes come to an end although each may start another one.
LoaderReturns == pc = "reload" ~> pc = "idle"
=============================================================================
