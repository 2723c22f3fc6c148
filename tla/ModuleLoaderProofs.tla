------------------------- MODULE ModuleLoaderProofs -------------------------
(***************************************************************************)
(* The loader keeps its promises for any files, any dependencies and any   *)
(* number of loads.  The passes over the delayed modules are sound because *)
(* a pass that has loaded nothing yet leaves no loadable module behind it; *)
(* a pass that ends so has looked at all of them.                          *)
(***************************************************************************)
EXTENDS ModuleLoader, TLAPS

\* Entry i is delayed although it could be loaded.
Loadable(i) ==
    i < last_loaded /\ state[i] = 2 /\ module_check_dependencies(loaded_modules[i])

\* Unused entries are blank.
UnusedBlank ==
    \A i \in Slots : i >= last_loaded => state[i] = 0 /\ entered[i] = 0

\* Turns are numbered up to the last one.
StampsBounded == \A i \in Slots : stamp[i] <= loads

\* What a pass has passed over stays unloadable until something is loaded.
PassSound == pc = "reload" /\ ~flag => \A i \in Slots : i < m => ~Loadable(i)

IInv ==
    /\ TypeOK
    /\ UnusedBlank
    /\ StampsBounded
    /\ DependenciesFirst
    /\ EnteredOnce
    /\ PassSound
    /\ NoneForgotten

\* Nothing is loaded at first, so nothing is stamped or entered.
LEMMA InitIInv == Init => IInv
<1> SUFFICES ASSUME Init PROVE IInv
  OBVIOUS
<1>1. \A i \in Slots : i \in Nat /\ state[i] = 0 /\ entered[i] = 0 /\ stamp[i] = 0
  BY LoaderAssumption DEF Init, Slots
<1>2. last_loaded = 0 /\ loads = 0 /\ pc = "idle" /\ Loaded = {}
  BY <1>1 DEF Init, Loaded
<1>3. TypeOK
  <2>1. /\ last_loaded \in 0..MODULE_ARRAY_SIZE
        /\ m \in 0..last_loaded
    BY LoaderAssumption, <1>2 DEF Init
  <2>2. /\ loaded_modules \in [Slots -> File \cup {Nil}]
        /\ state \in [Slots -> {0, 1, 2}]
        /\ entered \in [Slots -> Nat] /\ stamp \in [Slots -> Nat]
    BY DEF Init
  <2>3. flag \in BOOLEAN
    BY DEF Init
  <2>4. pc \in {"idle", "reload"} /\ loads \in Nat
    BY <1>2
  <2> QED
    BY <2>1, <2>2, <2>3, <2>4 DEF TypeOK
<1>4. UnusedBlank /\ StampsBounded /\ PassSound
  BY <1>1, <1>2 DEF UnusedBlank, StampsBounded, PassSound
<1>5. DependenciesFirst
  BY <1>2 DEF DependenciesFirst
<1>6. EnteredOnce /\ NoneForgotten
  BY <1>1, <1>2 DEF EnteredOnce, NoneForgotten
<1> QED
  BY <1>3, <1>4, <1>5, <1>6 DEF IInv

-----------------------------------------------------------------------------
(* One call of an entry's load(), from module_load or from a pass.         *)

\* What both calls have in common: entry i, made for file f, was not loaded.
Calls(i, f, ok) ==
    /\ i \in Slots /\ i < last_loaded' /\ state[i] # 1
    /\ i >= last_loaded \/ state[i] = 2
    /\ loaded_modules'[i] = f
    /\ \A j \in Slots : j < last_loaded /\ j # i => loaded_modules'[j] = loaded_modules[j]
    /\ \A j \in Slots : j # i => (j < last_loaded' <=> j < last_loaded)
    /\ module_check_dependencies(f)
    /\ load(i, ok)

\* After it, exactly entry i may have joined the loaded ones.
LEMMA LoadJoins ==
  ASSUME IInv, NEW i, NEW f, NEW ok \in BOOLEAN, Calls(i, f, ok)
  PROVE  /\ ok => Loaded' = Loaded \cup {i}
         /\ ~ok => Loaded' = Loaded
         /\ i \notin Loaded
BY DEF IInv, TypeOK, Calls, load, Loaded, UnusedBlank

\* load() itself respects the types of what it changes.
LEMMA LoadTypes ==
  ASSUME TypeOK, NEW i \in Slots, NEW ok \in BOOLEAN, load(i, ok)
  PROVE  /\ state' \in [Slots -> {0, 1, 2}]
         /\ entered' \in [Slots -> Nat]
         /\ stamp' \in [Slots -> Nat]
         /\ loads' \in Nat
BY DEF TypeOK, load

\* A load stamps with the number of the load, never with a later one.
LEMMA LoadKeepsStamps ==
  ASSUME IInv, NEW i, NEW f, NEW ok \in BOOLEAN, Calls(i, f, ok)
  PROVE  StampsBounded'
BY DEF IInv, TypeOK, Calls, load, StampsBounded

\* The entry's dependencies were loaded before it, so their turns were lower.
LEMMA LoadKeepsOrder ==
  ASSUME IInv, NEW i, NEW f, NEW ok \in BOOLEAN, Calls(i, f, ok)
  PROVE  DependenciesFirst'
<1> USE DEF IInv
<1> SUFFICES ASSUME NEW e \in Loaded', NEW name \in Needs(loaded_modules'[e])
             PROVE  \E j \in Loaded' : /\ Header[loaded_modules'[j]].name = name
                                       /\ stamp'[j] < stamp'[e]
  BY DEF DependenciesFirst, Loaded
<1>1. Loaded \subseteq Loaded' /\ i \notin Loaded /\ e \in Loaded \cup {i}
  BY LoadJoins
<1>2. \A j \in Loaded : j # i /\ stamp'[j] = stamp[j] /\ loaded_modules'[j] = loaded_modules[j]
  BY <1>1 DEF Calls, load, Loaded, TypeOK
<1>3. CASE e \in Loaded
  <2>1. PICK j \in Loaded : Header[loaded_modules[j]].name = name /\ stamp[j] < stamp[e]
    BY <1>2, <1>3 DEF DependenciesFirst
  <2> QED
    BY <1>1, <1>2, <1>3, <2>1
<1>4. CASE e = i /\ i \notin Loaded
  <2>1. ok
    BY <1>4, LoadJoins
  <2>2. loaded_modules'[e] = f /\ module_check_dependencies(f)
    BY <1>4 DEF Calls
  <2>3. PICK j \in Slots : j < last_loaded /\ Header[loaded_modules[j]].name = name /\ state[j] = 1
    BY <2>2 DEF module_check_dependencies, module_is_loaded
  <2>4. j \in Loaded
    BY <2>3 DEF Loaded
  <2>5. stamp'[e] = loads + 1 /\ stamp[j] <= loads
    BY <1>4, <2>1, <2>3 DEF Calls, load, TypeOK, StampsBounded
  <2>6. stamp[j] \in Nat /\ loads \in Nat
    BY <2>3 DEF TypeOK
  <2> QED
    BY <1>1, <1>2, <2>3, <2>4, <2>5, <2>6
<1> QED
  BY <1>1, <1>3, <1>4

\* A load enters a module that was not entered, once, or leaves it delayed.
LEMMA LoadKeepsEntered ==
  ASSUME IInv, NEW i, NEW f, NEW ok \in BOOLEAN, Calls(i, f, ok)
  PROVE  EnteredOnce'
<1> USE DEF IInv
<1> SUFFICES ASSUME NEW j \in Slots, j < last_loaded'
             PROVE  entered'[j] = IF state'[j] = 2 THEN 0 ELSE 1
  BY DEF EnteredOnce
<1>1. CASE j = i
  <2>0. j \in Nat /\ last_loaded \in Nat /\ MODULE_ARRAY_SIZE \in Nat
    BY LoaderAssumption DEF TypeOK, Slots
  <2>1. entered[j] = 0
    <3>1. CASE j >= last_loaded
      BY <3>1 DEF UnusedBlank
    <3>2. CASE j < last_loaded /\ state[j] = 2
      BY <3>2 DEF EnteredOnce
    <3> QED
      BY <1>1, <2>0, <3>1, <3>2 DEF Calls
  <2>2. entered'[j] = entered[j] + 1 /\ state'[j] \in {0, 1}
    BY <1>1 DEF Calls, load, TypeOK
  <2> QED
    BY <2>1, <2>2
<1>2. CASE j # i
  <2>1. entered'[j] = entered[j] /\ state'[j] = state[j] /\ j < last_loaded
    BY <1>2 DEF Calls, load, TypeOK
  <2> QED
    BY <2>1 DEF EnteredOnce
<1> QED
  BY <1>1, <1>2

\* A call that fails loads nothing, so nothing becomes loadable.
LEMMA FailureFreesNone ==
  ASSUME IInv, NEW i, NEW f, Calls(i, f, FALSE), NEW e \in Slots, Loadable(e)'
  PROVE  e # i /\ Loadable(e)
<1> USE DEF IInv
<1>1. e # i
  BY DEF Calls, load, Loadable, TypeOK
<1>2. e < last_loaded /\ state[e] = 2 /\ loaded_modules'[e] = loaded_modules[e]
  BY <1>1 DEF Calls, load, Loadable, TypeOK
<1>3. Loaded' = Loaded /\ i \notin Loaded
  BY LoadJoins
<1>4. \A name : module_is_loaded(name)' => module_is_loaded(name)
  <2> SUFFICES ASSUME NEW name, module_is_loaded(name)' PROVE module_is_loaded(name)
    OBVIOUS
  <2>1. PICK j \in Slots : /\ j < last_loaded' /\ state'[j] = 1
                           /\ Header[loaded_modules'[j]].name = name
    BY DEF module_is_loaded
  <2>2. j \in Loaded
    BY <1>3, <2>1 DEF Loaded
  <2>3. loaded_modules'[j] = loaded_modules[j]
    BY <1>3, <2>2 DEF Calls, Loaded
  <2> QED
    BY <2>1, <2>2, <2>3 DEF module_is_loaded, Loaded
<1>5. module_check_dependencies(loaded_modules[e])
  BY <1>2, <1>4 DEF Loadable, module_check_dependencies
<1> QED
  BY <1>1, <1>2, <1>5 DEF Loadable

-----------------------------------------------------------------------------
\* Every step of the loader keeps the invariant.
LEMMA NextIInv == IInv /\ [Next]_vars => IInv'
<1> SUFFICES ASSUME IInv, [Next]_vars PROVE IInv'
  OBVIOUS
<1> USE DEF IInv
<1>0. MODULE_ARRAY_SIZE \in Nat /\ (\A i \in Slots : i \in Nat) /\ last_loaded \in Nat
  BY LoaderAssumption DEF Slots, TypeOK
<1>1. ASSUME NEW f \in File, NEW ok \in BOOLEAN, module_load(f, ok) PROVE IInv'
  <2>0. /\ pc = "idle" /\ last_loaded \in Slots /\ last_loaded' = last_loaded + 1
        /\ loaded_modules' = [loaded_modules EXCEPT ![last_loaded] = f]
        /\ m' = 0 /\ flag' = FALSE /\ last_loaded' \in 0..MODULE_ARRAY_SIZE
        /\ m' \in 0..last_loaded'
        /\ loaded_modules' \in [Slots -> File \cup {Nil}]
    BY <1>0, <1>1 DEF module_load, Slots, TypeOK
  <2>1. CASE module_check_dependencies(f)
    <3>0. load(last_loaded, ok) /\ pc' = IF ok THEN "reload" ELSE "idle"
      BY <1>1, <2>1 DEF module_load
    <3>1. Calls(last_loaded, f, ok)
      BY <1>0, <2>0, <2>1, <3>0 DEF Calls, UnusedBlank, TypeOK
    <3>2. TypeOK'
      <4>1. /\ state' \in [Slots -> {0, 1, 2}] /\ entered' \in [Slots -> Nat]
            /\ stamp' \in [Slots -> Nat] /\ loads' \in Nat
        BY <2>0, <3>0, LoadTypes
      <4>2. pc' \in {"idle", "reload"} /\ flag' \in BOOLEAN
        BY <2>0, <3>0
      <4> QED
        BY <2>0, <4>1, <4>2 DEF TypeOK
    <3>3. UnusedBlank'
      BY <1>0, <2>0, <3>0 DEF UnusedBlank, load, TypeOK
    <3>4. StampsBounded' /\ DependenciesFirst' /\ EnteredOnce'
      BY <3>1, LoadKeepsStamps, LoadKeepsOrder, LoadKeepsEntered
    <3>5. PassSound'
      BY <1>0, <2>0 DEF PassSound
    <3>6. NoneForgotten'
      <4> SUFFICES ASSUME pc' = "idle", NEW e \in Slots, Loadable(e)' PROVE FALSE
        BY DEF NoneForgotten, Loadable
      <4>1. Calls(last_loaded, f, FALSE)
        BY <3>0, <3>1
      <4>2. Loadable(e)
        BY <4>1, FailureFreesNone
      <4> QED
        BY <2>0, <4>2 DEF NoneForgotten, Loadable
    <3> QED
      BY <3>2, <3>3, <3>4, <3>5, <3>6
  <2>2. CASE ~module_check_dependencies(f)
    <3>0. /\ state' = [state EXCEPT ![last_loaded] = 2]
          /\ pc' = pc /\ entered' = entered /\ stamp' = stamp /\ loads' = loads
      BY <1>1, <2>2 DEF module_load, history
    <3>1. TypeOK'
      <4>1. state' \in [Slots -> {0, 1, 2}]
        BY <2>0, <3>0 DEF TypeOK
      <4> QED
        BY <2>0, <3>0, <4>1 DEF TypeOK
    <3>2. UnusedBlank' /\ StampsBounded'
      BY <1>0, <2>0, <3>0 DEF UnusedBlank, StampsBounded, TypeOK
    <3>3. EnteredOnce'
      <4> SUFFICES ASSUME NEW j \in Slots, j < last_loaded'
                   PROVE  entered'[j] = IF state'[j] = 2 THEN 0 ELSE 1
        BY DEF EnteredOnce
      <4>1. CASE j = last_loaded
        BY <1>0, <2>0, <3>0, <4>1 DEF UnusedBlank, TypeOK
      <4>2. CASE j # last_loaded
        BY <1>0, <2>0, <3>0, <4>2 DEF EnteredOnce, TypeOK
      <4> QED
        BY <4>1, <4>2
    <3>4. /\ Loaded' = Loaded
          /\ \A j \in Loaded : loaded_modules'[j] = loaded_modules[j]
      <4>1. \A j \in Slots : j < last_loaded' /\ state'[j] = 1 <=> j < last_loaded /\ state[j] = 1
        BY <1>0, <2>0, <3>0 DEF TypeOK
      <4>2. \A j \in Slots : j < last_loaded => loaded_modules'[j] = loaded_modules[j]
        BY <1>0, <2>0 DEF TypeOK
      <4> QED
        BY <4>1, <4>2 DEF Loaded
    <3>5. DependenciesFirst'
      BY <3>0, <3>4 DEF DependenciesFirst
    <3>6. PassSound'
      BY <1>0, <2>0 DEF PassSound
    <3>7. NoneForgotten'
      <4>1. \A name : module_is_loaded(name)' <=> module_is_loaded(name)
        BY <3>4 DEF module_is_loaded, Loaded
      <4> SUFFICES ASSUME NEW e \in Slots, e < last_loaded', state'[e] = 2,
                          module_check_dependencies(loaded_modules[e])'
                   PROVE  FALSE
        BY DEF NoneForgotten, module_check_dependencies
      <4>2. module_check_dependencies(loaded_modules'[e])
        BY <4>1 DEF module_check_dependencies
      <4>3. CASE e = last_loaded
        BY <2>0, <2>2, <4>2, <4>3 DEF TypeOK
      <4>4. CASE e # last_loaded
        <5>1. e < last_loaded /\ state[e] = 2 /\ loaded_modules'[e] = loaded_modules[e]
          BY <1>0, <2>0, <3>0, <4>4 DEF TypeOK
        <5> QED
          BY <2>0, <4>2, <5>1 DEF NoneForgotten
      <4> QED
        BY <4>3, <4>4
    <3> QED
      BY <3>1, <3>2, <3>3, <3>5, <3>6, <3>7
  <2> QED
    BY <2>1, <2>2
<1>2. CASE reload_again
  <2>0. /\ pc = "reload" /\ m = last_loaded /\ m' = 0 /\ flag' = FALSE
        /\ pc' = (IF flag THEN "reload" ELSE "idle")
        /\ UNCHANGED <<loaded_modules, state, last_loaded, entered, stamp, loads>>
    BY <1>2 DEF reload_again, history
  <2>1. TypeOK' /\ UnusedBlank' /\ StampsBounded' /\ EnteredOnce'
    <3>0. m' \in 0..last_loaded'
      BY <1>0, <2>0
    <3>1. pc' \in {"idle", "reload"} /\ flag' \in BOOLEAN
      BY <2>0
    <3>2. TypeOK'
      BY <2>0, <3>0, <3>1 DEF TypeOK
    <3> QED
      BY <2>0, <3>2 DEF UnusedBlank, StampsBounded, EnteredOnce
  <2>2. DependenciesFirst'
    BY <2>0 DEF DependenciesFirst, Loaded
  <2>3. PassSound'
    BY <1>0, <2>0 DEF PassSound
  <2>4. NoneForgotten'
    <3> SUFFICES ASSUME pc' = "idle", NEW e \in Slots, Loadable(e)' PROVE FALSE
      BY DEF NoneForgotten, Loadable
    <3>1. ~flag /\ Loadable(e) /\ e < m
      BY <2>0 DEF Loadable, module_check_dependencies, module_is_loaded
    <3> QED
      BY <2>0, <3>1 DEF PassSound
  <2> QED
    BY <2>1, <2>2, <2>3, <2>4
<1>3. ASSUME NEW ok \in BOOLEAN, reload_step(ok) PROVE IInv'
  <2>0. /\ pc = "reload" /\ pc' = "reload" /\ m \in Slots /\ m < last_loaded /\ m' = m + 1
        /\ loaded_modules' = loaded_modules /\ last_loaded' = last_loaded
        /\ m' \in 0..last_loaded
    BY <1>0, <1>3 DEF reload_step, TypeOK, Slots
  <2>1. NoneForgotten'
    BY <2>0 DEF NoneForgotten
  <2>2. CASE Loadable(m)
    <3>0. load(m, ok) /\ flag' = (flag \/ ok)
      BY <1>3, <2>2 DEF reload_step, Loadable
    <3>1. Calls(m, loaded_modules[m], ok)
      BY <2>0, <2>2, <3>0 DEF Calls, Loadable
    <3>2. TypeOK'
      BY <2>0, <3>0, LoadTypes DEF TypeOK
    <3>3. UnusedBlank'
      BY <1>0, <2>0, <3>0 DEF UnusedBlank, load, TypeOK
    <3>4. StampsBounded' /\ DependenciesFirst' /\ EnteredOnce'
      BY <3>1, LoadKeepsStamps, LoadKeepsOrder, LoadKeepsEntered
    <3>5. PassSound'
      <4> SUFFICES ASSUME ~flag', NEW e \in Slots, e < m', Loadable(e)' PROVE FALSE
        BY DEF PassSound
      <4>1. ~flag /\ ok = FALSE
        BY <3>0
      <4>2. e # m /\ Loadable(e)
        BY <3>1, <4>1, FailureFreesNone
      <4>3. e < m
        BY <1>0, <2>0, <4>2
      <4> QED
        BY <2>0, <4>1, <4>2, <4>3 DEF PassSound
    <3> QED
      BY <2>1, <3>2, <3>3, <3>4, <3>5
  <2>3. CASE ~Loadable(m)
    <3>0. UNCHANGED <<state, flag, entered, stamp, loads, loaded_modules, last_loaded, pc>>
      BY <1>3, <2>0, <2>3 DEF reload_step, Loadable, history
    <3>1. TypeOK' /\ UnusedBlank' /\ StampsBounded' /\ EnteredOnce'
      BY <2>0, <3>0 DEF TypeOK, UnusedBlank, StampsBounded, EnteredOnce
    <3>2. DependenciesFirst'
      BY <3>0 DEF DependenciesFirst, Loaded
    <3>3. PassSound'
      <4> SUFFICES ASSUME ~flag', NEW e \in Slots, e < m', Loadable(e)' PROVE FALSE
        BY DEF PassSound
      <4>1. ~flag /\ Loadable(e)
        BY <3>0 DEF Loadable, module_check_dependencies, module_is_loaded
      <4>2. e < m \/ e = m
        BY <1>0, <2>0
      <4> QED
        BY <2>0, <2>3, <4>1, <4>2 DEF PassSound
    <3> QED
      BY <2>1, <3>1, <3>2, <3>3
  <2> QED
    BY <2>2, <2>3
<1>4. CASE UNCHANGED vars
  BY <1>4 DEF vars, TypeOK, UnusedBlank, StampsBounded, DependenciesFirst, EnteredOnce, PassSound,
              NoneForgotten, Loadable, Loaded, module_check_dependencies, module_is_loaded
<1> QED
  BY <1>1, <1>2, <1>3, <1>4 DEF Next, module_try_dependencies_reload

\* The invariant holds in every state of the loader.
LEMMA SpecIInv == Spec => []IInv
BY InitIInv, NextIInv, PTL DEF Spec

-----------------------------------------------------------------------------
\* The loader's variables keep their types and its scan stays inside the used
\* entries of loaded_modules.
THEOREM SpecTypeOK == Spec => []TypeOK
<1>1. IInv => TypeOK
  BY DEF IInv
<1> QED
  BY <1>1, SpecIInv, PTL

\* No module's entry point runs before those of its dependencies, whatever
\* order the files come in (module_check_dependencies, before every load()).
THEOREM SpecDependenciesFirst == Spec => []DependenciesFirst
<1>1. IInv => DependenciesFirst
  BY DEF IInv
<1> QED
  BY <1>1, SpecIInv, PTL

\* No entry point runs twice for one entry, also if it failed (state 0).
THEOREM SpecEnteredOnce == Spec => []EnteredOnce
<1>1. IInv => EnteredOnce
  BY DEF IInv
<1> QED
  BY <1>1, SpecIInv, PTL

\* module_try_dependencies_reload forgets nobody: once it has returned every
\* delayed module still lacks a dependency.
THEOREM SpecNoneForgotten == Spec => []NoneForgotten
<1>1. IInv => NoneForgotten
  BY DEF IInv
<1> QED
  BY <1>1, SpecIInv, PTL
=============================================================================
