------------------------------- MODULE Modules -------------------------------
(***************************************************************************)
(* kernel/core/module/module.c: module_load_all() and the recursion of     *)
(* module_load_index() over dependencies.  The recursion is kept as a      *)
(* stack of frames, each a module and the dependencies it has still to     *)
(* look at.  Modules are numbered in the order of the linker section.      *)
(***************************************************************************)
EXTENDS Integers, Sequences

VARIABLES priority,  \* the descriptors: priority and dependencies of each module
          deps,      \*   (a number that is no module is a name nobody registered)
          mstate,    \* g_runtime[].state
          frames,    \* the calls of module_load_index() in progress
          in_init,   \* the top module is inside its init()
          inits      \* the modules whose init() succeeded, in order

module_vars == <<priority, deps, mstate, frames, in_init, inits>>

Registered == DOMAIN mstate

\* copy_registered_modules(), for a table of descriptors.
module_manager_init ==
  /\ mstate = [m \in DOMAIN priority |-> "DECLARED"]
  /\ frames = <<>> /\ in_init = FALSE /\ inits = <<>>

OnStack(m) == \E i \in DOMAIN frames : frames[i].mod = m

Top == frames[Len(frames)]
Pop == SubSeq(frames, 1, Len(frames) - 1)

Frame(m) == [mod |-> m, left |-> deps[m]]

Declared == {m \in Registered : mstate[m] = "DECLARED"}

\* The first of the declared modules with the lowest priority number.
find_next_declared(m) ==
  /\ m \in Declared
  /\ \A o \in Declared : priority[m] < priority[o] \/ (priority[m] = priority[o] /\ m <= o)

module_load_all ==
  /\ frames = <<>>
  /\ \E m \in Registered : find_next_declared(m) /\ frames' = <<Frame(m)>>
  /\ UNCHANGED <<priority, deps, mstate, in_init, inits>>

\* Mutant: a dependency that failed earlier is good enough.
Refuses(d) == d \in Registered => OnStack(d)

\* A dependency that is not registered, is being loaded or has failed.
CannotLoad(d) == d \in Registered => (OnStack(d) \/ mstate[d] \in {"FAILED", "LOADING"})

\* The next dependency of the top module: missing or failed, loaded, or first
\* to be loaded itself.
LookAtDependency ==
  /\ frames /= <<>> /\ ~in_init /\ Top.left /= {}
  /\ \E d \in Top.left :
     /\ \A o \in Top.left : d <= o
     /\ \/ /\ CannotLoad(d)
           /\ mstate' = [mstate EXCEPT ![Top.mod] = "FAILED"]
           /\ frames' = Pop
        \/ /\ ~CannotLoad(d) /\ mstate[d] /= "DECLARED"
           /\ frames' = [frames EXCEPT ![Len(frames)].left = Top.left \ {d}]
           /\ UNCHANGED mstate
        \/ /\ ~CannotLoad(d) /\ mstate[d] = "DECLARED"
           /\ frames' = Append(frames, Frame(d))
           /\ UNCHANGED mstate
  /\ UNCHANGED <<priority, deps, in_init, inits>>

EnterInit ==
  /\ frames /= <<>> /\ ~in_init /\ Top.left = {}
  /\ mstate' = [mstate EXCEPT ![Top.mod] = "LOADING"]
  /\ in_init' = TRUE
  /\ UNCHANGED <<priority, deps, frames, inits>>

\* init() has returned rc.
LeaveInit(rc) ==
  /\ in_init
  /\ in_init' = FALSE
  /\ mstate' = [mstate EXCEPT ![Top.mod] = IF rc THEN "LOADED" ELSE "FAILED"]
  /\ inits' = IF rc THEN Append(inits, Top.mod) ELSE inits
  /\ frames' = Pop
  /\ UNCHANGED <<priority, deps>>

ModulesDone == frames = <<>> /\ \A m \in Registered : mstate[m] \in {"LOADED", "FAILED"}

ModuleNext ==
  module_load_all \/ LookAtDependency \/ EnterInit \/ \E rc \in BOOLEAN : LeaveInit(rc)

\* A module's init() succeeds at most once and only after those of all its
\* dependencies, whatever the dependencies are: names nobody registered, the
\* module itself, cycles.
DependenciesFirst ==
  \A i \in DOMAIN inits :
    /\ mstate[inits[i]] = "LOADED"
    /\ \A j \in DOMAIN inits : inits[j] = inits[i] => j = i
    /\ \A d \in deps[inits[i]] : \E j \in 1..(i - 1) : inits[j] = d

=============================================================================
