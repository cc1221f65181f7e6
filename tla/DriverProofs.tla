---------------------------- MODULE DriverProofs ----------------------------
(***************************************************************************)
(* The inductive invariants of the module loader and of the AHCI, e1000    *)
(* and NVMe drivers it starts, each driver with the device at the other    *)
(* end: rings of any size, any number of modules, commands and frames.     *)
(* StartupProofs.tla puts them together with the xHCI driver of            *)
(* XhciProofs.tla.                                                         *)
(***************************************************************************)
EXTENDS Modules, Ahci, E1000, Nvme, TLAPS

\* A leaf that names no prover is given to Zenon.
USE ZenonT(60)

\* The empty sequence is the one of length 0.
LEMMA EmptyFacts ==
  ASSUME NEW S
  PROVE  /\ << >> \in Seq(S) /\ Len(<< >>) = 0
         /\ \A q \in Seq(S) : (q = << >>) <=> (Len(q) = 0)
  BY SMTT(60)

\* A sequence over S is a function from its positions to S.
LEMMA SeqFacts ==
  ASSUME NEW S, NEW q \in Seq(S)
  PROVE  /\ Len(q) \in Nat /\ DOMAIN q = 1..Len(q)
         /\ \A i \in 1..Len(q) : q[i] \in S
  BY SMTT(60)

\* A queue with one element more.
LEMMA AppendFacts ==
  ASSUME NEW S, NEW q \in Seq(S), NEW e \in S
  PROVE  /\ Append(q, e) \in Seq(S) /\ Len(Append(q, e)) = Len(q) + 1
         /\ \A i \in 1..Len(q) : Append(q, e)[i] = q[i]
         /\ Append(q, e)[Len(q) + 1] = e
  BY SMTT(60)

\* A queue without its first element.
LEMMA TailFacts ==
  ASSUME NEW S, NEW q \in Seq(S), q # << >>
  PROVE  /\ Head(q) = q[1] /\ Head(q) \in S
         /\ Tail(q) \in Seq(S) /\ Len(Tail(q)) = Len(q) - 1
         /\ \A i \in 1..Len(Tail(q)) : Tail(q)[i] = q[i + 1]
  BY SMTT(60)

\* A stack cut to its first m elements.
LEMMA SubSeqFacts ==
  ASSUME NEW S, NEW q \in Seq(S), NEW m \in 0..Len(q)
  PROVE  /\ SubSeq(q, 1, m) \in Seq(S) /\ Len(SubSeq(q, 1, m)) = m
         /\ \A i \in 1..m : SubSeq(q, 1, m)[i] = q[i]
  BY SMTT(60)

\* A stack with another element at a place.
LEMMA PutFacts ==
  ASSUME NEW S, NEW q \in Seq(S), NEW k \in 1..Len(q), NEW e \in S
  PROVE  /\ [q EXCEPT ![k] = e] \in Seq(S) /\ Len([q EXCEPT ![k] = e]) = Len(q)
         /\ \A i \in 1..Len(q) : [q EXCEPT ![k] = e][i] = IF i = k THEN e ELSE q[i]
  BY SMTT(60)

-----------------------------------------------------------------------------
(* kernel/core/module/module.c.                                            *)

\* The module manager on any table of descriptors.
ModuleSpec == module_manager_init /\ [][ModuleNext]_module_vars

\* The names modules give as dependencies.
Names == UNION {deps[m] : m \in Registered}

\* The calls of module_load_index() in progress: each for another module, all
\* of them DECLARED but the one inside its init(); what a call has passed of
\* its dependencies is loaded.
StackInv ==
  /\ frames \in Seq([mod : Registered, left : SUBSET Names])
  /\ in_init \in BOOLEAN
  /\ in_init => frames # <<>> /\ Top.left = {}
  /\ \A i, j \in 1..Len(frames) : frames[i].mod = frames[j].mod => i = j
  /\ \A i \in 1..Len(frames) :
       mstate[frames[i].mod] = IF in_init /\ i = Len(frames) THEN "LOADING" ELSE "DECLARED"
  /\ \A i \in 1..Len(frames) : \A d \in deps[frames[i].mod] \ frames[i].left :
       d \in Registered /\ mstate[d] = "LOADED"

\* The loaded modules are the ones whose init() succeeded.
LoadedInv ==
  /\ mstate \in [Registered -> {"DECLARED", "LOADING", "LOADED", "FAILED"}]
  /\ inits \in Seq(Registered)
  /\ \A m \in Registered : mstate[m] = "LOADED" => \E j \in 1..Len(inits) : inits[j] = m

\* The inductive invariant of module.c.
ModuleInv == StackInv /\ LoadedInv /\ DependenciesFirst

-----------------------------------------------------------------------------
\* copy_registered_modules() establishes the invariant.
LEMMA InitModuleInv == module_manager_init => ModuleInv
<1> SUFFICES ASSUME module_manager_init PROVE ModuleInv
  OBVIOUS
<1>1. /\ mstate = [m \in DOMAIN priority |-> "DECLARED"]
      /\ frames = <<>> /\ in_init = FALSE /\ inits = <<>>
  BY DEF module_manager_init
<1>2. /\ frames \in Seq([mod : Registered, left : SUBSET Names]) /\ Len(frames) = 0
      /\ inits \in Seq(Registered) /\ Len(inits) = 0 /\ DOMAIN inits = 1..0
  BY <1>1, EmptyFacts, SMTT(60)
<1>3. StackInv
  <2>1. \A i \in 1..Len(frames) : FALSE
    BY <1>2, SMTT(60)
  <2> QED
    BY <1>1, <1>2, <2>1 DEF StackInv
<1>4. LoadedInv
  BY <1>1, <1>2 DEF LoadedInv, Registered
<1>5. DependenciesFirst
  BY <1>2, SMTT(60) DEF DependenciesFirst
<1> QED
  BY <1>3, <1>4, <1>5 DEF ModuleInv

\* A call of module_load_index() for a declared module that is not in progress.
LEMMA PushKeeps ==
  ASSUME ModuleInv, NEW m \in Registered, mstate[m] = "DECLARED", ~OnStack(m), ~in_init,
         frames' = Append(frames, Frame(m)), UNCHANGED <<priority, deps, mstate, in_init, inits>>
  PROVE  ModuleInv'
<1>0. Registered' = Registered /\ Names' = Names
  BY DEF Registered, Names
<1>1. /\ frames \in Seq([mod : Registered, left : SUBSET Names]) /\ Len(frames) \in Nat
      /\ DOMAIN frames = 1..Len(frames)
  BY SeqFacts DEF ModuleInv, StackInv
<1>2. Frame(m) \in [mod : Registered, left : SUBSET Names]
  BY DEF Frame, Names
<1>3. /\ frames' \in Seq([mod : Registered, left : SUBSET Names])
      /\ Len(frames') = Len(frames) + 1
      /\ \A i \in 1..Len(frames) : frames'[i] = frames[i]
      /\ frames'[Len(frames) + 1] = Frame(m)
  BY <1>1, <1>2, AppendFacts, SMTT(60)
<1>4. \A i \in 1..Len(frames) : frames[i].mod # m
  BY <1>1 DEF OnStack
<1>5. \A i \in 1..Len(frames') : i = Len(frames) + 1 \/ i \in 1..Len(frames)
  BY <1>1, <1>3, SMTT(60)
<1>6. Frame(m).mod = m /\ Frame(m).left = deps[m]
  BY DEF Frame
<1>7. StackInv'
  <2>1. \A i, j \in 1..Len(frames') : frames'[i].mod = frames'[j].mod => i = j
    BY <1>3, <1>4, <1>5, <1>6, SMTT(60) DEF ModuleInv, StackInv
  <2>2. \A i \in 1..Len(frames') : mstate'[frames'[i].mod] = "DECLARED"
    BY <1>3, <1>5, <1>6, SMTT(60) DEF ModuleInv, StackInv
  <2>3. \A i \in 1..Len(frames') : \A d \in deps'[frames'[i].mod] \ frames'[i].left :
           d \in Registered /\ mstate'[d] = "LOADED"
    BY <1>3, <1>5, <1>6, SMTT(60) DEF ModuleInv, StackInv
  <2> QED
    BY <1>0, <1>3, <2>1, <2>2, <2>3, SMTT(60) DEF StackInv, ModuleInv
<1>8. LoadedInv' /\ DependenciesFirst'
  BY <1>0, SMTT(60) DEF ModuleInv, LoadedInv, DependenciesFirst
<1> QED
  BY <1>7, <1>8 DEF ModuleInv

\* Returning from module_load_index(): the frames below stay as they were.
LEMMA PopProperties ==
  ASSUME ModuleInv, frames # <<>>
  PROVE  /\ Len(frames) \in Nat \ {0} /\ Len(frames) \in 1..Len(frames)
         /\ Pop \in Seq([mod : Registered, left : SUBSET Names])
         /\ Len(Pop) = Len(frames) - 1
         /\ \A i \in 1..(Len(frames) - 1) : i \in 1..Len(frames) /\ Pop[i] = frames[i]
         /\ Top \in [mod : Registered, left : SUBSET Names]
         /\ \A i \in 1..(Len(frames) - 1) : frames[i].mod # Top.mod
<1>1. frames \in Seq([mod : Registered, left : SUBSET Names])
  BY DEF ModuleInv, StackInv
<1>2. Len(frames) \in Nat \ {0} /\ Len(frames) \in 1..Len(frames)
  BY <1>1, EmptyFacts, SMTT(60)
<1>3. /\ Pop \in Seq([mod : Registered, left : SUBSET Names])
      /\ Len(Pop) = Len(frames) - 1
      /\ \A i \in 1..(Len(frames) - 1) : i \in 1..Len(frames) /\ Pop[i] = frames[i]
  <2> DEFINE S == [mod : Registered, left : SUBSET Names]
             k == Len(frames) - 1
  <2>1. frames \in Seq(S) /\ k \in Int /\ k >= 0 /\ 1 \in Int
    BY <1>1, <1>2, SMTT(60)
  <2>2. \A i \in 1..k : i \in 1..Len(frames)
    BY <1>2, SMTT(60)
  <2> HIDE DEF S
  <2>3. \A i \in 1..k : frames[i] \in S
    BY <2>1, <2>2, SeqFacts
  <2>4. /\ SubSeq(frames, 1, k) \in Seq(S)
        /\ Len(SubSeq(frames, 1, k)) = IF 1 <= k THEN k - 1 + 1 ELSE 0
        /\ \A i \in 1..(k - 1 + 1) : SubSeq(frames, 1, k)[i] = frames[1 + i - 1]
    <3> HIDE DEF k
    <3> QED
      BY <2>1, <2>3, SubSeqFacts, SMTT(60)
  <2>5. Len(SubSeq(frames, 1, k)) = k /\ \A i \in 1..k : SubSeq(frames, 1, k)[i] = frames[i]
    <3> HIDE DEF k
    <3> QED
      BY <2>1, <2>4, SMTT(60)
  <2> QED
    BY <2>2, <2>4, <2>5 DEF Pop, S
<1>4. Top \in [mod : Registered, left : SUBSET Names]
  BY <1>1, <1>2, SeqFacts DEF Top
<1>5. \A i \in 1..(Len(frames) - 1) : frames[i].mod # Top.mod
  BY <1>2, <1>3, SMTT(60) DEF Top, ModuleInv, StackInv
<1> QED
  BY <1>2, <1>3, <1>4, <1>5

\* The top call ends with its module LOADED or FAILED.
LEMMA PopKeeps ==
  ASSUME ModuleInv, frames # <<>>, NEW st \in {"LOADED", "FAILED"}, in_init \/ st = "FAILED",
         mstate' = [mstate EXCEPT ![Top.mod] = st], frames' = Pop, in_init' = FALSE,
         inits' = IF st = "LOADED" THEN Append(inits, Top.mod) ELSE inits,
         UNCHANGED <<priority, deps>>
  PROVE  ModuleInv'
<1> DEFINE n == Len(frames)
           m == Top.mod
<1>1. /\ n \in Nat \ {0} /\ n \in 1..n
      /\ Pop \in Seq([mod : Registered, left : SUBSET Names])
      /\ Len(Pop) = n - 1
      /\ \A i \in 1..(n - 1) : i \in 1..n /\ Pop[i] = frames[i]
      /\ m \in Registered
      /\ \A i \in 1..(n - 1) : frames[i].mod # m
  BY PopProperties
<1>2. /\ mstate \in [Registered -> {"DECLARED", "LOADING", "LOADED", "FAILED"}]
      /\ inits \in Seq(Registered) /\ Len(inits) \in Nat /\ DOMAIN inits = 1..Len(inits)
  BY SeqFacts DEF ModuleInv, LoadedInv
<1>3. Registered' = Registered /\ Names' = Names
  BY <1>1, <1>2, SMTT(60) DEF Registered, Names
<1>4. \A o \in Registered : mstate'[o] = IF o = m THEN st ELSE mstate[o]
  BY <1>1, <1>2
<1>5. mstate[m] \in {"DECLARED", "LOADING"}
  BY <1>1 DEF Top, ModuleInv, StackInv
<1>6. \A i \in 1..n : frames[i].mod \in Registered
  <2> TAKE i \in 1..n
  <2>1. frames[i] \in [mod : Registered, left : SUBSET Names]
    BY SeqFacts DEF ModuleInv, StackInv
  <2> QED
    BY <2>1
<1>7. StackInv'
  <2>1. \A i, j \in 1..(n - 1) : Pop[i].mod = Pop[j].mod => i = j
    BY <1>1 DEF ModuleInv, StackInv
  <2>2. \A i \in 1..(n - 1) : mstate'[Pop[i].mod] = "DECLARED"
    <3> TAKE i \in 1..(n - 1)
    <3>1. i \in 1..n /\ i # n /\ Pop[i] = frames[i] /\ frames[i].mod # m /\ frames[i].mod \in Registered
      BY <1>1, <1>6, SMTT(60)
    <3>2. mstate[frames[i].mod] = "DECLARED"
      BY <3>1 DEF ModuleInv, StackInv
    <3> QED
      BY <3>1, <3>2, <1>4
  <2>3. \A i \in 1..(n - 1) : \A d \in deps[Pop[i].mod] \ Pop[i].left :
           d \in Registered /\ mstate'[d] = "LOADED"
    <3> TAKE i \in 1..(n - 1)
    <3> TAKE d \in deps[Pop[i].mod] \ Pop[i].left
    <3>1. i \in 1..n /\ Pop[i] = frames[i]
      BY <1>1
    <3>2. d \in Registered /\ mstate[d] = "LOADED"
      BY <3>1 DEF ModuleInv, StackInv
    <3> QED
      BY <3>2, <1>4, <1>5
  <2> QED
    <3>1. in_init' \in BOOLEAN /\ ~in_init'
      OBVIOUS
    <3>2. /\ frames' \in Seq([mod : Registered', left : SUBSET Names'])
          /\ Len(frames') = n - 1 /\ deps' = deps
      BY <1>1, <1>3
    <3> QED
      BY <1>3, <2>1, <2>2, <2>3, <3>1, <3>2, SMTT(60) DEF StackInv
<1>8. CASE st = "FAILED"
  <2>1. LoadedInv'
    BY <1>2, <1>3, <1>4, <1>8 DEF ModuleInv, LoadedInv
  <2>2. \A i \in DOMAIN inits : inits[i] \in Registered /\ mstate'[inits[i]] = "LOADED"
    BY <1>2, <1>4, <1>5, SeqFacts DEF ModuleInv, DependenciesFirst
  <2>3. DependenciesFirst'
    BY <2>2, <1>8, SMTT(60) DEF ModuleInv, DependenciesFirst
  <2> QED
    BY <1>7, <2>1, <2>3 DEF ModuleInv
<1>9. CASE st = "LOADED"
  <2> DEFINE k == Len(inits)
  <2>1. /\ inits' \in Seq(Registered) /\ Len(inits') = k + 1 /\ DOMAIN inits' = 1..(k + 1)
        /\ \A i \in 1..k : inits'[i] = inits[i]
        /\ inits'[k + 1] = m
    BY <1>1, <1>2, <1>9, AppendFacts, SeqFacts, SMTT(60)
  <2>2. LoadedInv'
    BY <1>2, <1>3, <1>4, <1>9, <2>1, SMTT(60) DEF ModuleInv, LoadedInv
  <2>3. \A i \in 1..k : inits[i] \in Registered /\ inits[i] # m /\ mstate[inits[i]] = "LOADED"
    BY <1>2, <1>5, SeqFacts DEF ModuleInv, DependenciesFirst
  <2>4. \A d \in deps[m] : \E j \in 1..k : inits[j] = d
    <3>1. Top.left = {} /\ Top = frames[n]
      BY <1>9 DEF Top, ModuleInv, StackInv
    <3>2. \A d \in deps[m] : d \in Registered /\ mstate[d] = "LOADED"
      BY <3>1, <1>1 DEF ModuleInv, StackInv
    <3> QED
      BY <3>2 DEF ModuleInv, LoadedInv
  <2>5. DependenciesFirst'
    <3> SUFFICES ASSUME NEW i \in 1..(k + 1)
                 PROVE  /\ mstate'[inits'[i]] = "LOADED"
                        /\ \A j \in 1..(k + 1) : inits'[j] = inits'[i] => j = i
                        /\ \A d \in deps[inits'[i]] : \E j \in 1..(i - 1) : inits'[j] = d
      BY <2>1 DEF DependenciesFirst
    <3>1. \A j \in 1..(k + 1) : j = k + 1 \/ j \in 1..k
      BY <1>2, SMTT(60)
    <3>2. CASE i = k + 1
      BY <3>1, <3>2, <1>1, <1>2, <1>4, <1>9, <2>1, <2>3, <2>4, SMTT(60)
    <3>3. CASE i \in 1..k
      <4>1. mstate'[inits'[i]] = "LOADED"
        BY <3>3, <1>4, <2>1, <2>3, SMTT(60)
      <4>2. \A j \in 1..(k + 1) : inits'[j] = inits'[i] => j = i
        BY <3>1, <3>3, <1>2, <2>1, <2>3, SMTT(60) DEF ModuleInv, DependenciesFirst
      <4>3. \A d \in deps[inits[i]] : \E j \in 1..(i - 1) : inits[j] = d
        BY <3>3, <1>2 DEF ModuleInv, DependenciesFirst
      <4>4. \A j \in 1..(i - 1) : inits'[j] = inits[j]
        BY <3>3, <1>2, <2>1, SMTT(60)
      <4> QED
        BY <3>3, <4>1, <4>2, <4>3, <4>4, <2>1, SMTT(60)
    <3> QED
      BY <3>1, <3>2, <3>3
  <2> QED
    BY <1>7, <2>2, <2>5 DEF ModuleInv
<1> QED
  BY <1>8, <1>9

\* The loop of module_load_index() goes on to the next dependency.
LEMMA PassKeeps ==
  ASSUME ModuleInv, frames # <<>>, ~in_init,
         NEW d \in Top.left, d \in Registered, mstate[d] = "LOADED",
         frames' = [frames EXCEPT ![Len(frames)].left = Top.left \ {d}],
         UNCHANGED <<priority, deps, mstate, in_init, inits>>
  PROVE  ModuleInv'
<1> DEFINE n == Len(frames)
           S == [mod : Registered, left : SUBSET Names]
           f == [Top EXCEPT !.left = Top.left \ {d}]
<1>0. Registered' = Registered /\ Names' = Names
  BY DEF Registered, Names
<1>1. n \in Nat \ {0} /\ n \in 1..n /\ Top \in S
  BY PopProperties
<1>2. frames \in Seq(S) /\ DOMAIN frames = 1..n
  BY SeqFacts DEF ModuleInv, StackInv
<1>3. f \in S /\ f.mod = Top.mod /\ f.left = Top.left \ {d}
  BY <1>1
<1>4. frames' = [frames EXCEPT ![n] = f]
  BY <1>1, <1>2 DEF Top
<1>5. frames' \in Seq(S) /\ Len(frames') = n
  <2> DEFINE g == [frames EXCEPT ![n] = f]
  <2> HIDE DEF S, f
  <2>1. g \in Seq(S) /\ Len(g) = Len(frames)
    <3>1. frames \in Seq(S) /\ n \in 1..Len(frames) /\ f \in S
      BY <1>1, <1>2, <1>3
    <3> HIDE DEF n
    <3> QED
      BY <3>1, PutFacts, SMTT(60)
  <2> QED
    BY <1>4, <2>1
<1>6. \A i \in 1..n : frames'[i] = IF i = n THEN f ELSE frames[i]
  BY <1>1, <1>2, <1>4
<1>7. Top = frames[n]
  BY DEF Top
<1> HIDE DEF f, n
<1>8. \A i \in 1..n : frames'[i].mod = frames[i].mod
  BY <1>3, <1>6, <1>7
<1>9. \A i \in 1..n : \A e \in deps[frames[i].mod] \ frames'[i].left :
         e \in Registered /\ mstate[e] = "LOADED"
  BY <1>3, <1>6, <1>7, SMTT(60) DEF ModuleInv, StackInv, n
<1>10. StackInv'
  <2>1. \A i, j \in 1..n : frames'[i].mod = frames'[j].mod => i = j
    BY <1>8 DEF ModuleInv, StackInv, n
  <2>2. \A i \in 1..n : mstate[frames'[i].mod] = "DECLARED"
    BY <1>8 DEF ModuleInv, StackInv, n
  <2>3. in_init' \in BOOLEAN /\ ~in_init'
    BY DEF ModuleInv, StackInv
  <2> QED
    BY <1>0, <1>5, <1>8, <1>9, <2>1, <2>2, <2>3, SMTT(60) DEF StackInv
<1>11. LoadedInv' /\ DependenciesFirst'
  BY <1>0, SMTT(60) DEF ModuleInv, LoadedInv, DependenciesFirst
<1> QED
  BY <1>10, <1>11 DEF ModuleInv

\* The call whose dependencies are all loaded enters init().
LEMMA EnterKeeps ==
  ASSUME ModuleInv, EnterInit
  PROVE  ModuleInv'
<1> DEFINE n == Len(frames)
           m == Top.mod
<1> USE DEF EnterInit
<1>1. /\ n \in Nat \ {0} /\ n \in 1..n
      /\ m \in Registered
      /\ \A i \in 1..(n - 1) : i \in 1..n /\ frames[i].mod # m
  BY PopProperties
<1>2. /\ mstate \in [Registered -> {"DECLARED", "LOADING", "LOADED", "FAILED"}]
      /\ inits \in Seq(Registered) /\ DOMAIN inits = 1..Len(inits)
  BY SeqFacts DEF ModuleInv, LoadedInv
<1>3. Registered' = Registered /\ Names' = Names
  BY <1>1, <1>2 DEF Registered, Names
<1>4. \A o \in Registered : mstate'[o] = IF o = m THEN "LOADING" ELSE mstate[o]
  BY <1>1, <1>2
<1>5. mstate[m] = "DECLARED" /\ frames[n].mod = m
  BY <1>1 DEF Top, ModuleInv, StackInv
<1>6. \A i \in 1..n : frames[i].mod \in Registered
  <2> TAKE i \in 1..n
  <2>1. frames[i] \in [mod : Registered, left : SUBSET Names]
    BY SeqFacts DEF ModuleInv, StackInv
  <2> QED
    BY <2>1
<1>7. \A i \in 1..n : mstate'[frames[i].mod] = IF i = n THEN "LOADING" ELSE "DECLARED"
  <2> TAKE i \in 1..n
  <2>1. CASE i = n
    BY <2>1, <1>1, <1>4, <1>5
  <2>2. CASE i # n
    <3>1. frames[i].mod # m
      BY <2>2, <1>1, SMTT(60)
    <3>2. mstate[frames[i].mod] = "DECLARED"
      BY DEF ModuleInv, StackInv
    <3> QED
      BY <2>2, <3>1, <3>2, <1>4, <1>6
  <2> QED
    BY <2>1, <2>2
<1>8. \A i \in 1..n : \A d \in deps[frames[i].mod] \ frames[i].left :
         d \in Registered /\ mstate'[d] = "LOADED"
  <2> TAKE i \in 1..n
  <2> TAKE d \in deps[frames[i].mod] \ frames[i].left
  <2>1. d \in Registered /\ mstate[d] = "LOADED"
    BY DEF ModuleInv, StackInv
  <2> QED
    BY <2>1, <1>4, <1>5
<1>9. StackInv'
  <2>1. in_init' \in BOOLEAN /\ in_init' /\ frames' = frames /\ Top' = Top /\ deps' = deps
    BY DEF Top
  <2>2. \A i \in 1..Len(frames') :
          mstate'[frames'[i].mod] = IF in_init' /\ i = Len(frames') THEN "LOADING" ELSE "DECLARED"
    BY <1>7, <2>1
  <2>3. in_init' => frames' # <<>> /\ Top'.left = {}
    BY <2>1
  <2> QED
    BY <1>3, <1>8, <2>1, <2>2, <2>3 DEF ModuleInv, StackInv
<1>10. LoadedInv'
  BY <1>2, <1>3, <1>4 DEF ModuleInv, LoadedInv
<1>11. \A i \in DOMAIN inits : mstate'[inits[i]] = "LOADED"
  BY <1>2, <1>4, <1>5, SeqFacts DEF ModuleInv, DependenciesFirst
<1>12. DependenciesFirst'
  BY <1>11, SMTT(60) DEF ModuleInv, DependenciesFirst
<1> QED
  BY <1>9, <1>10, <1>12 DEF ModuleInv

\* Every step of the module manager preserves the invariant.
LEMMA NextModuleInv == ModuleInv /\ [ModuleNext]_module_vars => ModuleInv'
<1> SUFFICES ASSUME ModuleInv, [ModuleNext]_module_vars PROVE ModuleInv'
  OBVIOUS
<1>1. ASSUME module_load_all PROVE ModuleInv'
  <2>1. PICK m \in Registered : find_next_declared(m) /\ frames' = <<Frame(m)>>
    BY <1>1 DEF module_load_all
  <2>2. frames = <<>> /\ UNCHANGED <<priority, deps, mstate, in_init, inits>>
    BY <1>1 DEF module_load_all
  <2>3. mstate[m] = "DECLARED" /\ ~in_init
    BY <2>1, <2>2 DEF find_next_declared, Declared, ModuleInv, StackInv
  <2>4. ~OnStack(m)
    BY <2>2, SMTT(60) DEF OnStack
  <2>5. frames' = Append(frames, Frame(m))
    BY <2>1, <2>2, SMTT(60)
  <2> QED
    BY <2>2, <2>3, <2>4, <2>5, PushKeeps
<1>2. ASSUME LookAtDependency PROVE ModuleInv'
  <2>1. /\ frames # <<>> /\ ~in_init
        /\ UNCHANGED <<priority, deps, in_init, inits>>
    BY <1>2 DEF LookAtDependency
  <2>2. PICK d \in Top.left :
          \/ /\ CannotLoad(d)
             /\ mstate' = [mstate EXCEPT ![Top.mod] = "FAILED"]
             /\ frames' = Pop
          \/ /\ ~CannotLoad(d) /\ mstate[d] /= "DECLARED"
             /\ frames' = [frames EXCEPT ![Len(frames)].left = Top.left \ {d}]
             /\ UNCHANGED mstate
          \/ /\ ~CannotLoad(d) /\ mstate[d] = "DECLARED"
             /\ frames' = Append(frames, Frame(d))
             /\ UNCHANGED mstate
    BY <1>2 DEF LookAtDependency
  <2>3. CASE CannotLoad(d) /\ mstate' = [mstate EXCEPT ![Top.mod] = "FAILED"] /\ frames' = Pop
    <3>1. in_init' = FALSE
      BY <2>1 DEF ModuleInv, StackInv
    <3> QED
      BY <2>1, <2>3, <3>1, PopKeeps
  <2>4. ~CannotLoad(d) => /\ d \in Registered /\ ~OnStack(d)
                          /\ mstate[d] # "DECLARED" => mstate[d] = "LOADED"
    BY DEF CannotLoad, ModuleInv, LoadedInv
  <2>5. CASE /\ ~CannotLoad(d) /\ mstate[d] /= "DECLARED" /\ UNCHANGED mstate
             /\ frames' = [frames EXCEPT ![Len(frames)].left = Top.left \ {d}]
    BY <2>1, <2>4, <2>5, PassKeeps
  <2>6. CASE /\ ~CannotLoad(d) /\ mstate[d] = "DECLARED" /\ UNCHANGED mstate
             /\ frames' = Append(frames, Frame(d))
    BY <2>1, <2>4, <2>6, PushKeeps
  <2> QED
    BY <2>2, <2>3, <2>5, <2>6
<1>3. ASSUME EnterInit PROVE ModuleInv'
  BY <1>3, EnterKeeps
<1>4. ASSUME NEW rc \in BOOLEAN, LeaveInit(rc) PROVE ModuleInv'
  <2>1. /\ in_init /\ frames # <<>> /\ in_init' = FALSE /\ frames' = Pop
        /\ UNCHANGED <<priority, deps>>
    BY <1>4 DEF LeaveInit, ModuleInv, StackInv
  <2>2. CASE rc
    <3>1. mstate' = [mstate EXCEPT ![Top.mod] = "LOADED"] /\ inits' = Append(inits, Top.mod)
      BY <1>4, <2>2 DEF LeaveInit
    <3> QED
      BY <2>1, <3>1, PopKeeps
  <2>3. CASE ~rc
    <3>1. mstate' = [mstate EXCEPT ![Top.mod] = "FAILED"] /\ inits' = inits
      BY <1>4, <2>3 DEF LeaveInit
    <3> QED
      BY <2>1, <3>1, PopKeeps
  <2> QED
    BY <2>2, <2>3
<1>5. ASSUME UNCHANGED module_vars PROVE ModuleInv'
  BY <1>5, SMTT(60)
     DEF module_vars, ModuleInv, StackInv, LoadedInv, DependenciesFirst, Registered, Names, Top
<1> QED
  BY <1>1, <1>2, <1>3, <1>4, <1>5 DEF ModuleNext

\* The invariant holds on every table of descriptors.
THEOREM ModulesInvariant == ModuleSpec => []ModuleInv
  BY InitModuleInv, NextModuleInv, PTL DEF ModuleSpec

\* On every table of descriptors, a module's init() succeeds at most once, and
\* only after those of all its dependencies.
THEOREM ModulesDependenciesFirst == ModuleSpec => []DependenciesFirst
<1>1. ModuleInv => DependenciesFirst
  BY DEF ModuleInv
<1> QED
  BY <1>1, ModulesInvariant, PTL

-----------------------------------------------------------------------------
(* drivers/storage/ahci.c.                                                 *)

\* The command slot while no command was given up: outside a call nothing is
\* issued but on a halted port; in a call the issued table is the caller's, and
\* a cleared bit means that the disk is done with it.
AhciInv ==
  /\ a_given_up \in Nat
  /\ \/ a_call = <<>>
     \/ a_stage /= "probe" /\ \E c \in AhciCmds : a_call = <<c>>
     \/ a_stage /= "probe" /\ \E c \in AhciCmds : a_call = <<c, "rung">>
  /\ a_given_up = 0 =>
       /\ a_own
       /\ disk_op = "halted" => ci
       /\ Len(a_call) < 2 => DiskFree /\ (ci => disk_op = "halted")
       /\ Len(a_call) = 2 =>
            \/ disk_op = "halted"
            \/ ci /\ ~tfes /\ table = a_call[1] /\ disk_op \in {"none", table}
            \/ ~ci /\ disk_op = "none" /\ (~err => a_served = a_call[1])

\* It holds before ahci_init().
LEMMA AhciInitInv == AhciInit => AhciInv
  BY SMTT(60) DEF AhciInit, AhciInv, DiskFree

\* Every step of a call, of the disk and of the waiting loops keeps it.
LEMMA AhciStepInv == AhciInv /\ AhciNext => AhciInv'
<1> SUFFICES ASSUME AhciInv, AhciNext PROVE AhciInv'
  OBVIOUS
<1> USE DEF AhciInv, DiskFree
<1>1. ASSUME NEW c \in AhciCmds, AhciFill(c) PROVE AhciInv'
  BY <1>1, SMTT(60) DEF AhciFill
<1>2. CASE AhciIssue
  BY <1>2, SMTT(60) DEF AhciIssue
<1>3. CASE AhciReturn
  <2>1. PICK c \in AhciCmds : a_call = <<c, "rung">>
    BY <1>3, SMTT(60) DEF AhciReturn
  <2>2. a_given_up = 0 => /\ ~tfes /\ ~err => a_served = a_call[1]
                          /\ DiskFree /\ (ci => disk_op = "halted")
    BY <1>3, <2>1 DEF AhciReturn
  <2>3. a_given_up = 0 => a_own'
    BY <1>3, <2>2 DEF AhciReturn, GoodResult
  <2> QED
    BY <1>3, <2>2, <2>3, SMTT(60) DEF AhciReturn
<1>4. CASE AhciTimeout
  BY <1>4, SMTT(60) DEF AhciTimeout
<1>5. CASE AhciFetch
  BY <1>5 DEF AhciFetch
<1>6. CASE AhciComplete
  BY <1>6 DEF AhciComplete
<1>7. CASE AhciError
  BY <1>7, SMTT(60) DEF AhciError
<1> QED
  BY <1>1, <1>2, <1>3, <1>4, <1>5, <1>6, <1>7 DEF AhciNext

\* ahci_init() keeps it.
LEMMA AhciSetupInv == ASSUME AhciInv, NEW bar, NEW ports, ahci_init(bar, ports) PROVE AhciInv'
  BY SMTT(60) DEF ahci_init, AhciInv, DiskFree

-----------------------------------------------------------------------------
(* drivers/network/e1000/e1000.c.                                          *)

\* How far slot s is behind slot h, going round the ring.
Ahead(h, s) == IF s >= h THEN s - h ELSE s - h + RingCount

\* The slot n places after slot h.
Round(h, n) == IF h + n >= RingCount THEN h + n - RingCount ELSE h + n

\* A ring of descriptors r that holds the frames q from slot h on, with the
\* descriptor-done bit at d in those slots and at e in the others.
Holds(r, h, q, d, e) ==
  /\ r \in [Slots -> [dd : BOOLEAN, frame : Frames \cup {NoFrame}]]
  /\ h \in Slots /\ q \in Seq(Frames) /\ Len(q) <= RingCount
  /\ \A s \in Slots : Ahead(h, s) < Len(q) => r[s].dd = d /\ r[s].frame = q[Ahead(h, s) + 1]
  /\ \A s \in Slots : Ahead(h, s) >= Len(q) => r[s].dd = e

\* The inductive invariant of e1000.c: the transmit ring holds the frames that
\* were sent and have not left, the receive ring those that arrived and have not
\* been polled, and one receive descriptor is never given to the card.
E1000Inv ==
  /\ Holds(tx, tdh, sending, FALSE, TRUE) /\ tx_tail = Round(tdh, Len(sending))
  /\ Holds(rx, rx_next, arrived, TRUE, FALSE) /\ rdh = Round(rx_next, Len(arrived))
  /\ Len(arrived) < RingCount /\ rdt = Round(rx_next, RingCount - 1)
  /\ frames_in_order

\* The next descriptor.
LEMMA AfterWraps ==
  \A i \in Slots : After(i) = Round(i, 1) /\ After(i) \in Slots
  BY E1000Assumption, SMTT(60) DEF After, Slots, Round

\* Writing the slot after the last.
LEMMA HoldsAppend ==
  ASSUME NEW r, NEW h, NEW q, NEW d \in BOOLEAN, NEW e \in BOOLEAN, Holds(r, h, q, d, e), Len(q) < RingCount,
         NEW f \in Frames
  PROVE  /\ Holds([r EXCEPT ![Round(h, Len(q))] = [dd |-> d, frame |-> f]], h, Append(q, f), d, e)
         /\ After(Round(h, Len(q))) = Round(h, Len(q) + 1) /\ Len(Append(q, f)) = Len(q) + 1
<1> DEFINE n == Len(q)
           s == Round(h, n)
           r2 == [r EXCEPT ![s] = [dd |-> d, frame |-> f]]
           q2 == Append(q, f)
<1> h \in Slots /\ n \in Nat /\ RingCount \in Nat /\ RingCount > 1 /\ n < RingCount
  BY E1000Assumption, SMTT(60) DEF Holds
<1> s \in Slots /\ Ahead(h, s) = n
  BY SMTT(60) DEF Slots, Round, Ahead
<1> /\ q2 \in Seq(Frames) /\ Len(q2) = n + 1 /\ q2[n + 1] = f
    /\ \A i \in 1..n : q2[i] = q[i]
  BY AppendFacts, SMTT(60) DEF Holds
<1>4. \A t \in Slots : Ahead(h, t) = n => t = s
  BY SMTT(60) DEF Slots, Round, Ahead
<1>5. \A t \in Slots : Ahead(h, t) \in Nat
  BY SMTT(60) DEF Slots, Ahead
<1> /\ r2 \in [Slots -> [dd : BOOLEAN, frame : Frames \cup {NoFrame}]]
    /\ r2[s] = [dd |-> d, frame |-> f]
    /\ \A t \in Slots \ {s} : r2[t] = r[t]
  BY DEF Holds
<1>7. After(s) = Round(h, n + 1)
  BY AfterWraps, SMTT(60) DEF Slots, Round
<1> HIDE DEF r2, q2, s
<1>8. \A t \in Slots : Ahead(h, t) < n + 1 => r2[t].dd = d /\ r2[t].frame = q2[Ahead(h, t) + 1]
  <2> SUFFICES ASSUME NEW t \in Slots, Ahead(h, t) < n + 1
               PROVE  r2[t].dd = d /\ r2[t].frame = q2[Ahead(h, t) + 1]
    OBVIOUS
  <2>1. CASE t = s
    BY <2>1, SMTT(60)
  <2>2. CASE t # s
    <3>1. Ahead(h, t) < n /\ Ahead(h, t) + 1 \in 1..n
      BY <2>2, <1>4, <1>5, SMTT(60)
    <3> QED
      BY <2>2, <3>1, SMTT(60) DEF Holds
  <2> QED
    BY <2>1, <2>2
<1>9. \A t \in Slots : Ahead(h, t) >= n + 1 => r2[t].dd = e
  <2> SUFFICES ASSUME NEW t \in Slots, Ahead(h, t) >= n + 1 PROVE r2[t].dd = e
    OBVIOUS
  <2>1. t # s /\ Ahead(h, t) >= n
    BY <1>5, SMTT(60)
  <2> QED
    BY <2>1, SMTT(60) DEF Holds
<1>10. Holds(r2, h, q2, d, e)
  BY <1>8, <1>9, SMTT(60) DEF Holds
<1> QED
  BY <1>7, <1>10 DEF r2, q2, s

\* Giving the first slot back.
LEMMA HoldsTail ==
  ASSUME NEW r, NEW h, NEW q, NEW d \in BOOLEAN, NEW e \in BOOLEAN, Holds(r, h, q, d, e), q # <<>>
  PROVE  /\ h \in Slots /\ r[h].dd = d /\ r[h].frame = Head(q)
         /\ Holds([r EXCEPT ![h].dd = e], After(h), Tail(q), d, e)
         /\ Len(Tail(q)) = Len(q) - 1 /\ Len(q) \in Nat \ {0}
         /\ Round(After(h), Len(Tail(q))) = Round(h, Len(q))
<1> DEFINE n == Len(q)
           r2 == [r EXCEPT ![h].dd = e]
           g == After(h)
           q2 == Tail(q)
<1> h \in Slots /\ n \in Nat \ {0} /\ RingCount \in Nat /\ RingCount > 1 /\ n <= RingCount
  BY E1000Assumption, EmptyFacts, SMTT(60) DEF Holds
<1> g \in Slots /\ g = Round(h, 1)
  BY AfterWraps
<1> /\ q2 \in Seq(Frames) /\ Len(q2) = n - 1 /\ Head(q) = q[1]
    /\ \A i \in 1..(n - 1) : q2[i] = q[i + 1]
  BY TailFacts, SMTT(60) DEF Holds
<1>4. Ahead(h, h) = 0 /\ Ahead(g, h) = RingCount - 1
  BY SMTT(60) DEF Slots, Round, Ahead
<1>5. \A t \in Slots : t # h => Ahead(h, t) = Ahead(g, t) + 1
  BY SMTT(60) DEF Slots, Round, Ahead
<1>6. \A t \in Slots : Ahead(g, t) \in Nat
  BY SMTT(60) DEF Slots, Ahead
<1>7. r[h].dd = d /\ r[h].frame = Head(q)
  BY <1>4, SMTT(60) DEF Holds
<1> /\ r2 \in [Slots -> [dd : BOOLEAN, frame : Frames \cup {NoFrame}]]
    /\ r2[h].dd = e
    /\ \A t \in Slots \ {h} : r2[t] = r[t]
  <2> DEFINE D == [dd : BOOLEAN, frame : Frames \cup {NoFrame}]
  <2>2. r \in [Slots -> D] /\ r[h] \in D
    BY DEF Holds
  <2>3. [r[h] EXCEPT !.dd = e] \in D /\ [r[h] EXCEPT !.dd = e].dd = e
    BY <2>2
  <2> HIDE DEF D
  <2>4. /\ [r EXCEPT ![h].dd = e] \in [Slots -> D]
        /\ [r EXCEPT ![h].dd = e][h] = [r[h] EXCEPT !.dd = e]
        /\ \A t \in Slots \ {h} : [r EXCEPT ![h].dd = e][t] = r[t]
    BY <2>2, <2>3
  <2> QED
    BY <2>3, <2>4 DEF D
<1>9. Round(g, n - 1) = Round(h, n)
  BY SMTT(60) DEF Slots, Round
<1> HIDE DEF r2, q2, g
<1>10. \A t \in Slots : Ahead(g, t) < n - 1 => r2[t].dd = d /\ r2[t].frame = q2[Ahead(g, t) + 1]
  <2> SUFFICES ASSUME NEW t \in Slots, Ahead(g, t) < n - 1
               PROVE  r2[t].dd = d /\ r2[t].frame = q2[Ahead(g, t) + 1]
    OBVIOUS
  <2>1. t # h /\ Ahead(h, t) = Ahead(g, t) + 1 /\ Ahead(g, t) + 1 \in 1..(n - 1) /\ Ahead(h, t) < n
    BY <1>4, <1>5, <1>6, SMTT(60)
  <2>2. r[t].dd = d /\ r[t].frame = q[Ahead(h, t) + 1]
    BY <2>1 DEF Holds
  <2> QED
    BY <2>1, <2>2
<1>11. \A t \in Slots : Ahead(g, t) >= n - 1 => r2[t].dd = e
  <2> SUFFICES ASSUME NEW t \in Slots, Ahead(g, t) >= n - 1 PROVE r2[t].dd = e
    OBVIOUS
  <2>1. CASE t = h
    BY <2>1
  <2>2. CASE t # h
    <3>1. Ahead(h, t) >= n
      BY <2>2, <1>5, <1>6, SMTT(60)
    <3> QED
      BY <3>1, <2>2 DEF Holds
  <2> QED
    BY <2>1, <2>2
<1>12. Holds(r2, g, q2, d, e)
  BY <1>10, <1>11, SMTT(60) DEF Holds
<1> QED
  BY <1>7, <1>9, <1>12 DEF r2, q2, g

\* Both rings start empty.
LEMMA E1000InitInv == E1000Init => E1000Inv
<1> SUFFICES ASSUME E1000Init PROVE E1000Inv
  OBVIOUS
<1> sending \in Seq(Frames) /\ Len(sending) = 0 /\ arrived \in Seq(Frames) /\ Len(arrived) = 0
  BY EmptyFacts DEF E1000Init
<1>2. \A s \in Slots : Ahead(0, s) >= 0 /\ ~(Ahead(0, s) < 0)
  BY E1000Assumption, SMTT(60) DEF Ahead, Slots
<1> 0 \in Slots /\ RingCount \in Nat /\ RingCount > 1 /\ Round(0, 0) = 0
    /\ Round(0, RingCount - 1) = RingCount - 1
  BY E1000Assumption, SMTT(60) DEF Slots, Round
<1>4. Holds(tx, tdh, sending, FALSE, TRUE)
  BY <1>2, SMTT(60) DEF E1000Init, Holds
<1>5. Holds(rx, rx_next, arrived, TRUE, FALSE)
  BY <1>2, SMTT(60) DEF E1000Init, Holds
<1> QED
  <2>1. /\ tx_tail = Round(tdh, Len(sending)) /\ rdh = Round(rx_next, Len(arrived))
        /\ Len(arrived) < RingCount /\ rdt = Round(rx_next, RingCount - 1)
    BY SMTT(60) DEF E1000Init
  <2> QED
    BY <1>4, <1>5, <2>1 DEF E1000Init, E1000Inv

\* Every step of the driver and of the card keeps the rings in order.
LEMMA E1000StepInv == E1000Inv /\ E1000Next => E1000Inv'
<1> SUFFICES ASSUME E1000Inv, E1000Next PROVE E1000Inv'
  OBVIOUS
<1> /\ Len(sending) \in Nat /\ Len(arrived) \in Nat /\ tdh \in Slots /\ rx_next \in Slots
    /\ RingCount \in Nat /\ RingCount > 1
  BY E1000Assumption, SMTT(60) DEF E1000Inv, Holds
<1>1. ASSUME NEW f \in Frames, e1000_send(f) PROVE E1000Inv'
  <2>1. Len(sending) < RingCount
    <3>1. tx[tx_tail].dd
      BY <1>1 DEF e1000_send, TxFree
    <3>2. Len(sending) = RingCount => tx_tail = tdh /\ Ahead(tdh, tdh) < Len(sending)
      BY SMTT(60) DEF E1000Inv, Round, Slots, Ahead
    <3>3. Len(sending) = RingCount => ~tx[tdh].dd
      BY <3>2 DEF E1000Inv, Holds
    <3> QED
      BY <3>1, <3>2, <3>3, SMTT(60) DEF E1000Inv, Holds
  <2>2. /\ Holds([tx EXCEPT ![tx_tail] = [dd |-> FALSE, frame |-> f]], tdh, Append(sending, f), FALSE, TRUE)
        /\ After(tx_tail) = Round(tdh, Len(sending) + 1) /\ Len(Append(sending, f)) = Len(sending) + 1
    <3>1. Holds(tx, tdh, sending, FALSE, TRUE) /\ tx_tail = Round(tdh, Len(sending))
      BY DEF E1000Inv
    <3> QED
      <4>1. LET s == Round(tdh, Len(sending)) IN
              /\ Holds([tx EXCEPT ![s] = [dd |-> FALSE, frame |-> f]], tdh, Append(sending, f), FALSE, TRUE)
              /\ After(s) = Round(tdh, Len(sending) + 1) /\ Len(Append(sending, f)) = Len(sending) + 1
        BY <2>1, <3>1, HoldsAppend
      <4> QED
        BY <3>1, <4>1
  <2> QED
    BY <1>1, <2>2 DEF e1000_send, E1000Inv
<1>2. ASSUME NEW f \in Frames, CardReceives(f) PROVE E1000Inv'
  <2>1. Len(arrived) + 1 < RingCount
    BY <1>2, SMTT(60) DEF CardReceives, E1000Inv, Round, Slots
  <2>2. /\ Holds([rx EXCEPT ![rdh] = [dd |-> TRUE, frame |-> f]], rx_next, Append(arrived, f), TRUE, FALSE)
        /\ After(rdh) = Round(rx_next, Len(arrived) + 1) /\ Len(Append(arrived, f)) = Len(arrived) + 1
    <3>1. Holds(rx, rx_next, arrived, TRUE, FALSE) /\ Len(arrived) < RingCount /\ rdh = Round(rx_next, Len(arrived))
      BY DEF E1000Inv
    <3> QED
      <4>1. LET s == Round(rx_next, Len(arrived)) IN
              /\ Holds([rx EXCEPT ![s] = [dd |-> TRUE, frame |-> f]], rx_next, Append(arrived, f), TRUE, FALSE)
              /\ After(s) = Round(rx_next, Len(arrived) + 1) /\ Len(Append(arrived, f)) = Len(arrived) + 1
        BY <3>1, HoldsAppend
      <4> QED
        BY <3>1, <4>1
  <2> QED
    BY <1>2, <2>1, <2>2 DEF CardReceives, E1000Inv
<1>3. CASE CardSends
  <2> sending # <<>>
    BY <1>3, SMTT(60) DEF CardSends, E1000Inv, Round, Slots
  <2>2. /\ tx[tdh].frame = Head(sending)
        /\ Holds([tx EXCEPT ![tdh].dd = TRUE], After(tdh), Tail(sending), FALSE, TRUE)
        /\ Round(After(tdh), Len(Tail(sending))) = Round(tdh, Len(sending))
    <3>1. Holds(tx, tdh, sending, FALSE, TRUE)
      BY DEF E1000Inv
    <3> QED
      BY <3>1, HoldsTail
  <2>4. tx' = [tx EXCEPT ![tdh].dd = TRUE] /\ sending' = Tail(sending) /\ tdh' = After(tdh)
    BY <1>3 DEF CardSends
  <2>5. frames_in_order'
    BY <1>3, <2>2 DEF CardSends, E1000Inv
  <2> QED
    BY <1>3, <2>2, <2>4, <2>5 DEF CardSends, E1000Inv
<1>4. CASE e1000_poll
  <2>1. arrived # <<>>
    <3>1. rx[rx_next].dd
      BY <1>4 DEF e1000_poll
    <3>2. Ahead(rx_next, rx_next) = 0
      BY SMTT(60) DEF Ahead, Slots
    <3> QED
      BY <3>1, <3>2, SMTT(60) DEF E1000Inv, Holds
  <2>2. /\ rx[rx_next].frame = Head(arrived)
        /\ Holds([rx EXCEPT ![rx_next].dd = FALSE], After(rx_next), Tail(arrived), TRUE, FALSE)
        /\ Len(Tail(arrived)) = Len(arrived) - 1
        /\ Round(After(rx_next), Len(Tail(arrived))) = Round(rx_next, Len(arrived))
    <3>1. Holds(rx, rx_next, arrived, TRUE, FALSE)
      BY DEF E1000Inv
    <3> QED
      BY <2>1, <3>1, HoldsTail
  <2>4. rx' = [rx EXCEPT ![rx_next].dd = FALSE] /\ arrived' = Tail(arrived) /\ rx_next' = After(rx_next)
        /\ rdt' = rx_next
    BY <1>4, <2>1 DEF e1000_poll
  <2>5. frames_in_order'
    BY <1>4, <2>1, <2>2 DEF e1000_poll, E1000Inv
  <2>6. rx_next = Round(After(rx_next), RingCount - 1)
    BY AfterWraps, SMTT(60) DEF Round, Slots
  <2> QED
    <3>1. Len(arrived') < RingCount
      BY <2>2, <2>4, SMTT(60) DEF E1000Inv
    <3> QED
      BY <1>4, <2>2, <2>4, <2>5, <2>6, <3>1 DEF e1000_poll, E1000Inv
<1> QED
  BY <1>1, <1>2, <1>3, <1>4 DEF E1000Next

\* e1000_init() keeps it.
LEMMA E1000SetupInv == ASSUME E1000Inv, NEW found, e1000_init(found) PROVE E1000Inv'
<1>1. UNCHANGED <<tx, tx_tail, tdh, rx, rx_next, rdh, rdt, sending, arrived, frames_in_order>>
  BY SMTT(60) DEF e1000_init
<1> QED
  BY <1>1 DEF E1000Inv, Holds

-----------------------------------------------------------------------------
(* drivers/storage/nvme.c: the pages of a buffer, then the queues.         *)

\* Division with remainder.
LEMMA Division ==
  ASSUME NEW a \in Int, NEW p \in Int, p > 0
  PROVE  a \div p \in Int /\ a % p \in 0..(p - 1) /\ a = p * (a \div p) + (a % p)
  BY SMTT(60)

\* Quotient and remainder are the only ones.
LEMMA DivisionUnique ==
  ASSUME NEW q \in Int, NEW p \in Int, p > 0, NEW r \in 0..(p - 1)
  PROVE  (p * q + r) \div p = q /\ (p * q + r) % p = r
  BY SMTT(60)

\* A larger number has no smaller quotient.
LEMMA QuotientMonotone ==
  ASSUME NEW p \in Int, p > 0, NEW m \in Int, NEW n \in Int, NEW r \in 0..(p - 1), NEW s \in 0..(p - 1),
         p * m + r <= p * n + s
  PROVE  m <= n
<1>1. SUFFICES ASSUME n + 1 <= m PROVE FALSE
  BY SMTT(60)
<1>2. p * n + p <= p * m
  BY <1>1, SMTT(60)
<1>3. p * n \in Int /\ p * m \in Int
  BY SMTT(60)
<1> QED
  BY <1>2, <1>3, SMTT(60)

\* The pages a buffer touches.
LEMMA PagesCounted ==
  ASSUME NEW first \in Nat, NEW count \in Nat, count > 0
  PROVE  LET q0 == first \div PageSize
             qL == (first + count * SectorSize - 1) \div PageSize
         IN  /\ q0 \in Int /\ qL \in Int /\ q0 <= qL
             /\ PageOf(first) = PageSize * q0
             /\ Pages(first, count) = qL - q0 + 1
<1> DEFINE q0 == first \div PageSize
           S == count * SectorSize
           last == first + S - 1
           qL == last \div PageSize
           P == PageSize
<1> P \in Int /\ P > 0 /\ SectorSize \in Nat /\ SectorSize > 0
  BY NvmeAssumption, SMTT(60)
<1>1. S \in Nat /\ S >= 1
  BY SMTT(60)
<1>2. last \in Int /\ first \in Int /\ first <= last
  BY <1>1, SMTT(60)
<1> HIDE DEF S, last, P
<1> /\ q0 \in Int /\ first % P \in 0..(P - 1) /\ first = P * q0 + (first % P)
    /\ qL \in Int /\ last % P \in 0..(P - 1) /\ last = P * qL + (last % P)
  BY <1>2, Division DEF P
<1> HIDE DEF q0, qL
<1>4. q0 <= qL
  BY <1>2, QuotientMonotone
<1>5. PageOf(first) = P * q0 /\ PageOf(last) = P * qL
  BY <1>2, SMTT(60) DEF PageOf, P
<1>6. P * qL - P * q0 = P * (qL - q0) + 0
  BY SMTT(60)
<1>7. (P * qL - P * q0) \div P = qL - q0
  BY <1>6, DivisionUnique, SMTT(60)
<1>8. Pages(first, count) = qL - q0 + 1
  BY <1>5, <1>7 DEF Pages, last, S, P
<1> QED
  BY <1>4, <1>5, <1>8 DEF q0, qL, last, S, P

\* A byte of a buffer beyond its first page is in one of the pages that follow
\* it, up to the last.
LEMMA ByteOfPage ==
  ASSUME NEW P \in Int, P > 0,
         NEW q0 \in Int, NEW r0 \in 0..(P - 1), NEW qL \in Int, NEW rL \in 0..(P - 1),
         NEW k \in Int, P * q0 + r0 + k <= P * qL + rL,
         NEW jq \in Int, NEW jr \in 0..(P - 1), k - (P - r0) = P * jq + jr, k - (P - r0) >= 0
  PROVE  /\ jq + 1 \in 1..(qL - q0)
         /\ P * q0 + (jq + 1) * P + jr = P * q0 + r0 + k
<1>1. P * 0 + 0 <= P * jq + jr /\ 0 \in 0..(P - 1)
  BY SMTT(60)
<1>2. 0 <= jq
  BY <1>1, QuotientMonotone, SMTT(60)
<1>3. P * (q0 + (jq + 1)) = P * q0 + P * jq + P
  BY SMTT(60)
<1>4. P * (q0 + (jq + 1)) + jr <= P * qL + rL
  BY <1>3, SMTT(60)
<1>5. q0 + (jq + 1) <= qL
  <2> DEFINE m == q0 + (jq + 1)
  <2>1. m \in Int /\ P * m + jr <= P * qL + rL
    BY <1>4, SMTT(60)
  <2> HIDE DEF m
  <2>2. m <= qL
    BY <2>1, QuotientMonotone
  <2> QED
    BY <2>2 DEF m
<1>6. (jq + 1) * P = P * jq + P
  BY SMTT(60)
<1> QED
  BY <1>2, <1>5, <1>6, SMTT(60)

\* The controller writes exactly the caller's buffer: byte after byte, the
\* entries and the list of io_submit_read() name the page that holds it.
LEMMA TransferExact ==
  ASSUME NEW c, NEW list,
         c.first \in Nat, c.count \in Nat, c.count > 0,
         c.pages = Pages(c.first, c.count),
         c.pages > 2 => list = PrpList(c.first, c.pages)
  PROVE  Transfer(c, list) = Buffer(c)
<1> DEFINE P == PageSize
           f == c.first
           span == c.count * SectorSize
           last == f + span - 1
           q0 == f \div P
           qL == last \div P
           rest == IF c.pages = 2 THEN <<PageOf(c.first) + PageSize>>
                   ELSE IF c.pages > 2 THEN list ELSE <<>>
           head == PageSize - (c.first % PageSize)
           Nth(k) == IF k < head THEN c.first + k
                     ELSE LET p == (k - head) \div PageSize + 1
                          IN  IF p \in DOMAIN rest THEN rest[p] + ((k - head) % PageSize) ELSE -1
<1>0. P \in Int /\ P > 0 /\ SectorSize \in Nat /\ SectorSize > 0
  BY NvmeAssumption, SMTT(60)
<1>1. span \in Nat /\ span >= 1 /\ f \in Int /\ last \in Int /\ f \in Nat
  BY <1>0, SMTT(60)
<1>2. /\ q0 \in Int /\ qL \in Int /\ q0 <= qL
      /\ PageOf(f) = P * q0
      /\ c.pages = qL - q0 + 1
  BY PagesCounted
<1>3. \A p \in 1..(qL - q0) : p \in DOMAIN rest /\ rest[p] = P * q0 + p * P
  BY <1>0, <1>2, SMTT(60) DEF PrpList
<1>4. Transfer(c, list) = {Nth(k) : k \in 0..(span - 1)}
  BY DEF Transfer
<1>5. last = f + span - 1
  OBVIOUS
<1> HIDE DEF P, f, span, last, rest
<1>6. /\ f % P \in 0..(P - 1) /\ f = P * q0 + (f % P)
      /\ last % P \in 0..(P - 1) /\ last = P * qL + (last % P)
  BY <1>0, <1>1, Division
<1>7. head = P - (f % P)
  BY DEF P, f
<1> HIDE DEF q0, qL, head
<1>8. ASSUME NEW k \in 0..(span - 1) PROVE Nth(k) = f + k
  <2>1. CASE k < head
    BY <2>1 DEF f
  <2>2. CASE ~(k < head)
    <3> DEFINE j == k - head
               jq == j \div P
               jr == j % P
               r0 == f % P
               rL == last % P
    <3> j \in Int /\ j >= 0 /\ k \in Int /\ j = k - (P - r0)
      BY <2>2, <1>0, <1>1, <1>6, <1>7, SMTT(60)
    <3> HIDE DEF j
    <3>2. jq \in Int /\ jr \in 0..(P - 1) /\ j = P * jq + jr
      BY <1>0, Division
    <3>3. /\ q0 \in Int /\ qL \in Int /\ r0 \in 0..(P - 1) /\ rL \in 0..(P - 1) /\ f = P * q0 + r0
          /\ P * q0 + r0 + k <= P * qL + rL
      BY <1>1, <1>2, <1>5, <1>6, SMTT(60)
    <3> HIDE DEF jq, jr, r0, rL
    <3>4. k - (P - r0) = P * jq + jr /\ k - (P - r0) >= 0
      BY <3>2
    <3>5. jq + 1 \in 1..(qL - q0) /\ P * q0 + (jq + 1) * P + jr = P * q0 + r0 + k
      BY <1>0, <3>2, <3>3, <3>4, ByteOfPage, SMTT(60)
    <3>6. jq + 1 \in DOMAIN rest /\ rest[jq + 1] + jr = f + k
      BY <1>3, <3>3, <3>5
    <3> QED
      BY <2>2, <3>6 DEF P, j, jq, jr
  <2> QED
    BY <2>1, <2>2
<1> HIDE DEF Nth
<1>9. Transfer(c, list) = {f + k : k \in 0..(span - 1)}
  BY <1>4, <1>8
<1>10. \A x \in f..last : x - f \in 0..(span - 1) /\ x = f + (x - f)
  BY <1>1, <1>5, SMTT(60)
<1>11. {f + k : k \in 0..(span - 1)} = f..last
  BY <1>1, <1>5, <1>10, SMTT(60)
<1> QED
  BY <1>9, <1>11 DEF Buffer, span, last, f

\* The entries of the submission rings.
Cmds == [cid : Nat, first : Nat, count : Nat, pages : Int]

\* The places of a queue, and the rings built from them.
Places == 0..(QDepth - 1)

\* The two rings of a queue.
Submissions == [Places -> Cmds]
Completions == [Places -> [phase : {0, 1}, cid : Nat, ok : BOOLEAN]]

\* A queue.
Rings ==
  [sq : Submissions, tail : Places, head : Places, phase : {0, 1}, cq : Completions,
   sq_head : Places, cq_tail : Places, cq_phase : {0, 1}]

\* The completion ring: the entries the controller wrote in this lap carry its
\* phase, the others the one of the lap before.
PhasesMark(q) ==
  /\ q \in Rings
  /\ \A i \in Places : q.cq[i].phase = IF i < q.cq_tail THEN q.cq_phase ELSE 1 - q.cq_phase

\* No command is on its way.
Quiet(q) == q.sq_head = q.tail /\ q.cq_tail = q.head /\ q.cq_phase = q.phase

\* c is on its way.
Pending(q, c) ==
  /\ q.tail = Step(q.sq_head) /\ q.sq[q.sq_head] = c
  /\ q.cq_tail = q.head /\ q.cq_phase = q.phase

\* The last command has been answered.
Answered(q) ==
  /\ q.sq_head = q.tail /\ q.cq_tail = Step(q.head)
  /\ q.cq_phase = IF Step(q.head) = 0 THEN 1 - q.phase ELSE q.phase

\* A command of io_submit_read() and the list that goes with it.
WellFormed(c, list) ==
  /\ c.count > 0 /\ c.pages = Pages(c.first, c.count)
  /\ c.pages > 2 => list = PrpList(c.first, c.pages)

\* As long as no read was given up, the ring of reads holds at most the read
\* that is polled for, and an answer to it is the answer to that read.
NvmeInv ==
  /\ given_up \in Nat /\ g_cid \in Nat
  /\ given_up = 0 =>
       /\ own_read
       /\ PhasesMark(io)
       /\ \/ polling \in {<<>>, <<"admin", NoCmd>>} /\ Quiet(io)
          \/ \E c \in Cmds :
               /\ polling = <<"io", c>> /\ WellFormed(c, prp_list)
               /\ \/ Pending(io, c)
                  \/ Answered(io) /\ (io.cq[io.head].ok => filled = <<c, Buffer(c)>>)

\* The next place of a queue.
LEMMA StepPlaces == \A i \in Places : Step(i) \in Places /\ Step(i) = IF i + 1 = QDepth THEN 0 ELSE i + 1
  BY NvmeAssumption, SMTT(60) DEF Places, Step

\* A command goes into a quiet ring.
LEMMA SubmitPending ==
  ASSUME NEW q, PhasesMark(q), Quiet(q), NEW c \in Cmds
  PROVE  PhasesMark(Submit(q, c)) /\ Pending(Submit(q, c), c)
<1> DEFINE r == Submit(q, c)
           sq2 == [q.sq EXCEPT ![q.tail] = c]
<1> q \in Rings /\ q.tail \in Places /\ Step(q.tail) \in Places /\ q.sq \in Submissions
  BY StepPlaces DEF PhasesMark, Rings
<1> sq2 \in Submissions /\ sq2[q.tail] = c
  BY DEF Submissions
<1>3. r = [q EXCEPT !.sq = sq2, !.tail = Step(q.tail)]
  BY DEF Submit, Rings
<1> HIDE DEF sq2, r
<1>4a. r \in Rings
  BY <1>3 DEF Rings
<1>4. /\ r.sq = sq2 /\ r.tail = Step(q.tail) /\ r.head = q.head /\ r.phase = q.phase
      /\ r.cq = q.cq /\ r.sq_head = q.sq_head /\ r.cq_tail = q.cq_tail /\ r.cq_phase = q.cq_phase
  BY <1>3 DEF Rings
<1>5. PhasesMark(r)
  BY <1>4, <1>4a DEF PhasesMark
<1>6. Pending(r, c)
  BY <1>4 DEF Pending, Quiet
<1> QED
  BY <1>5, <1>6 DEF r

\* The controller answers the command of a ring.
LEMMA AnswerAnswered ==
  ASSUME NEW q, NEW c, PhasesMark(q), Pending(q, c), NEW ok \in BOOLEAN
  PROVE  /\ PhasesMark(Answer(q, ok)) /\ Answered(Answer(q, ok))
         /\ Answer(q, ok).cq[Answer(q, ok).head].ok = ok
<1> DEFINE r == Answer(q, ok)
           t == q.cq_tail
           e == [phase |-> q.cq_phase, cid |-> q.sq[q.sq_head].cid, ok |-> ok]
           cq2 == [q.cq EXCEPT ![t] = e]
           p2 == IF Step(t) = 0 THEN 1 - q.cq_phase ELSE q.cq_phase
<1> /\ q \in Rings /\ t \in Places /\ Step(t) \in Places /\ q.sq_head \in Places
    /\ Step(q.sq_head) \in Places /\ q.cq_phase \in {0, 1} /\ q.sq[q.sq_head] \in Cmds
    /\ q.cq \in Completions
  BY StepPlaces DEF PhasesMark, Rings, Submissions
<1> e \in [phase : {0, 1}, cid : Nat, ok : BOOLEAN] /\ e.phase = q.cq_phase /\ e.ok = ok
  BY DEF Cmds
<1>3. p2 \in {0, 1}
  BY SMTT(60)
<1>4. r = [q EXCEPT !.sq_head = Step(q.sq_head), !.cq = cq2, !.cq_tail = Step(t), !.cq_phase = p2]
  BY DEF Answer, Rings
<1> HIDE DEF e
<1> /\ cq2 \in Completions /\ cq2[t] = e
    /\ \A i \in Places \ {t} : cq2[i] = q.cq[i]
  BY DEF Completions
<1> HIDE DEF cq2, r, p2
<1>6a. r \in Rings
  BY <1>3, <1>4 DEF Rings
<1>6. /\ r.sq = q.sq /\ r.tail = q.tail /\ r.head = q.head /\ r.phase = q.phase
      /\ r.cq = cq2 /\ r.sq_head = Step(q.sq_head) /\ r.cq_tail = Step(t) /\ r.cq_phase = p2
  BY <1>3, <1>4 DEF Rings
<1>7. ASSUME NEW i \in Places PROVE cq2[i].phase = IF i < Step(t) THEN p2 ELSE 1 - p2
  <2>1. cq2[i].phase = IF i = t THEN q.cq_phase ELSE IF i < t THEN q.cq_phase ELSE 1 - q.cq_phase
    BY DEF PhasesMark
  <2>2. Step(t) = IF t + 1 = QDepth THEN 0 ELSE t + 1
    BY StepPlaces
  <2> QED
    BY <2>1, <2>2, NvmeAssumption, SMTT(60) DEF p2, Places
<1>8. PhasesMark(r)
  BY <1>6, <1>6a, <1>7 DEF PhasesMark
<1>9. t = q.head /\ q.cq_phase = q.phase /\ q.tail = Step(q.sq_head)
  BY DEF Pending
<1>10. Answered(r) /\ r.cq[r.head].ok = ok
  BY <1>6, <1>9 DEF Answered, p2
<1> QED
  BY <1>8, <1>10 DEF r

\* The driver takes the answer.
LEMMA TakeQuiet ==
  ASSUME NEW q, PhasesMark(q), Answered(q)
  PROVE  PhasesMark(Take(q)) /\ Quiet(Take(q))
<1> DEFINE r == Take(q)
           p2 == IF Step(q.head) = 0 THEN 1 - q.phase ELSE q.phase
<1>1. q \in Rings /\ Step(q.head) \in Places /\ p2 \in {0, 1}
  BY StepPlaces, SMTT(60) DEF PhasesMark, Rings
<1>2. r = [q EXCEPT !.head = Step(q.head), !.phase = p2]
  BY DEF Take
<1> HIDE DEF r, p2
<1>3a. r \in Rings
  BY <1>1, <1>2 DEF Rings
<1>3. /\ r.sq = q.sq /\ r.tail = q.tail /\ r.head = Step(q.head) /\ r.phase = p2
      /\ r.cq = q.cq /\ r.sq_head = q.sq_head /\ r.cq_tail = q.cq_tail /\ r.cq_phase = q.cq_phase
  BY <1>1, <1>2 DEF Rings
<1>4. PhasesMark(r)
  BY <1>3, <1>3a DEF PhasesMark
<1>5. Quiet(r)
  BY <1>3 DEF Quiet, Answered, p2
<1> QED
  BY <1>4, <1>5 DEF r

\* Until then the driver sees no completion.
LEMMA PendingUnanswered ==
  ASSUME NEW q, NEW c, PhasesMark(q), Pending(q, c)
  PROVE  ~HasCompletion(q)
  BY SMTT(60) DEF PhasesMark, Pending, HasCompletion, Places, Rings, Completions

\* The invariant holds before nvme_init().
LEMMA NvmeInitInv == NvmeInit => NvmeInv
<1> SUFFICES ASSUME NvmeInit PROVE NvmeInv
  OBVIOUS
<1> io = FreshRing /\ 0 \in Places
  BY NvmeAssumption, SMTT(60) DEF NvmeInit, Places
<1>2. NoCmd \in Cmds
  BY SMTT(60) DEF NoCmd, Cmds
<1>3. FreshRing.sq \in Submissions /\ FreshRing.cq \in Completions
  BY <1>2 DEF FreshRing, Submissions, Completions, Places
<1>4. FreshRing \in Rings
  BY <1>3 DEF FreshRing, Rings
<1>5. \A i \in Places : ~(i < 0) /\ FreshRing.cq[i].phase = 0
  BY SMTT(60) DEF FreshRing, Places
<1>6. PhasesMark(io) /\ Quiet(io)
  <2>1. /\ io.tail = 0 /\ io.head = 0 /\ io.phase = 1
        /\ io.sq_head = 0 /\ io.cq_tail = 0 /\ io.cq_phase = 1
    BY DEF FreshRing
  <2> QED
    BY <1>4, <1>5, <2>1, SMTT(60) DEF PhasesMark, Quiet
<1>7. g_cid \in Nat /\ given_up \in Nat
  BY NvmeAssumption, SMTT(60) DEF NvmeInit
<1>8. own_read /\ polling \in {<<>>, <<"admin", NoCmd>>}
  BY DEF NvmeInit
<1> QED
  BY <1>6, <1>7, <1>8 DEF NvmeInv

\* Every step of the driver and of the controller preserves the invariant.
LEMMA NvmeStepInv == NvmeInv /\ NvmeNext => NvmeInv'
<1> SUFFICES ASSUME NvmeInv, NvmeNext PROVE NvmeInv'
  OBVIOUS
<1> given_up \in Nat /\ g_cid \in Nat /\ CidLimit \in Nat /\ CidLimit > 0
  BY NvmeAssumption, SMTT(60) DEF NvmeInv
<1>1. CASE AdminCommand
  <2>1. g_cid' \in Nat
    BY <1>1, SMTT(60) DEF AdminCommand
  <2> QED
    BY <1>1, <2>1 DEF AdminCommand, NvmeInv
<1>2. CASE AdminDone
  BY <1>2 DEF AdminDone, NvmeInv
<1>3. CASE AdminTimeout
  BY <1>3 DEF AdminTimeout, NvmeInv
<1>4. ASSUME NEW lba \in 0..NsSectors, NEW count \in Counts, NEW first \in Firsts,
             nvme_read_sectors(lba, count, first)
      PROVE  NvmeInv'
  <2> DEFINE pages == Pages(first, count)
             c == [cid |-> g_cid, first |-> first, count |-> count, pages |-> pages]
  <2>1. g_cid' \in Nat
    BY <1>4, SMTT(60) DEF nvme_read_sectors
  <2> first \in Nat /\ count \in Nat /\ count > 0
    BY <1>4, NvmeAssumption DEF nvme_read_sectors
  <2>3. pages \in Int
    BY PagesCounted, SMTT(60)
  <2>4. c \in Cmds
    BY <2>3 DEF Cmds
  <2>5. WellFormed(c, prp_list')
    BY <1>4 DEF nvme_read_sectors, WellFormed
  <2> /\ io' = Submit(io, c) /\ polling' = <<"io", c>> /\ polling = <<>>
      /\ UNCHANGED <<own_read, given_up>>
    BY <1>4 DEF nvme_read_sectors
  <2> HIDE DEF c, pages
  <2>7. given_up = 0 => PhasesMark(io) /\ Quiet(io)
    BY DEF NvmeInv
  <2>8. given_up = 0 => PhasesMark(io') /\ Pending(io', c)
    BY <2>4, <2>7, SubmitPending
  <2> QED
    BY <2>1, <2>4, <2>5, <2>8 DEF NvmeInv
<1>5. CASE ReadDone
  <2>1. CASE given_up = 0
    <3>1. PICK c \in Cmds :
            /\ polling = <<"io", c>> /\ WellFormed(c, prp_list)
            /\ \/ Pending(io, c)
               \/ Answered(io) /\ (io.cq[io.head].ok => filled = <<c, Buffer(c)>>)
      BY <1>5, <2>1, SMTT(60) DEF ReadDone, NvmeInv
    <3>2. PhasesMark(io) /\ HasCompletion(io)
      BY <1>5, <2>1 DEF ReadDone, NvmeInv
    <3>3. Answered(io) /\ (io.cq[io.head].ok => filled = <<c, Buffer(c)>>)
      BY <3>1, <3>2, PendingUnanswered
    <3>4. PhasesMark(io') /\ Quiet(io')
      BY <1>5, <3>2, <3>3, TakeQuiet DEF ReadDone
    <3>5. polling[2] = c
      BY <3>1
    <3>6. own_read'
      BY <1>5, <2>1, <3>3, <3>5 DEF ReadDone, NvmeInv
    <3> QED
      BY <1>5, <3>4, <3>6 DEF ReadDone, NvmeInv
  <2>2. CASE given_up # 0
    BY <1>5, <2>2 DEF ReadDone, NvmeInv
  <2> QED
    BY <2>1, <2>2
<1>6. CASE ReadTimeout
  <2>1. given_up' \in Nat /\ given_up' # 0 /\ g_cid' \in Nat
    BY <1>6, SMTT(60) DEF ReadTimeout
  <2> QED
    BY <2>1 DEF NvmeInv
<1>7. ASSUME NEW ok \in BOOLEAN, ServeAdmin(ok) PROVE NvmeInv'
  BY <1>7 DEF ServeAdmin, NvmeInv
<1>8. ASSUME NEW ok \in BOOLEAN, ServeRead(ok) PROVE NvmeInv'
  <2>1. CASE given_up = 0
    <3>1. PhasesMark(io)
      BY <2>1 DEF NvmeInv
    <3>2. ~Quiet(io) /\ ~Answered(io)
      BY <1>8 DEF ServeRead, CanAnswer, Quiet, Answered
    <3> PICK c \in Cmds : polling = <<"io", c>> /\ WellFormed(c, prp_list) /\ Pending(io, c)
      BY <2>1, <3>2 DEF NvmeInv
    <3> /\ io' = Answer(io, ok) /\ io.sq[io.sq_head] = c
        /\ filled' = IF ok THEN <<c, Transfer(c, prp_list)>> ELSE filled
        /\ UNCHANGED <<g_cid, prp_list, polling, given_up, own_read>>
      BY <1>8 DEF ServeRead, Pending
    <3>5. Transfer(c, prp_list) = Buffer(c)
      BY TransferExact DEF WellFormed, Cmds
    <3>6. PhasesMark(io') /\ Answered(io') /\ io'.cq[io'.head].ok = ok
      BY <3>1, AnswerAnswered
    <3>7. io'.cq[io'.head].ok => filled' = <<c, Buffer(c)>>
      BY <3>5, <3>6
    <3>8. own_read'
      BY <2>1 DEF NvmeInv
    <3> QED
      BY <3>6, <3>7, <3>8 DEF NvmeInv
  <2>2. CASE given_up # 0
    BY <1>8, <2>2 DEF ServeRead, NvmeInv
  <2> QED
    BY <2>1, <2>2
<1> QED
  BY <1>1, <1>2, <1>3, <1>4, <1>5, <1>6, <1>7, <1>8 DEF NvmeNext

\* nvme_init() finds a controller or not.
LEMMA NvmeSetupInv ==
  ASSUME NvmeInv, NEW found, nvme_init(found)
  PROVE  NvmeInv'
  BY DEF nvme_init, NvmeInv

=============================================================================
