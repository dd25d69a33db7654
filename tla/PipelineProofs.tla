--------------------------- MODULE PipelineProofs ---------------------------
(***************************************************************************)
(* What a collection promises, for every value of the constants.           *)
(*                                                                         *)
(* collect_all, for any number of sources, hosts, workers and faults:      *)
(* every source gets its one result, only a worker that is out of memory   *)
(* or cannot be killed fails the others, and the worker processes keep to  *)
(* the limits.  CollectInv relates the tables of the loop to the           *)
(* processes.  Workers, receivers and deadlines move at any time, but only *)
(* in ways that keep it (Behaves); an entry begins by Starting and ends by *)
(* Leaving.                                                                *)
(*                                                                         *)
(* Then the stages that compute, for any items, limits and sizes:          *)
(* deduplication drops copies only, a story is left out only for better    *)
(* ones, and none is lost where a message ends.  PipeInv says that each    *)
(* stage has what the one before computed.  Each computation folds over a  *)
(* sorted sequence: RecursionExists gives the fold its steps, and what is  *)
(* claimed of its result is carried along them (ClusterKeeps,              *)
(* DiverseKeeps, FallbackKeeps, PackKeeps).                                *)
(***************************************************************************)
EXTENDS Pipeline, FiniteSetTheorems, SequenceTheorems, FunctionTheorems,
        WellFoundedInduction, TLAPS

(***************************************************************************)
(* Numbers: the least and the greatest of a set, and induction as the      *)
(* absence of a least counterexample.                                      *)
(***************************************************************************)
\* a set of numbers has its least
LEMMA LeastOne ==
  ASSUME NEW S, S \subseteq Nat, S # {}
  PROVE  Min(S) \in S /\ \A x \in S : Min(S) <= x
<1> DEFINE R == OpToRel(<, Nat)
<1>2. IsWellFoundedOn(R, Nat)
  BY NatLessThanWellFounded
<1>3. PICK x \in S : \A y \in S : <<y, x>> \notin R
  BY <1>2, WFMin
<1>4. \A y \in S : ~(y < x)
  BY <1>3 DEF OpToRel
<1>5. \A y \in S : x <= y
  BY <1>4
<1> QED BY <1>5 DEF Min

\* induction: what holds of 0 and passes on holds of all
LEMMA Counting ==
  ASSUME NEW S, 0 \in S, \A n \in Nat : n \in S => n + 1 \in S
  PROVE  Nat \subseteq S
<1> SUFFICES ASSUME Nat \ S # {} PROVE FALSE
  OBVIOUS
<1> DEFINE n == Min(Nat \ S)
<1>1. n \in Nat \ S /\ \A x \in Nat \ S : n <= x
  BY LeastOne
<1>2. n # 0 /\ n - 1 \in Nat
  BY <1>1
<1>3. n - 1 \in S
  BY <1>1, <1>2
<1>4. (n - 1) + 1 \in S
  BY <1>2, <1>3
<1> HIDE DEF n
<1> QED BY <1>1, <1>2, <1>4

\* the same up to a bound
LEMMA CountingTo ==
  ASSUME NEW N \in Nat, NEW S, 0 \in S, \A n \in 0..(N - 1) : n \in S => n + 1 \in S
  PROVE  0..N \subseteq S
<1> DEFINE T == S \cup {n \in Nat : n > N}
<1>1. 0 \in T
  OBVIOUS
<1>2. \A n \in Nat : n \in T => n + 1 \in T
  OBVIOUS
<1> HIDE DEF T
<1>3. Nat \subseteq T
  BY <1>1, <1>2, Counting
<1> QED BY <1>3 DEF T

\* a bounded set of numbers has its greatest
LEMMA GreatestOne ==
  ASSUME NEW N \in Nat, NEW S, S \subseteq 1..N, S # {}
  PROVE  Max(S) \in S /\ \A x \in S : Max(S) >= x
<1> DEFINE D == {N - x : x \in S}
<1>1. D \subseteq Nat /\ D # {}
  <2>1. \A x \in S : x \in Int /\ N - x \in Nat
    OBVIOUS
  <2>2. PICK x : x \in S
    OBVIOUS
  <2>3. N - x \in D
    BY <2>2
  <2> QED BY <2>1, <2>3
<1>2. Min(D) \in D /\ \A x \in D : Min(D) <= x
  BY <1>1, LeastOne
<1>3. PICK x \in S : Min(D) = N - x
  BY <1>2
<1>4. \A y \in S : N - y \in D
  OBVIOUS
<1>5. \A y \in S : x >= y
  <2> HIDE DEF D
  <2>1. ASSUME NEW y \in S PROVE x >= y
    <3>1. N - x <= N - y
      BY <1>2, <1>3, <1>4
    <3>2. x \in Int /\ y \in Int
      OBVIOUS
    <3> QED BY <3>1, <3>2
  <2> QED BY <2>1
<1> QED BY <1>5 DEF Max

\* the last of 1..n, and what is before it
LEMMA MaxOfInterval ==
  ASSUME NEW n \in Nat \ {0}
  PROVE  Max(1..n) = n /\ (1..n) \ {n} = 1..(n - 1) /\ 1..n # {}
<1>1. Max(1..n) \in 1..n /\ \A x \in 1..n : Max(1..n) >= x
  BY GreatestOne, n \in 1..n
<1> QED BY <1>1

(***************************************************************************)
(* Recursion.  A step that depends on where it is taken has a run from     *)
(* every start; the run of a fold is over sets, as MapThenFoldSet has it.  *)
(***************************************************************************)
Steps(step, D, X) == step \in [D -> [X -> X]]

Runs(f, step, X, base) ==
  /\ f \in [Nat -> X]
  /\ f[0] = base
  /\ \A n \in Nat : f[n + 1] = step[n][f[n]]

\* from approximations of every length, which agree
LEMMA RecursionExists ==
  ASSUME NEW X, NEW base, NEW step, base \in X, Steps(step, Nat, X)
  PROVE  \E f : Runs(f, step, X, base)
<1> USE DEF Steps
<1> DEFINE Good(n, g) == /\ g \in [0..n -> X] /\ g[0] = base
                         /\ \A m \in 0..(n - 1) : g[m + 1] = step[m][g[m]]
           S == {n \in Nat : \E g : Good(n, g)}
<1>1. 0 \in S
  <2>1. Good(0, [m \in 0..0 |-> base])
    OBVIOUS
  <2> QED BY <2>1
<1>2. \A n \in Nat : n \in S => n + 1 \in S
  <2> TAKE n \in Nat
  <2> HAVE n \in S
  <2>1. PICK g : Good(n, g)
    OBVIOUS
  <2> DEFINE h == [m \in 0..(n + 1) |-> IF m = n + 1 THEN step[n][g[n]] ELSE g[m]]
  <2>2. step[n][g[n]] \in X
    BY <2>1
  <2>3. h \in [0..(n + 1) -> X] /\ h[0] = base
    BY <2>1, <2>2
  <2>4. \A m \in 0..n : h[m + 1] = step[m][h[m]]
    <3> TAKE m \in 0..n
    <3>1. CASE m = n
      BY <3>1, <2>1
    <3>2. CASE m # n
      BY <3>2, <2>1
    <3> QED BY <3>1, <3>2
  <2> HIDE DEF h
  <2>5. (n + 1) - 1 = n
    OBVIOUS
  <2>6. Good(n + 1, h)
    BY <2>3, <2>4, <2>5
  <2> HIDE DEF Good
  <2> QED BY <2>6
<1>3. Nat \subseteq S
  <2> HIDE DEF S
  <2> QED BY <1>1, <1>2, Counting
<1> DEFINE G == [n \in Nat |-> CHOOSE g : Good(n, g)]
<1>4. \A n \in Nat : Good(n, G[n])
  BY <1>3
<1>5. \A n \in Nat : \A m \in 0..n : G[n][m] = G[m][m]
  <2>1. \A n, k \in Nat : k >= n => \A m \in 0..n : G[k][m] = G[n][m]
    <3> TAKE n, k \in Nat
    <3> HAVE k >= n
    <3> DEFINE V == {m \in Nat : m <= n => G[k][m] = G[n][m]}
    <3>1. 0 \in V
      BY <1>4
    <3>2. \A m \in Nat : m \in V => m + 1 \in V
      <4> TAKE m \in Nat
      <4> HAVE m \in V
      <4> SUFFICES ASSUME m + 1 <= n PROVE G[k][m + 1] = G[n][m + 1]
        OBVIOUS
      <4>1. G[k][m] = G[n][m] /\ m \in 0..(k - 1) /\ m \in 0..(n - 1)
        OBVIOUS
      <4> HIDE DEF G, V
      <4> QED BY <4>1, <1>4
    <3> HIDE DEF V
    <3>3. Nat \subseteq V
      BY <3>1, <3>2, Counting
    <3> SUFFICES ASSUME NEW m \in 0..n PROVE G[k][m] = G[n][m]
      OBVIOUS
    <3>4. m \in V /\ m <= n
      BY <3>3
    <3> HIDE DEF G
    <3> QED BY <3>4 DEF V
  <2> HIDE DEF G
  <2> QED BY <2>1
<1> DEFINE f == [n \in Nat |-> G[n][n]]
<1>6. f \in [Nat -> X] /\ f[0] = base
  <2> HIDE DEF G
  <2> QED BY <1>4
<1>7. \A n \in Nat : f[n + 1] = step[n][f[n]]
  <2> TAKE n \in Nat
  <2> HIDE DEF G
  <2>1. G[n + 1][n] = G[n][n]
    BY <1>5
  <2>2. G[n + 1][n + 1] = step[n][G[n + 1][n]]
    BY <1>4
  <2> QED BY <2>1, <2>2
<1> HIDE DEF f
<1> QED BY <1>6, <1>7 DEF Runs

-----------------------------------------------------------------------------
(***************************************************************************)
(* The loop of collect_all.                                                *)
(***************************************************************************)
\* the process of s is there, dead or alive
Present(s) == worker[s] \in {"running", "stuck", "exited"}
AtHost(h) == {s \in active : HostOf[s] = h}
Ended == {"cleanup", "raised"}

\* the loop looks at one active source at a time, and at none outside it
Looks ==
  /\ pc = "take" => now \in active \ todo
  /\ pc # "take" => now = 0
  /\ pc \notin {"poll", "take", "cleanup"} => todo = {}

\* a source is pending, active or has its result, and is lost only when an
\* error is on its way
Placed ==
  \A s \in Source :
    /\ s \in left => s \notin active /\ result[s] = "none"
    /\ s \in active => result[s] = "none"
    /\ pc \notin Ended => s \in left \cup active \/ result[s] # "none"

Emptied == pc = "returned" => left = {} /\ active = {}

\* the table of active sources is that of the processes, and the counts are its own
Entries == pc # "raised" => \A s \in Source : Present(s) <=> s \in active
Slots ==
  pc # "raised" =>
    /\ Cardinality(active) <= MaxWorkers
    /\ \A h \in Host : hostActive[h] = Cardinality(AtHost(h)) /\ hostActive[h] <= HostLimit

\* what a receiver has taken is a whole frame
Framed == \A s \in Source : receiver[s] = "frame" => pipe[s] \in Frames

\* a source that is pending has had no process
Unused == \A s \in left : worker[s] = "none"

\* an error has a worker to blame, or a pipe
Blamed ==
  pc \in Ended => \E s \in Source : \/ pipe[s] = "memory_error" \/ worker[s] = "stuck"
                                    \/ Pipeless(s)

CollectInv ==
  /\ CollectTypeOK /\ Looks /\ Placed /\ Emptied /\ Entries /\ Slots /\ Framed /\ Unused
  /\ Blamed /\ WorkersBounded

-----------------------------------------------------------------------------
LEMMA Finite ==
  ASSUME NEW S, S \subseteq Source
  PROVE  IsFiniteSet(S) /\ Cardinality(S) \in Nat
BY CollectAssumption, FS_Subset, FS_CardinalityType

\* what workers, receivers and deadlines do
Behaves ==
  /\ UNCHANGED supervisorVars
  /\ \A s \in Source :
       /\ Present(s)' <=> Present(s)
       /\ Alive(s)' => Alive(s)
       /\ worker[s] = "stuck" => worker'[s] = "stuck"
       /\ worker[s] = "none" => worker'[s] = "none"
       /\ pipe[s] \in Frames => pipe'[s] = pipe[s]
       /\ receiver'[s] = "frame" => pipe'[s] \in Frames

LEMMA Surroundings ==
  ASSUME CollectTypeOK, Framed, NEW s \in Source,
         WorkerStep(s) \/ Sticks(s) \/ SourceDeadline(s)
  PROVE  Behaves /\ CollectTypeOK'
<1> USE DEF CollectTypeOK, supervisorVars, workerVars, clockVars, Present, Alive, Framed, Frames, Pipes
<1>1. ASSUME NEW f \in Frames, Write(s, f), UNCHANGED <<supervisorVars, clockVars, faults>>
      PROVE  Behaves /\ CollectTypeOK'
  BY <1>1 DEF Write, Behaves
<1>2. ASSUME WritePart(s), UNCHANGED <<supervisorVars, clockVars, faults>>
      PROVE  Behaves /\ CollectTypeOK'
  BY <1>2 DEF WritePart, Behaves
<1>3. ASSUME WorkerExits(s), UNCHANGED <<supervisorVars, clockVars, faults>>
      PROVE  Behaves /\ CollectTypeOK'
  BY <1>3 DEF WorkerExits, Behaves
<1>4. ASSUME Receive(s), UNCHANGED <<supervisorVars, clockVars, faults>>
      PROVE  Behaves /\ CollectTypeOK'
  BY <1>4 DEF Receive, Behaves
<1>5. CASE Sticks(s)
  <2>1. faults' \in 0..MaxFaults
    BY <1>5, CollectAssumption DEF Sticks, Fault
  <2> QED BY <1>5, <2>1 DEF Sticks, Behaves
<1>6. CASE SourceDeadline(s)
  BY <1>6 DEF SourceDeadline, Behaves
<1> QED BY <1>1, <1>2, <1>3, <1>4, <1>5, <1>6 DEF WorkerStep

\* the first of the sources that may be started is, or fails to
Starts(s) ==
  /\ active' = active \cup {s}
  /\ worker' = [worker EXCEPT ![s] = "running"]
  /\ hostActive' = [hostActive EXCEPT ![HostOf[s]] = @ + 1]

LEMMA Starting ==
  ASSUME CollectTypeOK, Entries, Slots, pc # "raised", NEW s \in Source, s \notin active,
         Cardinality(active) < MaxWorkers, hostActive[HostOf[s]] < HostLimit, Starts(s)
  PROVE  /\ worker' \in [Source -> {"none", "running", "stuck", "exited", "reaped"}]
         /\ active' \subseteq Source /\ hostActive' \in [Host -> Nat]
         /\ Entries' /\ Slots'
<1>1. /\ worker' \in [Source -> {"none", "running", "stuck", "exited", "reaped"}]
      /\ active' \subseteq Source /\ hostActive' \in [Host -> Nat]
  <2>1. worker' \in [Source -> {"none", "running", "stuck", "exited", "reaped"}] /\ active' \subseteq Source
    BY DEF CollectTypeOK, Starts
  <2>2. hostActive \in [Host -> Nat]
    BY DEF CollectTypeOK
  <2>3. hostActive' \in [Host -> Nat]
    BY <2>2, CollectAssumption DEF Starts
  <2> QED BY <2>1, <2>3
<1>2. Entries'
  BY DEF CollectTypeOK, Entries, Present, Starts
<1>3. Cardinality(active') <= MaxWorkers
  <2>1. Cardinality(active') = Cardinality(active) + 1
    BY Finite, FS_AddElement DEF CollectTypeOK, Starts
  <2>2. Cardinality(active) \in Nat
    BY Finite DEF CollectTypeOK
  <2> QED BY <2>1, <2>2, CollectAssumption
<1>4. ASSUME NEW h \in Host PROVE hostActive'[h] = Cardinality(AtHost(h)') /\ hostActive'[h] <= HostLimit
  <2>1. AtHost(h) \subseteq Source
    BY DEF AtHost, CollectTypeOK
  <2>2. hostActive[h] = Cardinality(AtHost(h)) /\ hostActive[h] <= HostLimit /\ hostActive[h] \in Nat
    BY DEF Slots, CollectTypeOK
  <2>3. CASE h = HostOf[s]
    <3>1. AtHost(h)' = AtHost(h) \cup {s} /\ s \notin AtHost(h)
      BY <2>3 DEF AtHost, Starts
    <3>2. Cardinality(AtHost(h)') = Cardinality(AtHost(h)) + 1
      BY <2>1, <3>1, Finite, FS_AddElement
    <3>3. hostActive'[h] = hostActive[h] + 1
      BY <2>3 DEF Starts, CollectTypeOK
    <3> QED BY <2>2, <2>3, <3>2, <3>3, CollectAssumption
  <2>4. CASE h # HostOf[s]
    <3>1. AtHost(h)' = AtHost(h)
      BY <2>4 DEF AtHost, Starts
    <3>2. hostActive'[h] = hostActive[h]
      BY <2>4 DEF Starts, CollectTypeOK
    <3> QED BY <2>2, <3>1, <3>2
  <2> QED BY <2>3, <2>4
<1> QED BY <1>1, <1>2, <1>3, <1>4 DEF Slots

\* the entry of a source ends, and its process
Leaves(s) ==
  /\ active' = active \ {s}
  /\ Reaped(s)
  /\ hostActive' = Freed(s)

LEMMA Leaving ==
  ASSUME CollectTypeOK, Entries, Slots, pc # "raised", NEW s \in active, Leaves(s)
  PROVE  /\ worker' \in [Source -> {"none", "running", "stuck", "exited", "reaped"}]
         /\ active' \subseteq Source /\ hostActive' \in [Host -> Nat]
         /\ Entries' /\ Slots'
<1>s. s \in Source
  BY DEF CollectTypeOK
<1>1. worker' \in [Source -> {"none", "running", "stuck", "exited", "reaped"}] /\ active' \subseteq Source
  BY DEF CollectTypeOK, Leaves, Reaped
<1>2. Entries'
  BY <1>s DEF CollectTypeOK, Entries, Present, Leaves, Reaped
<1>3. Cardinality(active') <= MaxWorkers
  <2>1. Cardinality(active') <= Cardinality(active)
    BY Finite, FS_Subset DEF CollectTypeOK, Leaves
  <2>2. Cardinality(active) \in Nat /\ Cardinality(active') \in Nat
    BY <1>1, Finite DEF CollectTypeOK
  <2> QED BY <2>1, <2>2, CollectAssumption DEF Slots
<1>4. ASSUME NEW h \in Host
      PROVE  hostActive'[h] \in Nat /\ hostActive'[h] = Cardinality(AtHost(h)') /\ hostActive'[h] <= HostLimit
  <2>1. AtHost(h) \subseteq Source
    BY DEF AtHost, CollectTypeOK
  <2>2. hostActive[h] = Cardinality(AtHost(h)) /\ hostActive[h] <= HostLimit /\ hostActive[h] \in Nat
    BY DEF Slots, CollectTypeOK
  <2>3. CASE h = HostOf[s]
    <3>1. AtHost(h)' = AtHost(h) \ {s} /\ s \in AtHost(h)
      BY <2>3 DEF AtHost, Leaves
    <3>2. Cardinality(AtHost(h)') = Cardinality(AtHost(h)) - 1
      BY <2>1, <3>1, Finite, FS_RemoveElement
    <3>3. hostActive'[h] = hostActive[h] - 1
      BY <2>3 DEF Leaves, Freed, CollectTypeOK
    <3>4. Cardinality(AtHost(h)') \in Nat
      BY <2>1, <3>1, Finite
    <3> QED BY <2>2, <3>2, <3>3, <3>4, CollectAssumption
  <2>4. CASE h # HostOf[s]
    <3>1. AtHost(h)' = AtHost(h)
      BY <2>4 DEF AtHost, Leaves
    <3>2. hostActive'[h] = hostActive[h]
      BY <2>4 DEF Leaves, Freed, CollectTypeOK
    <3> QED BY <2>2, <3>1, <3>2
  <2> QED BY <2>3, <2>4
<1>5. hostActive' \in [Host -> Nat]
  <2>1. DOMAIN hostActive' = Host /\ hostActive' = [h \in Host |-> hostActive'[h]]
    BY DEF Leaves, Freed, CollectTypeOK
  <2> QED BY <1>4, <2>1
<1> QED BY <1>1, <1>2, <1>3, <1>4, <1>5 DEF Slots

-----------------------------------------------------------------------------
(***************************************************************************)
(* What the steps of the loop do                                           *)
(***************************************************************************)
Untouched == UNCHANGED <<active, hostActive, worker, result>>

\* the entry of s ends with an outcome
Concluded(s) == Leaves(s) /\ \E o \in Outcomes : result' = [result EXCEPT ![s] = o]

LEMMA StartSteps ==
  ASSUME CollectTypeOK, StartJob
  PROVE  \E s \in left :
           /\ left' = left \ {s} /\ UNCHANGED <<pc, todo, now, pipe, receiver, late, cycleLate>>
           /\ \/ /\ Starts(s) /\ UNCHANGED <<result, faults>>
                 /\ Cardinality(active) < MaxWorkers /\ hostActive[HostOf[s]] < HostLimit
              \/ /\ UNCHANGED <<active, hostActive, worker>>
                 /\ result' = [result EXCEPT ![s] = "start_failed"] /\ faults' \in 0..MaxFaults
<1>1. Min(Eligible) \in Eligible
  BY LeastOne, CollectAssumption DEF StartJob, Eligible, CollectTypeOK
<1>2. /\ Min(Eligible) \in left /\ hostActive[HostOf[Min(Eligible)]] < HostLimit
      /\ ~(Cardinality(active) >= MaxWorkers)
  BY <1>1 DEF Eligible
<1>3. Cardinality(active) < MaxWorkers
  <2>1. Cardinality(active) \in Nat
    BY Finite DEF CollectTypeOK
  <2> QED BY <1>2, <2>1, CollectAssumption
<1>4. Fault => faults' \in 0..MaxFaults
  BY CollectAssumption DEF Fault, CollectTypeOK
<1> QED BY <1>2, <1>3, <1>4 DEF StartJob, Starts, clockVars

LEMMA TakeSteps ==
  ASSUME CollectTypeOK, Looks, Framed, Take
  PROVE  /\ now \in active \ todo /\ now' = 0 /\ UNCHANGED <<left, todo, pipe, cycleLate, faults>>
         /\ late' \in {late, late \ {now}}
         /\ \A s \in Source : receiver'[s] = "frame" => receiver[s] = "frame"
         /\ receiver' \in [Source -> {"none", "reading", "frame", "error"}]
         /\ \/ pc' = "poll" /\ Untouched
            \/ pc' = "cleanup" /\ Untouched /\ worker[now] = "stuck"
            \/ pc' = "poll" /\ Concluded(now)
            \/ pc' = "cleanup" /\ Leaves(now) /\ UNCHANGED result /\ pipe[now] = "memory_error"
<1>1. now \in active \ todo /\ now \in Source
  BY DEF Take, TakeFrame, Looks, CollectTypeOK
<1>2. ASSUME NEW o \in Outcomes \cup {"memory_error"}, Conclude(now, o)
      PROVE  /\ late' \in {late, late \ {now}}
             /\ \A s \in Source : receiver'[s] = "frame" => receiver[s] = "frame"
             /\ receiver' \in [Source -> {"none", "reading", "frame", "error"}]
             /\ \/ pc' = "cleanup" /\ Untouched /\ worker[now] = "stuck"
                \/ pc' = "poll" /\ Concluded(now)
                \/ pc' = "cleanup" /\ Leaves(now) /\ UNCHANGED result /\ o = "memory_error"
  BY <1>1, <1>2 DEF Conclude, Raises, Leaves, Concluded, Untouched, CollectTypeOK
<1>3. CASE receiver[now] = "frame" /\ Conclude(now, pipe[now])
  <2>1. pipe[now] \in Outcomes \cup {"memory_error"}
    BY <1>1, <1>3 DEF Framed, Frames, Outcomes
  <2> QED BY <1>1, <1>2, <1>3, <2>1 DEF Take, TakeFrame
<1>4. CASE receiver[now] = "error" /\ Conclude(now, "no_result")
  BY <1>1, <1>2, <1>4 DEF Take, TakeFrame, Outcomes
<1>5. CASE receiver[now] = "reading" /\ ~Alive(now) /\ pipe[now] \in Frames /\ Conclude(now, pipe[now])
  <2>1. pipe[now] \in Outcomes \cup {"memory_error"}
    BY <1>5 DEF Frames, Outcomes
  <2> QED BY <1>1, <1>2, <1>5, <2>1 DEF Take, TakeFrame
<1>6. CASE WithoutFrame(now)
  <2>1. CASE pc' = "poll" /\ UNCHANGED <<active, hostActive, result, worker, receiver, late>>
    BY <1>1, <2>1 DEF Take, TakeFrame, Untouched, CollectTypeOK
  <2>2. CASE Conclude(now, "source_deadline") \/ Conclude(now, "no_result")
    BY <1>1, <1>2, <2>2 DEF Take, TakeFrame, Outcomes
  <2> QED BY <1>6, <2>1, <2>2 DEF WithoutFrame
<1> QED BY <1>3, <1>4, <1>5, <1>6 DEF Take, TakeFrame

LEMMA ExpireSteps ==
  ASSUME CollectTypeOK, Expire
  PROVE  /\ UNCHANGED <<todo, now, pipe, receiver, late, cycleLate, faults>>
         /\ \/ /\ active = {} /\ UNCHANGED <<active, hostActive, worker>>
               /\ result' = PendingExpired /\ left' = {} /\ pc' = "returned"
            \/ /\ UNCHANGED left /\ Untouched /\ pc' = "raised"
               /\ \E s \in Source : worker[s] = "stuck"
            \/ UNCHANGED <<left, pc>> /\ \E s \in active : Concluded(s)
<1>1. CASE active = {}
  BY <1>1 DEF Expire, clockVars
<1>2. CASE active # {}
  <2>1. Min(active) \in active /\ active \subseteq Source
    BY <1>2, LeastOne, CollectAssumption DEF CollectTypeOK
  <2> QED BY <1>2, <2>1 DEF Expire, clockVars, Untouched, Concluded, Leaves, Outcomes
<1> QED BY <1>1, <1>2

-----------------------------------------------------------------------------
(***************************************************************************)
(* The processes keep to the limits: while the loop runs because the table *)
(* does, and after an error because nothing starts any more.               *)
(***************************************************************************)
LEMMA TableBounds ==
  ASSUME CollectTypeOK', Entries', Slots', Emptied', pc' # "raised"
  PROVE  WorkersBounded'
<1>1. \A s \in Source : Present(s)' <=> s \in active'
  BY DEF Entries
<1>2. Cardinality({s \in Source : Present(s)}') <= MaxWorkers
  <2>1. {s \in Source : Present(s)}' = active'
    BY <1>1 DEF CollectTypeOK
  <2> QED BY <2>1 DEF Slots
<1>3. ASSUME NEW h \in Host PROVE Cardinality({s \in Source : HostOf[s] = h /\ Alive(s)}') <= HostLimit
  <2>1. {s \in Source : HostOf[s] = h /\ Alive(s)}' \subseteq AtHost(h)' /\ AtHost(h)' \subseteq Source
    BY <1>1 DEF Present, Alive, AtHost, CollectTypeOK
  <2>2. Cardinality({s \in Source : HostOf[s] = h /\ Alive(s)}') <= Cardinality(AtHost(h)')
    BY <2>1, Finite, FS_Subset
  <2>3. Cardinality(AtHost(h)') <= HostLimit
    BY DEF Slots
  <2>4. /\ Cardinality(AtHost(h)') \in Nat
        /\ Cardinality({s \in Source : HostOf[s] = h /\ Alive(s)}') \in Nat
    BY <2>1, Finite
  <2> QED BY <2>2, <2>3, <2>4, CollectAssumption
<1>4. LimitsKept'
  BY <1>2, <1>3 DEF LimitsKept, Present
<1>5. NoneDetached'
  BY <1>1 DEF NoneDetached, Emptied, Alive, Present
<1> QED BY <1>4, <1>5 DEF WorkersBounded

LEMMA FewerBounds ==
  ASSUME LimitsKept, \A s \in Source : (Present(s)' => Present(s)) /\ (Alive(s)' => Alive(s))
  PROVE  LimitsKept'
<1>1. Cardinality({s \in Source : Present(s)}') <= MaxWorkers
  <2>1. {s \in Source : Present(s)}' \subseteq {s \in Source : Present(s)}
    OBVIOUS
  <2>2. Cardinality({s \in Source : Present(s)}') <= Cardinality({s \in Source : Present(s)})
    BY <2>1, Finite, FS_Subset
  <2>3. /\ Cardinality({s \in Source : Present(s)}') \in Nat
        /\ Cardinality({s \in Source : Present(s)}) \in Nat
    BY Finite
  <2>4. Cardinality({s \in Source : Present(s)}) <= MaxWorkers
    BY DEF LimitsKept, Present
  <2> QED BY <2>2, <2>3, <2>4, CollectAssumption
<1>2. ASSUME NEW h \in Host PROVE Cardinality({s \in Source : HostOf[s] = h /\ Alive(s)}') <= HostLimit
  <2>1. {s \in Source : HostOf[s] = h /\ Alive(s)}' \subseteq {s \in Source : HostOf[s] = h /\ Alive(s)}
    OBVIOUS
  <2>2. Cardinality({s \in Source : HostOf[s] = h /\ Alive(s)}')
          <= Cardinality({s \in Source : HostOf[s] = h /\ Alive(s)})
    BY <2>1, Finite, FS_Subset
  <2>3. /\ Cardinality({s \in Source : HostOf[s] = h /\ Alive(s)}') \in Nat
        /\ Cardinality({s \in Source : HostOf[s] = h /\ Alive(s)}) \in Nat
    BY Finite
  <2>4. Cardinality({s \in Source : HostOf[s] = h /\ Alive(s)}) <= HostLimit
    BY DEF LimitsKept
  <2> QED BY <2>2, <2>3, <2>4, CollectAssumption
<1> QED BY <1>1, <1>2 DEF LimitsKept, Present

-----------------------------------------------------------------------------
(***************************************************************************)
(* Every step keeps CollectInv                                             *)
(***************************************************************************)
LEMMA BehavesKeeps ==
  ASSUME CollectInv, Behaves, CollectTypeOK'
  PROVE  CollectInv'
<1>1. Looks' /\ Placed' /\ Emptied' /\ Slots'
  BY DEF CollectInv, Behaves, supervisorVars, Looks, Placed, Emptied, Slots, AtHost
<1>2. Entries' /\ Framed' /\ Unused' /\ Blamed'
  BY DEF CollectInv, CollectTypeOK, Behaves, supervisorVars, Entries, Framed, Unused, Blamed, Pipeless, Frames
<1>3. LimitsKept'
  BY FewerBounds DEF CollectInv, WorkersBounded, Behaves
<1>4. NoneDetached'
  BY DEF CollectInv, WorkersBounded, NoneDetached, Behaves, supervisorVars
<1> QED BY <1>1, <1>2, <1>3, <1>4 DEF CollectInv, WorkersBounded

\* the steps of the loop that only look
LEMMA LooksKeeps ==
  ASSUME CollectInv, Top \/ StartsDone \/ Poll \/ PollDone
  PROVE  CollectInv'
<1> USE DEF Top, StartsDone, Poll, PollDone, workerVars, clockVars
<1>1. CollectTypeOK' /\ Looks'
  <2>1. CASE Poll
    <3>1. Min(todo) \in todo /\ todo \subseteq active /\ active \subseteq Source
      BY <2>1, LeastOne, CollectAssumption DEF CollectInv, CollectTypeOK
    <3> QED BY <2>1, <3>1 DEF CollectInv, CollectTypeOK, Looks
  <2>2. CASE Top \/ StartsDone \/ PollDone
    BY <2>2 DEF CollectInv, CollectTypeOK, Looks
  <2> QED BY <2>1, <2>2
<1>2. Placed' /\ Emptied' /\ Unused' /\ Blamed'
  BY DEF CollectInv, Placed, Emptied, Unused, Blamed, Ended
<1>3. Entries' /\ Slots'
  BY DEF CollectInv, Entries, Present, Slots, AtHost
<1>4. Framed'
  BY DEF CollectInv, CollectTypeOK, Framed
<1>5. WorkersBounded'
  BY <1>1, <1>2, <1>3, TableBounds
<1> QED BY <1>1, <1>2, <1>3, <1>4, <1>5 DEF CollectInv

LEMMA StartKeeps ==
  ASSUME CollectInv, StartJob
  PROVE  CollectInv'
<1>1. PICK s \in left :
        /\ left' = left \ {s} /\ UNCHANGED <<pc, todo, now, pipe, receiver, late, cycleLate>>
        /\ \/ /\ Starts(s) /\ UNCHANGED <<result, faults>>
              /\ Cardinality(active) < MaxWorkers /\ hostActive[HostOf[s]] < HostLimit
           \/ /\ UNCHANGED <<active, hostActive, worker>>
              /\ result' = [result EXCEPT ![s] = "start_failed"] /\ faults' \in 0..MaxFaults
  BY StartSteps DEF CollectInv
<1>2. pc = "start" /\ s \in Source /\ s \notin active /\ result[s] = "none" /\ left \subseteq Source
  BY <1>1 DEF CollectInv, CollectTypeOK, Placed, StartJob
<1>3. ASSUME Starts(s), UNCHANGED <<result, faults>>,
             Cardinality(active) < MaxWorkers, hostActive[HostOf[s]] < HostLimit
      PROVE  CollectTypeOK' /\ Placed' /\ Entries' /\ Slots'
  <2>1. /\ worker' \in [Source -> {"none", "running", "stuck", "exited", "reaped"}]
        /\ active' \subseteq Source /\ hostActive' \in [Host -> Nat]
        /\ Entries' /\ Slots'
    BY <1>2, <1>3, Starting DEF CollectInv
  <2>2. CollectTypeOK'
    BY <1>1, <1>2, <1>3, <2>1 DEF CollectInv, CollectTypeOK, Starts
  <2>3. Placed'
    BY <1>1, <1>2, <1>3 DEF CollectInv, Placed, Starts
  <2> QED BY <2>1, <2>2, <2>3
<1>4. ASSUME UNCHANGED <<active, hostActive, worker>>,
             result' = [result EXCEPT ![s] = "start_failed"], faults' \in 0..MaxFaults
      PROVE  CollectTypeOK' /\ Placed' /\ Entries' /\ Slots'
  <2>1. CollectTypeOK'
    BY <1>1, <1>2, <1>4 DEF CollectInv, CollectTypeOK, Outcomes
  <2>2. Placed'
    BY <1>1, <1>2, <1>4 DEF CollectInv, CollectTypeOK, Placed
  <2>3. Entries' /\ Slots'
    BY <1>1, <1>4 DEF CollectInv, Entries, Present, Slots, AtHost
  <2> QED BY <2>1, <2>2, <2>3
<1>5. CollectTypeOK' /\ Placed' /\ Entries' /\ Slots'
  BY <1>1, <1>3, <1>4
<1>6. Looks' /\ Emptied' /\ Framed' /\ Unused' /\ Blamed'
  <2>1. Looks' /\ Emptied' /\ Framed' /\ Blamed'
    BY <1>1, <1>2 DEF CollectInv, Looks, Emptied, Framed, Blamed, Ended
  <2>2. \A r \in left' : worker'[r] = worker[r]
    BY <1>1, <1>2 DEF Starts, CollectInv, CollectTypeOK
  <2> QED BY <1>1, <2>1, <2>2 DEF CollectInv, Unused
<1>7. WorkersBounded'
  BY <1>1, <1>2, <1>5, <1>6, TableBounds
<1> QED BY <1>5, <1>6, <1>7 DEF CollectInv

LEMMA PipeFailsKeeps ==
  ASSUME CollectInv, PipeFails
  PROVE  CollectInv'
<1>1. PICK s \in Eligible : s = Min(Eligible)
  BY LeastOne, CollectAssumption DEF PipeFails, Eligible, CollectInv, CollectTypeOK
<1>2. s \in left /\ left \subseteq Source
  BY <1>1 DEF Eligible, CollectInv, CollectTypeOK
<1>3. /\ left' = left \ {s} /\ pc = "start" /\ pc' = "cleanup" /\ faults' \in 0..MaxFaults
      /\ UNCHANGED <<active, hostActive, todo, now, result, worker, pipe, receiver, late, cycleLate>>
  BY <1>1, CollectAssumption DEF PipeFails, Fault, workerVars, clockVars, CollectInv, CollectTypeOK
<1>4. worker[s] = "none" /\ result[s] = "none"
  BY <1>2 DEF CollectInv, Placed, Unused
<1>5. CollectTypeOK' /\ Looks' /\ Placed' /\ Emptied' /\ Framed' /\ Unused'
  BY <1>2, <1>3 DEF CollectInv, CollectTypeOK, Looks, Placed, Emptied, Framed, Unused, Ended
<1>6. Entries' /\ Slots'
  BY <1>3 DEF CollectInv, Entries, Present, Slots, AtHost
<1>7. s \notin left' /\ worker'[s] = "none" /\ result'[s] = "none"
  BY <1>3, <1>4
<1>8. Blamed'
  BY <1>2, <1>7 DEF Blamed, Pipeless
<1>9. WorkersBounded'
  BY <1>3, <1>5, <1>6, TableBounds
<1> QED BY <1>5, <1>6, <1>8, <1>9 DEF CollectInv

LEMMA TakeKeeps ==
  ASSUME CollectInv, Take
  PROVE  CollectInv'
<1>1. /\ now \in active \ todo /\ now' = 0 /\ UNCHANGED <<left, todo, pipe, cycleLate, faults>>
      /\ late' \in {late, late \ {now}}
      /\ \A s \in Source : receiver'[s] = "frame" => receiver[s] = "frame"
      /\ receiver' \in [Source -> {"none", "reading", "frame", "error"}]
      /\ \/ pc' = "poll" /\ Untouched
         \/ pc' = "cleanup" /\ Untouched /\ worker[now] = "stuck"
         \/ pc' = "poll" /\ Concluded(now)
         \/ pc' = "cleanup" /\ Leaves(now) /\ UNCHANGED result /\ pipe[now] = "memory_error"
  BY TakeSteps DEF CollectInv
<1>2. pc = "take" /\ now \in Source /\ now \notin left
  BY <1>1 DEF Take, TakeFrame, CollectInv, CollectTypeOK, Placed
<1>3. ASSUME Untouched PROVE CollectTypeOK' /\ Placed' /\ Entries' /\ Slots'
  <2>1. pc' \in {"poll", "cleanup"}
    BY <1>1
  <2>2. CollectTypeOK'
    BY <1>1, <1>3, <2>1 DEF CollectInv, CollectTypeOK, Untouched
  <2>3. Placed'
    BY <1>1, <1>2, <1>3, <2>1 DEF CollectInv, Placed, Untouched, Ended
  <2>4. Entries' /\ Slots'
    BY <1>2, <1>3, <2>1 DEF CollectInv, Entries, Present, Slots, AtHost, Untouched
  <2> QED BY <2>2, <2>3, <2>4
<1>4. ASSUME Leaves(now) PROVE CollectTypeOK' /\ Placed' /\ Entries' /\ Slots'
  <2>1. /\ worker' \in [Source -> {"none", "running", "stuck", "exited", "reaped"}]
        /\ active' \subseteq Source /\ hostActive' \in [Host -> Nat]
        /\ Entries' /\ Slots'
    BY <1>1, <1>2, <1>4, Leaving DEF CollectInv
  <2>2. result' \in [Source -> Outcomes \cup {"none"}]
    BY <1>1, <1>2 DEF CollectInv, CollectTypeOK, Concluded, Untouched
  <2>3. CollectTypeOK'
    BY <1>1, <1>2, <1>4, <2>1, <2>2 DEF CollectInv, CollectTypeOK, Leaves
  <2>4. ASSUME NEW o \in Outcomes, result' = [result EXCEPT ![now] = o] PROVE Placed'
    BY <1>1, <1>2, <1>4, <2>4 DEF CollectInv, CollectTypeOK, Placed, Leaves, Ended, Outcomes
  <2>5. ASSUME UNCHANGED result, pc' = "cleanup" PROVE Placed'
    BY <1>1, <1>4, <2>5 DEF CollectInv, Placed, Leaves, Ended
  <2>6. Placed'
    <3>1. now \in active /\ now \notin active'
      BY <1>1, <1>4 DEF Leaves
    <3>2. ~Untouched
      BY <3>1 DEF Untouched
    <3> QED BY <1>1, <2>4, <2>5, <3>2 DEF Concluded
  <2> QED BY <2>1, <2>3, <2>6
<1>5. CollectTypeOK' /\ Placed' /\ Entries' /\ Slots'
  <2>1. Untouched \/ Leaves(now)
    BY <1>1 DEF Concluded
  <2> QED BY <1>3, <1>4, <2>1
<1>6. Looks' /\ Emptied' /\ Framed' /\ Unused'
  <2>1. Looks' /\ Emptied' /\ Framed'
    BY <1>1, <1>2 DEF CollectInv, Looks, Emptied, Framed
  <2>2. \A r \in left : worker'[r] = worker[r]
    BY <1>1, <1>2 DEF Untouched, Concluded, Leaves, Reaped, CollectInv, CollectTypeOK
  <2> QED BY <1>1, <2>1, <2>2 DEF CollectInv, Unused
<1>7. Blamed'
  BY <1>1, <1>2 DEF Blamed, Ended, Untouched
<1>8. WorkersBounded'
  BY <1>1, <1>5, <1>6, TableBounds
<1> QED BY <1>5, <1>6, <1>7, <1>8 DEF CollectInv

LEMMA CleanupKeeps ==
  ASSUME CollectInv, Cleanup
  PROVE  CollectInv'
<1> USE DEF Cleanup, clockVars
<1>1. CollectTypeOK' /\ Looks' /\ Placed' /\ Emptied' /\ Framed'
  BY DEF CollectInv, CollectTypeOK, Looks, Placed, Emptied, Framed, Terminated, Ended
<1>2. \A s \in Source : worker'[s] = IF s \in active /\ worker[s] # "stuck" THEN "reaped" ELSE worker[s]
  BY DEF Terminated
<1>3. Entries' /\ Slots' /\ Blamed' /\ Unused'
  <2>1. \A s \in Source : (worker[s] = "none" => worker'[s] = "none") /\ (worker[s] = "stuck" => worker'[s] = "stuck")
    BY <1>2 DEF CollectInv, Entries, Present
  <2>2. Unused'
    BY <2>1 DEF CollectInv, CollectTypeOK, Unused
  <2>3. Blamed'
    BY <2>1 DEF CollectInv, Blamed, Pipeless, Ended
  <2> QED BY <1>2, <2>2, <2>3 DEF CollectInv, Entries, Slots
<1>4. LimitsKept'
  BY <1>2, FewerBounds DEF CollectInv, WorkersBounded, Present, Alive
<1>5. NoneDetached'
  BY <1>2 DEF NoneDetached, CollectInv, Entries, Present, Alive
<1> QED BY <1>1, <1>3, <1>4, <1>5 DEF CollectInv, WorkersBounded

LEMMA ExpireKeeps ==
  ASSUME CollectInv, Expire
  PROVE  CollectInv'
<1>1. /\ UNCHANGED <<todo, now, pipe, receiver, late, cycleLate, faults>>
      /\ \/ /\ active = {} /\ UNCHANGED <<active, hostActive, worker>>
            /\ result' = PendingExpired /\ left' = {} /\ pc' = "returned"
         \/ /\ UNCHANGED left /\ Untouched /\ pc' = "raised"
            /\ \E s \in Source : worker[s] = "stuck"
         \/ UNCHANGED <<left, pc>> /\ \E s \in active : Concluded(s)
  BY ExpireSteps DEF CollectInv
<1>2. pc = "expire" /\ todo = {} /\ now = 0
  BY DEF Expire, CollectInv, Looks
<1>3. ASSUME active = {}, UNCHANGED <<active, hostActive, worker>>,
             result' = PendingExpired, left' = {}, pc' = "returned"
      PROVE  CollectInv'
  <2>1. CollectTypeOK' /\ Placed' /\ Emptied'
    BY <1>1, <1>2, <1>3 DEF CollectInv, CollectTypeOK, Placed, Emptied, PendingExpired, Outcomes, Ended
  <2>2. Looks' /\ Entries' /\ Slots' /\ Framed' /\ Blamed' /\ Unused'
    BY <1>1, <1>2, <1>3
       DEF CollectInv, Looks, Entries, Present, Slots, AtHost, Framed, Blamed, Unused, Ended
  <2>3. WorkersBounded'
    BY <1>3, <2>1, <2>2, TableBounds
  <2> QED BY <2>1, <2>2, <2>3 DEF CollectInv
<1>4. ASSUME UNCHANGED left, Untouched, pc' = "raised", \E s \in Source : worker[s] = "stuck"
      PROVE  CollectInv'
  <2>1. /\ CollectTypeOK' /\ Looks' /\ Placed' /\ Emptied' /\ Entries' /\ Slots' /\ Framed'
        /\ Blamed' /\ Unused'
    BY <1>1, <1>2, <1>4
       DEF CollectInv, CollectTypeOK, Looks, Placed, Emptied, Entries, Slots, Framed, Blamed, Unused,
           Untouched, Ended
  <2>2. LimitsKept'
    BY <1>4, FewerBounds DEF CollectInv, WorkersBounded, Untouched, Present, Alive
  <2>3. NoneDetached'
    BY <1>4 DEF NoneDetached, Untouched
  <2> QED BY <2>1, <2>2, <2>3 DEF CollectInv, WorkersBounded
<1>5. ASSUME UNCHANGED <<left, pc>>, NEW s \in active, Concluded(s)
      PROVE  CollectInv'
  <2>s. s \in Source /\ s \notin left /\ Leaves(s)
    BY <1>5 DEF CollectInv, CollectTypeOK, Placed, Concluded
  <2>1. /\ worker' \in [Source -> {"none", "running", "stuck", "exited", "reaped"}]
        /\ active' \subseteq Source /\ hostActive' \in [Host -> Nat]
        /\ Entries' /\ Slots'
    BY <1>2, <2>s, Leaving DEF CollectInv
  <2>2. CollectTypeOK'
    <3>1. result' \in [Source -> Outcomes \cup {"none"}]
      BY <1>5 DEF CollectInv, CollectTypeOK, Concluded
    <3>2. pc' = pc /\ left' = left
      BY <1>5
    <3>3. todo' \subseteq active' /\ now' \in active' \cup {0}
      BY <1>1, <1>2
    <3> QED BY <1>1, <2>1, <3>1, <3>2, <3>3 DEF CollectInv, CollectTypeOK
  <2>3. Placed'
    BY <1>5, <2>s DEF CollectInv, CollectTypeOK, Placed, Leaves, Concluded, Ended, Outcomes
  <2>4. Looks' /\ Emptied' /\ Framed' /\ Blamed' /\ Unused'
    <3>1. Looks' /\ Emptied' /\ Framed' /\ Blamed'
      BY <1>1, <1>2, <1>5 DEF CollectInv, Looks, Emptied, Framed, Blamed, Ended
    <3>2. \A r \in left : worker'[r] = worker[r]
      BY <2>s DEF Leaves, Reaped, CollectInv, CollectTypeOK
    <3> QED BY <1>5, <3>1, <3>2 DEF CollectInv, Unused
  <2>5. WorkersBounded'
    BY <1>2, <1>5, <2>1, <2>2, <2>4, TableBounds
  <2> QED BY <2>1, <2>2, <2>3, <2>4, <2>5 DEF CollectInv
<1> QED BY <1>1, <1>3, <1>4, <1>5

LEMMA CollectStep ==
  ASSUME CollectInv, [CollectNext]_collectVars
  PROVE  CollectInv'
<1>1. ASSUME NEW s \in Source, WorkerStep(s) \/ Sticks(s) \/ SourceDeadline(s)
      PROVE  CollectInv'
  BY <1>1, Surroundings, BehavesKeeps DEF CollectInv
<1>2. CASE UNCHANGED collectVars
  <2>1. Behaves /\ CollectTypeOK'
    BY <1>2 DEF collectVars, supervisorVars, workerVars, clockVars, Behaves, Present, Alive,
                CollectInv, CollectTypeOK, Framed
  <2> QED BY <2>1, BehavesKeeps
<1>3. CASE Supervise
  BY <1>3, LooksKeeps, StartKeeps, PipeFailsKeeps, TakeKeeps, CleanupKeeps, ExpireKeeps DEF Supervise
<1>4. CASE CycleDeadline
  <2>1. Behaves /\ CollectTypeOK'
    BY <1>4 DEF CycleDeadline, supervisorVars, workerVars, clockVars, Behaves, Present, Alive,
                CollectInv, CollectTypeOK, Framed
  <2> QED BY <2>1, BehavesKeeps
<1> QED BY <1>1, <1>2, <1>3, <1>4 DEF CollectNext

\* a collection that has not begun
Unbegun ==
  /\ pc \in {"top", "idle"} /\ left = Source /\ active = {} /\ todo = {} /\ now = 0
  /\ hostActive = [h \in Host |-> 0]
  /\ worker = [s \in Source |-> "none"] /\ pipe = [s \in Source |-> "empty"]
  /\ receiver = [s \in Source |-> "none"] /\ result = [s \in Source |-> "none"]
  /\ late = {} /\ cycleLate = FALSE /\ faults = 0

LEMMA UnbegunInv == Unbegun => CollectInv
<1> SUFFICES ASSUME Unbegun PROVE CollectInv
  OBVIOUS
<1> USE DEF Unbegun
<1>1. CollectTypeOK
  <2>1. faults \in 0..MaxFaults /\ hostActive \in [Host -> Nat]
    BY CollectAssumption
  <2>2. pipe \in [Source -> Pipes] /\ result \in [Source -> Outcomes \cup {"none"}]
    BY DEF Pipes
  <2> QED BY <2>1, <2>2 DEF CollectTypeOK
<1>2. Looks /\ Placed /\ Emptied /\ Entries /\ Framed /\ Unused /\ Blamed
  BY DEF Looks, Placed, Emptied, Entries, Present, Framed, Unused, Blamed, Ended
<1>3. \A S \in {active} \cup {AtHost(h) : h \in Host} : Cardinality(S) = 0
  BY FS_EmptySet DEF AtHost
<1>4. Slots
  BY <1>3, CollectAssumption DEF Slots
<1>5. LimitsKept
  <2>1. {s \in Source : worker[s] \in {"running", "stuck", "exited"}} = {}
    OBVIOUS
  <2>2. \A h \in Host : {s \in Source : HostOf[s] = h /\ Alive(s)} = {}
    BY DEF Alive
  <2>3. Cardinality({}) = 0
    BY FS_EmptySet
  <2> QED BY <2>1, <2>2, <2>3, CollectAssumption DEF LimitsKept
<1>6. NoneDetached
  BY DEF NoneDetached
<1> QED BY <1>1, <1>2, <1>4, <1>5, <1>6 DEF CollectInv, WorkersBounded

LEMMA PipelineStep ==
  ASSUME CollectInv, [Next]_vars
  PROVE  CollectInv'
<1>1. CASE Collecting
  BY <1>1, CollectStep DEF Collecting
<1>2. CASE Collected
  <2>1. Unbegun'
    BY <1>2 DEF Collected, Forget, Unbegun
  <2> QED BY <2>1, UnbegunInv, PTL
<1>3. CASE UNCHANGED collectVars
  BY <1>3, CollectStep
<1> QED BY <1>1, <1>2, <1>3 DEF Next, Parse, Rank, Select, Build, Done, vars

LEMMA CollectAlways == Spec => []CollectInv
<1>1. PipelineInit => Unbegun
  BY DEF PipelineInit, Init, Unbegun
<1>2. PipelineInit => CollectInv
  BY <1>1, UnbegunInv
<1>3. CollectInv /\ [Next]_vars => CollectInv'
  BY PipelineStep
<1> QED BY <1>2, <1>3, PTL DEF Spec

\* However workers start, write, hang, die and survive being killed, and
\* whenever deadlines pass, collect_all returns one result for every source,
\* and it raises only for a worker out of memory, one that cannot be killed or
\* a pipe that cannot be made (EverySourceAnswers).
THEOREM SourcesAnswer == Spec => []EverySourceAnswers
<1>1. ASSUME CollectInv PROVE EverySourceAnswers
  <2>1. Accounted
    BY <1>1 DEF CollectInv, Accounted, Placed, Emptied, Ended
  <2>2. Isolated
    BY <1>1 DEF CollectInv, Isolated, Blamed, Ended
  <2> QED BY <2>1, <2>2 DEF EverySourceAnswers
<1> QED BY <1>1, CollectAlways, PTL

\* However workers start, hang and die, there are never more of them than
\* MaxWorkers and than HostLimit for a host, and none outlives collect_all
\* unless one cannot be killed (WorkersBounded).
THEOREM WorkersAreBounded == Spec => []WorkersBounded
<1>1. CollectInv => WorkersBounded
  BY DEF CollectInv
<1> QED BY <1>1, CollectAlways, PTL

-----------------------------------------------------------------------------
(***************************************************************************)
(* The folds as runs: f[n] is what the first n items have made.            *)
(***************************************************************************)
\* the recursive function of a fold, over sets of positions
FoldRuns(iter, step, N, X, base) ==
  /\ iter \in [SUBSET (1..N) -> X]
  /\ iter = [T \in SUBSET (1..N) |->
               IF T = {} THEN base ELSE step[Max(T)][iter[T \ {Max(T)}]]]

\* the limit of steps that each settle one more position
LEMMA FoldExists ==
  ASSUME NEW X, NEW base, NEW N \in Nat, NEW step, base \in X, Steps(step, 1..N, X)
  PROVE  \E iter : FoldRuns(iter, step, N, X, base)
<1> USE DEF Steps
<1> DEFINE Sets == SUBSET (1..N)
           F == [Sets -> X]
           Value(g, T) == IF T = {} THEN base ELSE step[Max(T)][g[T \ {Max(T)}]]
           more == [n \in Nat |-> [g \in F |-> [T \in Sets |-> Value(g, T)]]]
           first == [T \in Sets |-> base]
<1>1. \A T \in Sets : T # {} => Max(T) \in T /\ Max(T) \in 1..N /\ \A x \in T : Max(T) >= x
  BY GreatestOne
<1>2. ASSUME NEW g \in F, NEW T \in Sets PROVE Value(g, T) \in X
  <2>1. CASE T = {}
    BY <2>1
  <2>2. CASE T # {}
    <3>1. T \ {Max(T)} \in Sets /\ Max(T) \in 1..N
      BY <1>1, <2>2
    <3>2. g[T \ {Max(T)}] \in X
      BY <3>1
    <3>3. step[Max(T)] \in [X -> X]
      BY <3>1
    <3>4. step[Max(T)][g[T \ {Max(T)}]] \in X
      BY <3>2, <3>3
    <3> QED BY <2>2, <3>4
  <2> QED BY <2>1, <2>2
<1>3. more \in [Nat -> [F -> F]] /\ first \in F
  <2> HIDE DEF Value
  <2> QED BY <1>2
<1>4. PICK h : Runs(h, more, F, first)
  <2>1. Steps(more, Nat, F)
    BY <1>3
  <2> HIDE DEF F, more, first, Steps
  <2> QED BY <1>3, <2>1, RecursionExists
<1> HIDE DEF Value
<1>5. \A n \in Nat : h[n] \in F /\ h[n + 1] = [T \in Sets |-> Value(h[n], T)]
  BY <1>4 DEF Runs
<1>6. \A n \in Nat, T \in Sets : h[n + 1][T] = Value(h[n], T)
  BY <1>5
<1> DEFINE S == {n \in Nat : \A T \in Sets : T \subseteq 1..n => h[n + 1][T] = h[n][T]}
<1>7. 0 \in S
  <2>1. {} \in Sets /\ h[0 + 1][{}] = Value(h[0], {}) /\ h[0][{}] = base
    BY <1>4, <1>6 DEF Runs
  <2>2. Value(h[0], {}) = base
    BY DEF Value
  <2>3. \A T \in Sets : T \subseteq 1..0 => T = {}
    OBVIOUS
  <2> QED BY <2>1, <2>2, <2>3
<1>8. ASSUME NEW n \in Nat, n \in S PROVE n + 1 \in S
  <2>1. ASSUME NEW T \in Sets, T \subseteq 1..(n + 1)
        PROVE  h[(n + 1) + 1][T] = h[n + 1][T]
    <3>1. h[(n + 1) + 1][T] = Value(h[n + 1], T) /\ h[n + 1][T] = Value(h[n], T)
      BY <1>6
    <3>2. CASE T = {}
      BY <3>1, <3>2 DEF Value
    <3>3. CASE T # {}
      <4> DEFINE U == T \ {Max(T)}
      <4>1. Max(T) \in T /\ Max(T) \in 1..(n + 1) /\ \A x \in T : Max(T) >= x
        BY <1>1, <3>3, <2>1
      <4>2. ASSUME NEW x \in U PROVE x \in 1..n
        <5>1. x \in 1..(n + 1) /\ Max(T) >= x /\ x # Max(T)
          BY <2>1, <4>1
        <5> QED BY <4>1, <5>1
      <4>3. U \in Sets /\ U \subseteq 1..n
        BY <4>2
      <4>4. h[n + 1][U] = h[n][U]
        BY <1>8, <4>3
      <4> QED BY <3>1, <3>3, <4>4 DEF Value
    <3> QED BY <3>2, <3>3
  <2> QED BY <2>1
<1>9. N \in S
  <2> HIDE DEF S
  <2> QED BY <1>7, <1>8, Counting
<1>10. \A T \in Sets : h[N + 1][T] = h[N][T]
  BY <1>9
<1>11. \A T \in Sets : h[N][T] = Value(h[N], T)
  BY <1>6, <1>10
<1>12. h[N] \in F
  BY <1>4 DEF Runs
<1>13. h[N] = [T \in Sets |-> Value(h[N], T)]
  BY <1>11, <1>12
<1> QED BY <1>12, <1>13 DEF Value, FoldRuns

\* a fold keeps the type of its accumulator
LEMMA FoldTyped ==
  ASSUME NEW N \in Nat, NEW X, NEW fold, fold[{}] \in X,
         \A n \in 1..N : fold[1..(n - 1)] \in X => fold[1..n] \in X
  PROVE  \A n \in 0..N : fold[1..n] \in X
<1> DEFINE S == {n \in 0..N : fold[1..n] \in X}
<1>1. 0 \in S
  <2>1. 1..0 = {}
    OBVIOUS
  <2> QED BY <2>1
<1>2. ASSUME NEW n \in 0..(N - 1), n \in S PROVE n + 1 \in S
  <2>1. n + 1 \in 1..N /\ n + 1 \in 0..N /\ (n + 1) - 1 = n
    OBVIOUS
  <2>2. fold[1..n] \in X
    BY <1>2
  <2>3. fold[1..(n + 1)] \in X
    BY <2>1, <2>2
  <2> QED BY <2>1, <2>3
<1>3. 0..N \subseteq S
  <2> HIDE DEF S
  <2> QED BY <1>1, <1>2, CountingTo
<1> QED BY <1>3

\* the first pass of select_digest, step by step
LEMMA DiverseRuns ==
  ASSUME NEW M, NEW c \in Seq(M)
  PROVE  \E f \in [0..Len(c) -> Seq(M)] :
           /\ f[0] = <<>>
           /\ \A n \in 1..Len(c) : f[n] = PickDiverse(f[n - 1], c[n])
           /\ FoldLeft(PickDiverse, <<>>, c) = f[Len(c)]
<1> DEFINE N == Len(c)
           Sets == SUBSET (1..N)
           step == [n \in 1..N |-> [a \in Seq(M) |-> PickDiverse(a, c[n])]]
           Is(iter) == iter = [T \in Sets |-> IF T = {} THEN <<>>
                                 ELSE PickDiverse(iter[T \ {Max(T)}], c[Max(T)])]
           fold == CHOOSE iter : Is(iter)
           f == [n \in 0..N |-> fold[1..n]]
<1>1. N \in Nat /\ DOMAIN c = 1..N /\ \A n \in 1..N : c[n] \in M
  OBVIOUS
<1>2. \A a \in Seq(M), i \in M : PickDiverse(a, i) \in Seq(M)
  BY DEF PickDiverse
<1>3. Steps(step, 1..N, Seq(M)) /\ <<>> \in Seq(M)
  BY <1>1, <1>2 DEF Steps
<1>4. PICK iter : FoldRuns(iter, step, N, Seq(M), <<>>)
  <2> HIDE DEF step, N
  <2> QED BY <1>1, <1>3, FoldExists
<1>5. Is(iter)
  <2>1. \A T \in Sets : T # {} => Max(T) \in 1..N
    BY <1>1, GreatestOne
  <2> QED BY <1>4, <2>1 DEF FoldRuns
<1>6. Is(fold)
  <2> HIDE DEF Is
  <2> QED BY <1>5
<1>7. FoldLeft(PickDiverse, <<>>, c) = fold[1..N]
  BY <1>1 DEF FoldLeft, MapThenFoldSet
<1> HIDE DEF fold
<1>8. fold[{}] = <<>> /\ f[0] = fold[1..0] /\ 1..0 = {}
  BY <1>1, <1>6
<1>9. ASSUME NEW n \in 1..N
      PROVE  /\ fold[1..n] = PickDiverse(fold[1..(n - 1)], c[n])
             /\ f[n] = fold[1..n] /\ f[n - 1] = fold[1..(n - 1)]
  <2>1. Max(1..n) = n /\ (1..n) \ {n} = 1..(n - 1) /\ 1..n # {}
    BY <1>1, MaxOfInterval
  <2>2. 1..n \in Sets /\ n - 1 \in 0..N /\ n \in 0..N
    BY <1>1
  <2>3. fold[1..n] = PickDiverse(fold[(1..n) \ {Max(1..n)}], c[Max(1..n)])
    BY <1>6, <2>1, <2>2
  <2> QED BY <2>1, <2>2, <2>3
<1>10. \A n \in 0..N : fold[1..n] \in Seq(M)
  <2> HIDE DEF N, f
  <2>1. \A n \in 1..N : fold[1..(n - 1)] \in Seq(M) => fold[1..n] \in Seq(M)
    BY <1>1, <1>2, <1>9
  <2>2. fold[{}] \in Seq(M)
    BY <1>3, <1>8
  <2> QED BY <1>1, <2>1, <2>2, FoldTyped
<1>11. f \in [0..N -> Seq(M)] /\ f[N] = fold[1..N]
  BY <1>1, <1>10
<1> HIDE DEF f
<1> QED BY <1>7, <1>8, <1>9, <1>11

\* the second pass
LEMMA FallbackRuns ==
  ASSUME NEW M, NEW c \in Seq(M), NEW first \in Seq(M)
  PROVE  \E f \in [0..Len(c) -> Seq(M)] :
           /\ f[0] = first
           /\ \A n \in 1..Len(c) : f[n] = PickFallback(f[n - 1], c[n])
           /\ FoldLeft(PickFallback, first, c) = f[Len(c)]
<1> DEFINE N == Len(c)
           Sets == SUBSET (1..N)
           step == [n \in 1..N |-> [a \in Seq(M) |-> PickFallback(a, c[n])]]
           Is(iter) == iter = [T \in Sets |-> IF T = {} THEN first
                                 ELSE PickFallback(iter[T \ {Max(T)}], c[Max(T)])]
           fold == CHOOSE iter : Is(iter)
           f == [n \in 0..N |-> fold[1..n]]
<1>1. N \in Nat /\ DOMAIN c = 1..N /\ \A n \in 1..N : c[n] \in M
  OBVIOUS
<1>2. \A a \in Seq(M), i \in M : PickFallback(a, i) \in Seq(M)
  BY DEF PickFallback
<1>3. Steps(step, 1..N, Seq(M)) /\ first \in Seq(M)
  BY <1>1, <1>2 DEF Steps
<1>4. PICK iter : FoldRuns(iter, step, N, Seq(M), first)
  <2> HIDE DEF step, N
  <2> QED BY <1>1, <1>3, FoldExists
<1>5. Is(iter)
  <2>1. \A T \in Sets : T # {} => Max(T) \in 1..N
    BY <1>1, GreatestOne
  <2> QED BY <1>4, <2>1 DEF FoldRuns
<1>6. Is(fold)
  <2> HIDE DEF Is
  <2> QED BY <1>5
<1>7. FoldLeft(PickFallback, first, c) = fold[1..N]
  BY <1>1 DEF FoldLeft, MapThenFoldSet
<1> HIDE DEF fold
<1>8. fold[{}] = first /\ f[0] = fold[1..0] /\ 1..0 = {}
  BY <1>1, <1>6
<1>9. ASSUME NEW n \in 1..N
      PROVE  /\ fold[1..n] = PickFallback(fold[1..(n - 1)], c[n])
             /\ f[n] = fold[1..n] /\ f[n - 1] = fold[1..(n - 1)]
  <2>1. Max(1..n) = n /\ (1..n) \ {n} = 1..(n - 1) /\ 1..n # {}
    BY <1>1, MaxOfInterval
  <2>2. 1..n \in Sets /\ n - 1 \in 0..N /\ n \in 0..N
    BY <1>1
  <2>3. fold[1..n] = PickFallback(fold[(1..n) \ {Max(1..n)}], c[Max(1..n)])
    BY <1>6, <2>1, <2>2
  <2> QED BY <2>1, <2>2, <2>3
<1>10. \A n \in 0..N : fold[1..n] \in Seq(M)
  <2> HIDE DEF N, f
  <2>1. \A n \in 1..N : fold[1..(n - 1)] \in Seq(M) => fold[1..n] \in Seq(M)
    BY <1>1, <1>2, <1>9
  <2>2. fold[{}] \in Seq(M)
    BY <1>3, <1>8
  <2> QED BY <1>1, <2>1, <2>2, FoldTyped
<1>11. f \in [0..N -> Seq(M)] /\ f[N] = fold[1..N]
  BY <1>1, <1>10
<1> HIDE DEF f
<1> QED BY <1>7, <1>8, <1>9, <1>11

\* the accumulators of the folds
Clustering(M) == [kept : Seq(M), rest : Seq(M), comparisons : Int]
Messages(M) == [units : Nat, items : Seq(M)]
Packing(M) == [messages : Seq(Messages(M)), current : Messages(M), header : BOOLEAN, omitted : Seq(M)]

\* an item with the blocks it may be shown by
Sized(M) == \A i \in M : i.blocks \in Seq(Nat \ {0})

\* SelectInSeq: the first position of those that satisfy, or none
LEMMA FirstIn ==
  ASSUME NEW N \in Nat, NEW I, I \subseteq 1..N, NEW hit, hit = IF I # {} THEN Min(I) ELSE 0
  PROVE  hit \in 0..N /\ (hit # 0 => hit \in I) /\ (hit = 0 => I = {})
<1>1. CASE I = {}
  BY <1>1
<1>2. CASE I # {}
  <2>1. I \subseteq Nat
    OBVIOUS
  <2>2. Min(I) \in I
    BY <1>2, <2>1, LeastOne
  <2>3. hit \in I
    BY <1>2, <2>2
  <2>4. hit \in 1..N
    BY <2>3
  <2> QED BY <1>2, <2>3, <2>4
<1> QED BY <1>1, <1>2

\* the place of the first retained item that i is similar to
Hits(kept, i) == {n \in 1..Len(kept) : Similar(i, kept[n])}
Hit(kept, i) == IF Hits(kept, i) # {} THEN Min(Hits(kept, i)) ELSE 0
Needed(kept, i) == IF Hit(kept, i) = 0 THEN Len(kept) ELSE Hit(kept, i)

\* Cluster in these terms
LEMMA ClusterIs ==
  ASSUME NEW a, NEW i
  PROVE  Cluster(a, i) =
           IF a.rest # <<>> \/ Needed(a.kept, i) > MaxComparisons - a.comparisons
           THEN [a EXCEPT !.rest = Append(@, i), !.comparisons = MaxComparisons]
           ELSE [a EXCEPT !.kept = IF Hit(a.kept, i) = 0 THEN Append(@, i) ELSE @,
                          !.comparisons = @ + Needed(a.kept, i)]
BY DEF Cluster, SelectInSeq, Needed, Hit, Hits

LEMMA FirstHit ==
  ASSUME NEW M, NEW kept \in Seq(M), NEW i
  PROVE  /\ Hit(kept, i) \in 0..Len(kept) /\ Needed(kept, i) \in Nat
         /\ Hit(kept, i) # 0 => Similar(i, kept[Hit(kept, i)])
         /\ Hit(kept, i) = 0 => \A n \in 1..Len(kept) : ~Similar(i, kept[n])
<1>1. Len(kept) \in Nat /\ Hits(kept, i) \subseteq 1..Len(kept)
  BY DEF Hits
<1>2. /\ Hit(kept, i) \in 0..Len(kept)
      /\ Hit(kept, i) # 0 => Hit(kept, i) \in Hits(kept, i)
      /\ Hit(kept, i) = 0 => Hits(kept, i) = {}
  BY <1>1, FirstIn DEF Hit
<1> QED BY <1>1, <1>2 DEF Hits, Needed

\* a block that fits does fit
LEMMA FittingBlock ==
  ASSUME NEW M, Sized(M), NEW i \in M, NEW prefix \in Nat
  PROVE  /\ FitBlock(i, prefix) \in Nat
         /\ FitBlock(i, prefix) # 0 => prefix + FitBlock(i, prefix) <= UnitLimit
<1> DEFINE blocks == i.blocks
           I == {n \in 1..Len(blocks) : prefix + blocks[n] <= UnitLimit}
           hit == IF I # {} THEN Min(I) ELSE 0
<1>1. FitBlock(i, prefix) = IF hit = 0 THEN 0 ELSE blocks[hit]
  BY DEF FitBlock, SelectInSeq
<1>2. I \subseteq Nat /\ I # {} => Min(I) \in I
  BY LeastOne
<1>3. blocks \in Seq(Nat \ {0})
  BY DEF Sized
<1> HIDE DEF blocks
<1>4. Len(blocks) \in Nat /\ \A n \in 1..Len(blocks) : blocks[n] \in Nat
  BY <1>3
<1> QED BY <1>1, <1>2, <1>4

LEMMA ClusterTyped ==
  ASSUME NEW M, NEW a \in Clustering(M), NEW i \in M
  PROVE  Cluster(a, i) \in Clustering(M)
<1>1. a.kept \in Seq(M) /\ a.rest \in Seq(M) /\ a.comparisons \in Int
  BY DEF Clustering
<1>2. Needed(a.kept, i) \in Nat
  BY <1>1, FirstHit
<1>3. MaxComparisons \in Int
  BY SelectionAssumption
<1>4. Append(a.kept, i) \in Seq(M) /\ Append(a.rest, i) \in Seq(M)
  BY <1>1
<1>5. [a EXCEPT !.rest = Append(@, i), !.comparisons = MaxComparisons] \in Clustering(M)
  BY <1>3, <1>4 DEF Clustering
<1>6. a.comparisons + Needed(a.kept, i) \in Int
  BY <1>1, <1>2
<1>7. (IF Hit(a.kept, i) = 0 THEN Append(a.kept, i) ELSE a.kept) \in Seq(M)
  BY <1>1, <1>4
<1>8. [a EXCEPT !.kept = IF Hit(a.kept, i) = 0 THEN Append(@, i) ELSE @,
                !.comparisons = @ + Needed(a.kept, i)] \in Clustering(M)
  BY <1>6, <1>7 DEF Clustering
<1> QED BY <1>5, <1>8, ClusterIs

LEMMA PackedTyped ==
  ASSUME NEW M, Sized(M), NEW a \in Packing(M), NEW i \in M
  PROVE  Packed(a, i) \in Packing(M)
<1>1. /\ a.messages \in Seq(Messages(M)) /\ a.omitted \in Seq(M) /\ a.header \in BOOLEAN
      /\ a.current \in Messages(M) /\ a.current.units \in Nat /\ a.current.items \in Seq(M)
  BY DEF Packing, Messages
<1>2. SeparatorUnits \in Nat /\ ContinuationUnits \in Nat
  BY SelectionAssumption
<1>3. \A m \in Messages(M), units \in Nat : Place(m, i, units) \in Messages(M)
  BY DEF Place, Messages
<1>4. Continuation \in Messages(M)
  BY <1>2 DEF Continuation, Messages
<1>5. PlaceItem(a, i) \in Packing(M)
  <2> DEFINE here == FitBlock(i, a.current.units + SeparatorUnits)
             there == FitBlock(i, ContinuationUnits)
  <2>0. a.current.units + SeparatorUnits \in Nat
    BY <1>1, <1>2
  <2>1. here \in Nat /\ there \in Nat
    BY <1>2, <2>0, FittingBlock
  <2>a. PlaceItem(a, i) =
          IF here # 0
          THEN [a EXCEPT !.current = Place(@, i, SeparatorUnits + here)]
          ELSE IF a.header
          THEN [a EXCEPT !.omitted = Append(@, i)]
          ELSE [a EXCEPT
                 !.messages = Append(@, a.current),
                 !.current = IF there # 0 THEN Place(Continuation, i, there) ELSE Continuation,
                 !.omitted = IF there # 0 THEN @ ELSE Append(@, i)]
    BY DEF PlaceItem
  <2> HIDE DEF here, there
  <2>2. SeparatorUnits + here \in Nat
    BY <2>1, <1>2
  <2>3. /\ Place(a.current, i, SeparatorUnits + here) \in Messages(M)
        /\ Place(Continuation, i, there) \in Messages(M)
    BY <1>1, <1>3, <1>4, <2>1, <2>2
  <2>4. Append(a.messages, a.current) \in Seq(Messages(M)) /\ Append(a.omitted, i) \in Seq(M)
    BY <1>1
  <2>5. [a EXCEPT !.current = Place(@, i, SeparatorUnits + here)] \in Packing(M)
    BY <2>3 DEF Packing
  <2>6. [a EXCEPT !.omitted = Append(@, i)] \in Packing(M)
    BY <2>4 DEF Packing
  <2>7. [a EXCEPT
           !.messages = Append(@, a.current),
           !.current = IF there # 0 THEN Place(Continuation, i, there) ELSE Continuation,
           !.omitted = IF there # 0 THEN @ ELSE Append(@, i)] \in Packing(M)
    BY <1>1, <1>4, <2>3, <2>4 DEF Packing
  <2> QED BY <2>a, <2>5, <2>6, <2>7
<1> QED BY <1>1, <1>5 DEF Packed, Packing

\* the clusters, candidate by candidate
LEMMA ClusterRuns ==
  ASSUME NEW M, NEW c \in Seq(M)
  PROVE  \E f \in [0..Len(c) -> Clustering(M)] :
           /\ f[0] = [kept |-> <<>>, rest |-> <<>>, comparisons |-> 0]
           /\ \A n \in 1..Len(c) : f[n] = Cluster(f[n - 1], c[n])
           /\ FoldLeft(Cluster, [kept |-> <<>>, rest |-> <<>>, comparisons |-> 0], c) = f[Len(c)]
<1> DEFINE N == Len(c)
           Sets == SUBSET (1..N)
           step == [n \in 1..N |-> [a \in Clustering(M) |-> Cluster(a, c[n])]]
           Is(iter) == iter = [T \in Sets |-> IF T = {} THEN [kept |-> <<>>, rest |-> <<>>, comparisons |-> 0]
                                 ELSE Cluster(iter[T \ {Max(T)}], c[Max(T)])]
           fold == CHOOSE iter : Is(iter)
           f == [n \in 0..N |-> fold[1..n]]
<1>1. N \in Nat /\ DOMAIN c = 1..N /\ \A n \in 1..N : c[n] \in M
  OBVIOUS
<1>2. \A a \in Clustering(M), i \in M : Cluster(a, i) \in Clustering(M)
  BY ClusterTyped
<1>3. Steps(step, 1..N, Clustering(M)) /\ [kept |-> <<>>, rest |-> <<>>, comparisons |-> 0] \in Clustering(M)
  BY <1>1, <1>2 DEF Steps, Clustering
<1>4. PICK iter : FoldRuns(iter, step, N, Clustering(M), [kept |-> <<>>, rest |-> <<>>, comparisons |-> 0])
  <2> HIDE DEF step, N
  <2> QED BY <1>1, <1>3, FoldExists
<1>5. Is(iter)
  <2>1. \A T \in Sets : T # {} => Max(T) \in 1..N
    BY <1>1, GreatestOne
  <2> QED BY <1>4, <2>1 DEF FoldRuns
<1>6. Is(fold)
  <2> HIDE DEF Is
  <2> QED BY <1>5
<1>7. FoldLeft(Cluster, [kept |-> <<>>, rest |-> <<>>, comparisons |-> 0], c) = fold[1..N]
  BY <1>1 DEF FoldLeft, MapThenFoldSet
<1> HIDE DEF fold
<1>8. fold[{}] = [kept |-> <<>>, rest |-> <<>>, comparisons |-> 0] /\ f[0] = fold[1..0] /\ 1..0 = {}
  BY <1>1, <1>6
<1>9. ASSUME NEW n \in 1..N
      PROVE  /\ fold[1..n] = Cluster(fold[1..(n - 1)], c[n])
             /\ f[n] = fold[1..n] /\ f[n - 1] = fold[1..(n - 1)]
  <2>1. Max(1..n) = n /\ (1..n) \ {n} = 1..(n - 1) /\ 1..n # {}
    BY <1>1, MaxOfInterval
  <2>2. 1..n \in Sets /\ n - 1 \in 0..N /\ n \in 0..N
    BY <1>1
  <2>3. fold[1..n] = Cluster(fold[(1..n) \ {Max(1..n)}], c[Max(1..n)])
    BY <1>6, <2>1, <2>2
  <2> QED BY <2>1, <2>2, <2>3
<1>10. \A n \in 0..N : fold[1..n] \in Clustering(M)
  <2> HIDE DEF N, f
  <2>1. \A n \in 1..N : fold[1..(n - 1)] \in Clustering(M) => fold[1..n] \in Clustering(M)
    BY <1>1, <1>2, <1>9
  <2>2. fold[{}] \in Clustering(M)
    BY <1>3, <1>8
  <2> QED BY <1>1, <2>1, <2>2, FoldTyped
<1>11. f \in [0..N -> Clustering(M)] /\ f[N] = fold[1..N]
  BY <1>1, <1>10
<1> HIDE DEF f
<1> QED BY <1>7, <1>8, <1>9, <1>11

\* the packing, story by story
PackedBy(f, M, first, c) ==
  /\ f \in [0..Len(c) -> Packing(M)]
  /\ f[0] = first
  /\ \A n \in 1..Len(c) : f[n] = Packed(f[n - 1], c[n])
  /\ FoldLeft(Packed, first, c) = f[Len(c)]

LEMMA PackedRuns ==
  ASSUME NEW M, NEW c \in Seq(M), Sized(M),
         NEW first \in Packing(M)
  PROVE  \E f : PackedBy(f, M, first, c)
<1> DEFINE N == Len(c)
           Sets == SUBSET (1..N)
           step == [n \in 1..N |-> [a \in Packing(M) |-> Packed(a, c[n])]]
           Is(iter) == iter = [T \in Sets |-> IF T = {} THEN first
                                 ELSE Packed(iter[T \ {Max(T)}], c[Max(T)])]
           fold == CHOOSE iter : Is(iter)
           f == [n \in 0..N |-> fold[1..n]]
<1>1. N \in Nat /\ DOMAIN c = 1..N /\ \A n \in 1..N : c[n] \in M
  OBVIOUS
<1>2. \A a \in Packing(M), i \in M : Packed(a, i) \in Packing(M)
  BY PackedTyped
<1>3. Steps(step, 1..N, Packing(M)) /\ first \in Packing(M)
  BY <1>1, <1>2 DEF Steps
<1>4. PICK iter : FoldRuns(iter, step, N, Packing(M), first)
  <2> HIDE DEF step, N
  <2> QED BY <1>1, <1>3, FoldExists
<1>5. Is(iter)
  <2>1. \A T \in Sets : T # {} => Max(T) \in 1..N
    BY <1>1, GreatestOne
  <2> QED BY <1>4, <2>1 DEF FoldRuns
<1>6. Is(fold)
  <2> HIDE DEF Is
  <2> QED BY <1>5
<1>7. FoldLeft(Packed, first, c) = fold[1..N]
  BY <1>1 DEF FoldLeft, MapThenFoldSet
<1> HIDE DEF fold
<1>8. fold[{}] = first /\ f[0] = fold[1..0] /\ 1..0 = {}
  BY <1>1, <1>6
<1>9. ASSUME NEW n \in 1..N
      PROVE  /\ fold[1..n] = Packed(fold[1..(n - 1)], c[n])
             /\ f[n] = fold[1..n] /\ f[n - 1] = fold[1..(n - 1)]
  <2>1. Max(1..n) = n /\ (1..n) \ {n} = 1..(n - 1) /\ 1..n # {}
    BY <1>1, MaxOfInterval
  <2>2. 1..n \in Sets /\ n - 1 \in 0..N /\ n \in 0..N
    BY <1>1
  <2>3. fold[1..n] = Packed(fold[(1..n) \ {Max(1..n)}], c[Max(1..n)])
    BY <1>6, <2>1, <2>2
  <2> QED BY <2>1, <2>2, <2>3
<1>10. \A n \in 0..N : fold[1..n] \in Packing(M)
  <2> HIDE DEF N, f
  <2>1. \A n \in 1..N : fold[1..(n - 1)] \in Packing(M) => fold[1..n] \in Packing(M)
    BY <1>1, <1>2, <1>9
  <2>2. fold[{}] \in Packing(M)
    BY <1>3, <1>8
  <2> QED BY <1>1, <2>1, <2>2, FoldTyped
<1>11. f \in [0..N -> Packing(M)] /\ f[N] = fold[1..N]
  BY <1>1, <1>10
<1> HIDE DEF f
<1> QED BY <1>7, <1>8, <1>9, <1>11 DEF PackedBy

-----------------------------------------------------------------------------
(***************************************************************************)
(* Sorting by ranks.                                                       *)
(***************************************************************************)
StrictOrder(R, S) ==
  /\ \A i \in S : <<i, i>> \notin R
  /\ \A i, j, k \in S : <<i, j>> \in R /\ <<j, k>> \in R => <<i, k>> \in R
  /\ \A i, j \in S : i # j => <<i, j>> \in R \/ <<j, i>> \in R

Below(R, S, i) == {j \in S : <<j, i>> \in R}

\* each has its own number of smaller ones, and every number is taken
LEMMA Ranks ==
  ASSUME NEW S, IsFiniteSet(S), NEW R, StrictOrder(R, S)
  PROVE  /\ \A i \in S : Cardinality(Below(R, S, i)) \in 0..(Cardinality(S) - 1)
         /\ \A i, j \in S : <<i, j>> \in R <=> Cardinality(Below(R, S, i)) < Cardinality(Below(R, S, j))
         /\ \A n \in 1..Cardinality(S) : \E i \in S : Cardinality(Below(R, S, i)) = n - 1
<1> DEFINE r == [i \in S |-> Cardinality(Below(R, S, i))]
           N == Cardinality(S)
<1>1. \A T \in SUBSET S : IsFiniteSet(T) /\ Cardinality(T) \in Nat
  BY FS_Subset, FS_CardinalityType
<1>2. ASSUME NEW T \in SUBSET S, NEW U \in SUBSET S, T \subseteq U, T # U
      PROVE  Cardinality(T) < Cardinality(U)
  <2>1. Cardinality(T) <= Cardinality(U) /\ (Cardinality(U) = Cardinality(T) => U = T)
    BY <1>1, <1>2, FS_Subset
  <2> QED BY <1>1, <1>2, <2>1
<1>3. \A i \in S : Below(R, S, i) \in SUBSET S /\ i \notin Below(R, S, i)
  BY DEF Below, StrictOrder
<1>4. ASSUME NEW i \in S PROVE r[i] \in 0..(N - 1)
  <2>1. Cardinality(Below(R, S, i)) < Cardinality(S)
    BY <1>2, <1>3
  <2>2. Cardinality(Below(R, S, i)) \in Nat /\ N \in Nat
    BY <1>1, <1>3
  <2> QED BY <2>1, <2>2
<1>5. ASSUME NEW i \in S, NEW j \in S, <<i, j>> \in R PROVE r[i] < r[j]
  <2>1. Below(R, S, i) \subseteq Below(R, S, j)
    BY <1>5 DEF Below, StrictOrder
  <2>2. i \in Below(R, S, j)
    BY <1>5 DEF Below
  <2>3. Cardinality(Below(R, S, i)) < Cardinality(Below(R, S, j))
    BY <1>2, <1>3, <2>1, <2>2
  <2> QED BY <2>3
<1>6. N \in Nat
  BY FS_CardinalityType
<1> HIDE DEF r
<1>7. \A i, j \in S : <<i, j>> \in R <=> r[i] < r[j]
  <2> TAKE i, j \in S
  <2>1. r[i] \in Int /\ r[j] \in Int
    BY <1>4
  <2>2. CASE i = j
    BY <2>1, <2>2 DEF StrictOrder
  <2>3. CASE i # j
    <3>1. <<i, j>> \in R => r[i] < r[j]
      BY <1>5
    <3>2. <<j, i>> \in R => r[j] < r[i]
      BY <1>5
    <3>3. <<i, j>> \in R \/ <<j, i>> \in R
      BY <2>3 DEF StrictOrder
    <3> QED BY <2>1, <3>1, <3>2, <3>3
  <2> QED BY <2>2, <2>3
<1>8. r \in Injection(S, 0..(N - 1))
  <2>1. r \in [S -> 0..(N - 1)]
    BY <1>4 DEF r
  <2>2. ASSUME NEW i \in S, NEW j \in S, r[i] = r[j] PROVE i = j
    <3>1. r[i] \in Int /\ r[j] \in Int
      BY <1>4
    <3>2. <<i, j>> \notin R /\ <<j, i>> \notin R
      BY <1>7, <2>2, <3>1
    <3> QED BY <3>2 DEF StrictOrder
  <2> QED BY <2>1, <2>2, Fun_IsInj
<1>9. r \in Surjection(S, 0..(N - 1))
  <2>1. IsFiniteSet(0..(N - 1)) /\ Cardinality(0..(N - 1)) = N
    BY <1>6, FS_Interval
  <2> QED BY <1>8, <2>1, FS_Injection
<1>10. \A n \in 1..N : \E i \in S : r[i] = n - 1
  <2> TAKE n \in 1..N
  <2>1. n - 1 \in 0..(N - 1)
    BY <1>6
  <2> QED BY <1>9, <2>1 DEF Surjection
<1> QED BY <1>4, <1>7, <1>10 DEF r

\* what a sort by ranks is
SortedBy(s, R, S) ==
  /\ s \in Seq(S) /\ Len(s) = Cardinality(S)
  /\ \A i \in S : \E n \in 1..Len(s) : s[n] = i
  /\ \A m, n \in 1..Len(s) : <<s[m], s[n]>> \in R <=> m < n
  /\ \A m, n \in 1..Len(s) : s[m] = s[n] => m = n

\* so the choice by rank is a sort
LEMMA RankSort ==
  ASSUME NEW S, IsFiniteSet(S), NEW R, StrictOrder(R, S), NEW s,
         DOMAIN s = 1..Cardinality(S), s = [n \in DOMAIN s |-> s[n]],
         \A n \in 1..Cardinality(S) :
            (\E i \in S : Cardinality(Below(R, S, i)) = n - 1)
              => s[n] \in S /\ Cardinality(Below(R, S, s[n])) = n - 1
  PROVE  SortedBy(s, R, S)
<1> DEFINE N == Cardinality(S)
<1>1. N \in Nat
  BY FS_CardinalityType
<1>2. \A n \in 1..N : s[n] \in S /\ Cardinality(Below(R, S, s[n])) = n - 1
  BY Ranks
<1>3. s \in [1..N -> S]
  BY <1>2
<1>4. s \in Seq(S) /\ Len(s) = N
  BY <1>1, <1>3
<1>5. \A m, n \in 1..N : <<s[m], s[n]>> \in R <=> m < n
  <2> TAKE m, n \in 1..N
  <2>1. <<s[m], s[n]>> \in R <=> m - 1 < n - 1
    BY <1>2, Ranks
  <2> QED BY <1>1, <2>1
<1>6. \A m, n \in 1..N : s[m] = s[n] => m = n
  <2> TAKE m, n \in 1..N
  <2> HAVE s[m] = s[n]
  <2>1. m - 1 = n - 1
    BY <1>2
  <2> QED BY <1>1, <2>1
<1>7. ASSUME NEW i \in S PROVE \E n \in 1..N : s[n] = i
  <2> DEFINE k == Cardinality(Below(R, S, i))
  <2>1. k \in 0..(N - 1)
    BY Ranks
  <2>2. k + 1 \in 1..N /\ (k + 1) - 1 = k
    BY <1>1, <2>1
  <2> DEFINE j == s[k + 1]
  <2>3. j \in S /\ Cardinality(Below(R, S, j)) = k
    BY <1>2, <2>2
  <2>4. ~(<<i, j>> \in R) /\ ~(<<j, i>> \in R)
    <3>1. ~(k < k)
      BY <2>1
    <3> HIDE DEF j
    <3> QED BY <2>3, <3>1, Ranks
  <2>5. i = j
    BY <2>3, <2>4 DEF StrictOrder
  <2> QED BY <2>2, <2>5
<1> QED BY <1>4, <1>5, <1>6, <1>7 DEF SortedBy

\* tuples of numbers as sort keys
Keys == Int \X Int \X Int \X Int

\* Less, unfolded
LEMMA Lexicographic ==
  ASSUME NEW a \in Keys, NEW b \in Keys
  PROVE  Less(a, b) <=>
           \/ a[1] < b[1]
           \/ a[1] = b[1] /\ a[2] < b[2]
           \/ a[1] = b[1] /\ a[2] = b[2] /\ a[3] < b[3]
           \/ a[1] = b[1] /\ a[2] = b[2] /\ a[3] = b[3] /\ a[4] < b[4]
<1>1. DOMAIN a = 1..4
  BY DEF Keys
<1>2. 1..4 = {1, 2, 3, 4} /\ 1..(1 - 1) = {} /\ 1..(2 - 1) = {1} /\ 1..(3 - 1) = {1, 2} /\ 1..(4 - 1) = {1, 2, 3}
  OBVIOUS
<1>3. Less(a, b) <=> \E n \in {1, 2, 3, 4} : a[n] < b[n] /\ \A m \in 1..(n - 1) : a[m] = b[m]
  BY <1>1, <1>2 DEF Less
<1> QED BY <1>2, <1>3

\* the order by a key, strict where the key tells all apart
KeyOrder(key, S) == {p \in S \X S : Less(key[p[1]], key[p[2]])}

LEMMA KeysOrder ==
  ASSUME NEW S, NEW key \in [S -> Keys], \A i, j \in S : key[i] = key[j] => i = j
  PROVE  StrictOrder(KeyOrder(key, S), S)
<1>1. \A i, j \in S : <<i, j>> \in KeyOrder(key, S) <=> Less(key[i], key[j])
  BY DEF KeyOrder
<1>2. ASSUME NEW a \in Keys, NEW b \in Keys
      PROVE /\ a[1] \in Int /\ a[2] \in Int /\ a[3] \in Int /\ a[4] \in Int
            /\ b[1] \in Int /\ b[2] \in Int /\ b[3] \in Int /\ b[4] \in Int
            /\ (a[1] = b[1] /\ a[2] = b[2] /\ a[3] = b[3] /\ a[4] = b[4] => a = b)
  BY DEF Keys
<1>3. ASSUME NEW a \in Keys PROVE ~Less(a, a)
  BY <1>2, Lexicographic
<1>4. ASSUME NEW a \in Keys, NEW b \in Keys, a # b PROVE Less(a, b) \/ Less(b, a)
  BY <1>2, <1>4, Lexicographic
<1>5. ASSUME NEW a \in Keys, NEW b \in Keys, NEW c \in Keys, Less(a, b), Less(b, c) PROVE Less(a, c)
  <2>1. \A d \in Keys : d[1] \in Int /\ d[2] \in Int /\ d[3] \in Int /\ d[4] \in Int
    BY DEF Keys
  <2> HIDE DEF Keys
  <2> QED BY <1>5, <2>1, Lexicographic
<1> HIDE DEF KeyOrder
<1> QED BY <1>1, <1>3, <1>4, <1>5 DEF StrictOrder

-----------------------------------------------------------------------------
(***************************************************************************)
(* Ranked items.                                                           *)
(***************************************************************************)
\* a finite set of numbers has its greatest
LEMMA FiniteMax ==
  ASSUME NEW S, IsFiniteSet(S), S \subseteq Int, S # {}
  PROVE  Max(S) \in S /\ \A x \in S : Max(S) >= x
<1> DEFINE R == {p \in S \X S : p[1] < p[2]}
           N == Cardinality(S)
<1>1. \A i, j \in S : (<<i, j>> \in R <=> i < j) /\ i \in Int /\ j \in Int
  OBVIOUS
<1> HIDE DEF R
<1>2. StrictOrder(R, S)
  BY <1>1 DEF StrictOrder
<1>3. N \in Nat /\ N # 0
  BY FS_CardinalityType, FS_EmptySet
<1>4. PICK i \in S : Cardinality(Below(R, S, i)) = N - 1
  <2>1. N \in 1..N
    BY <1>3
  <2> QED BY <1>2, <2>1, Ranks
<1>5. ASSUME NEW j \in S PROVE i >= j
  <2>1. Cardinality(Below(R, S, j)) \in 0..(N - 1)
    BY <1>2, Ranks
  <2>2. ~(Cardinality(Below(R, S, i)) < Cardinality(Below(R, S, j)))
    BY <1>3, <1>4, <2>1
  <2>3. <<i, j>> \notin R
    BY <1>2, <2>2, Ranks
  <2> QED BY <1>1, <2>3
<1> QED BY <1>5 DEF Max

\* the lesser of two
LEMMA TwoLeast ==
  ASSUME NEW a \in Int, NEW b \in Int
  PROVE  /\ Min({a, b}) = IF a <= b THEN a ELSE b
         /\ Max({a, b}) = IF a >= b THEN a ELSE b
<1>1. Min({a, b}) = IF a <= b THEN a ELSE b
  BY DEF Min
<1>2. Max({a, b}) = IF a >= b THEN a ELSE b
  BY DEF Max
<1> QED BY <1>1, <1>2

\* an item once it is ranked
Ages == {"day", "two days", "four days", "week", "stale", "future", "missing"}
Text == STRING
Ranked ==
  [id : Nat, source : Source, url : Text, title : Text, tokens : SUBSET Text,
   key : Text, host : Text, age : Ages, aggregator : BOOLEAN, points : [Topic -> Nat], context : SUBSET Topic,
   company : BOOLEAN, local : BOOLEAN, signals : Nat, trusted : BOOLEAN,
   negatives : Nat, blocks : Seq(Nat \ {0}), topic : Topic \cup {0}, score : Int]

LEMMA RankedFields ==
  ASSUME NEW i \in Ranked
  PROVE  /\ i.id \in Nat /\ i.topic \in Nat /\ i.score \in Int /\ i.age \in Ages
         /\ i.host \in Text /\ i.blocks \in Seq(Nat \ {0}) /\ Published(i) \in Nat
<1>1. Published(i) \in Nat
  BY DEF Published
<1>2. i.id \in Nat /\ i.topic \in Topic \cup {0} /\ i.score \in Int /\ i.age \in Ages
  BY DEF Ranked
<1>3. i.host \in Text /\ i.blocks \in Seq(Nat \ {0})
  BY DEF Ranked
<1>4. Topic \subseteq Nat
  BY SelectionAssumption
<1>5. \A t \in Topic \cup {0} : t \in Nat
  BY <1>4
<1>6. i.topic \in Nat
  BY <1>2, <1>5
<1> QED BY <1>1, <1>2, <1>3, <1>6

\* what _merge_group changes of the best item
Amend(i, h, a) == [i EXCEPT !.host = h, !.age = a]

LEMMA Amended ==
  ASSUME NEW i \in Ranked, NEW h \in Text, NEW a \in Ages
  PROVE  /\ Amend(i, h, a) \in Ranked /\ Amend(i, h, a).id = i.id
         /\ Amend(i, h, a).url = i.url /\ Amend(i, h, a).title = i.title
         /\ Amend(i, h, a).tokens = i.tokens /\ Amend(i, h, a).key = i.key
         /\ Amend(i, h, a).topic = i.topic /\ Amend(i, h, a).score = i.score
BY DEF Ranked, Amend

\* rank_item: a topic of the configuration, or none, and a number
LEMMA TopicTyped ==
  ASSUME NEW i \in ItemRecord
  PROVE  /\ BestTopic(i) \in Topic \cup {0}
         /\ \A t \in Topic : TopicScore(i, t) \in Nat
<1>1. \A t \in Topic : TopicScore(i, t) \in Nat
  BY DEF TopicScore, ItemRecord
<1> DEFINE scores == {TopicScore(i, t) : t \in Topic}
           f == [t \in Topic |-> TopicScore(i, t)]
           top == Max({0} \cup scores)
<1>2. IsFiniteSet({0} \cup scores)
  <2>1. f \in Surjection(Topic, scores)
    BY DEF Surjection
  <2>2. IsFiniteSet(scores)
    BY <2>1, FS_Surjection, SelectionAssumption
  <2>3. {0} \cup scores = scores \cup {0}
    OBVIOUS
  <2> QED BY <2>2, <2>3, FS_AddElement
<1>3. top \in {0} \cup scores
  <2>1. {0} \cup scores \subseteq Int /\ {0} \cup scores # {}
    BY <1>1
  <2> HIDE DEF scores
  <2> QED BY <1>2, <2>1, FiniteMax
<1>4. CASE top # 0
  <2> DEFINE best == {t \in Topic : TopicScore(i, t) = top}
  <2>1. best # {} /\ best \subseteq Nat
    BY <1>3, <1>4, SelectionAssumption
  <2> HIDE DEF best
  <2>2. Min(best) \in best
    BY <2>1, LeastOne
  <2>3. BestTopic(i) = Min(best)
    BY <1>4 DEF BestTopic, best
  <2>4. BestTopic(i) \in Topic
    BY <2>2, <2>3 DEF best
  <2> QED BY <1>1, <2>4
<1>5. CASE top = 0
  <2>1. BestTopic(i) = 0
    BY <1>5 DEF BestTopic
  <2> QED BY <1>1, <2>1
<1> QED BY <1>4, <1>5

LEMMA ScoreTyped ==
  ASSUME NEW i \in ItemRecord
  PROVE  Score(i) \in Int
<1> DEFINE t == BestTopic(i)
           matched == IF t = 0 THEN -12 ELSE Min({TopicScore(i, t), 18})
<1>1. matched \in Int
  <2>1. CASE t = 0
    BY <2>1
  <2>2. CASE t # 0
    <3>1. TopicScore(i, t) \in Nat
      BY <2>2, TopicTyped
    <3>2. Min({TopicScore(i, t), 18}) \in Int
      BY <3>1, TwoLeast
    <3> QED BY <2>2, <3>2
  <2> QED BY <2>1, <2>2
<1>2. i.signals \in Nat /\ i.negatives \in Nat
  BY DEF ItemRecord
<1>3. Min({9, 3 * i.signals}) \in Int
  BY <1>2, TwoLeast
<1>4. Recency(i) \in Int
  BY DEF Recency
<1>5. Score(i) = matched
      + (IF i.company THEN 20 ELSE 0) + (IF i.local THEN 3 ELSE 0)
      + Min({9, 3 * i.signals}) + (IF i.trusted THEN 2 ELSE 0)
      + Recency(i) - 8 * i.negatives
  BY DEF Score
<1> HIDE DEF matched
<1> QED BY <1>1, <1>2, <1>3, <1>4, <1>5

\* a ranked item is the item with its rank
LEMMA RankTyped ==
  ASSUME NEW i \in ItemRecord
  PROVE  /\ RankItem(i) \in Ranked /\ RankItem(i).id = i.id
         /\ RankItem(i).url = i.url /\ RankItem(i).title = i.title
         /\ RankItem(i).tokens = i.tokens /\ RankItem(i).key = i.key
         /\ FreshnessReason(RankItem(i)) = FreshnessReason(i)
<1>1. BestTopic(i) \in Topic \cup {0} /\ Score(i) \in Int
  BY TopicTyped, ScoreTyped
<1>2. \A t \in Topic \cup {0}, n \in Int : [i EXCEPT !.topic = t, !.score = n] \in Ranked
  BY DEF ItemRecord, Ranked, Ages, Text
<1>3. RankItem(i) \in Ranked
  BY <1>1, <1>2 DEF RankItem
<1>4. /\ RankItem(i).id = i.id /\ RankItem(i).url = i.url /\ RankItem(i).title = i.title
      /\ RankItem(i).tokens = i.tokens /\ RankItem(i).key = i.key /\ RankItem(i).age = i.age
  BY DEF RankItem, ItemRecord
<1> QED BY <1>3, <1>4 DEF FreshnessReason

-----------------------------------------------------------------------------
(***************************************************************************)
(* Deduplication: the exact merges.                                        *)
(***************************************************************************)
\* the sorts of the code are sorts
LEMMA QualitySorted ==
  ASSUME NEW S, IsFiniteSet(S), S \subseteq Ranked,
         \A i, j \in S : QualityKey(i) = QualityKey(j) => i = j
  PROVE  SortedBy(SortBy(S, QualityKey), KeyOrder([i \in S |-> QualityKey(i)], S), S)
<1> DEFINE key == [i \in S |-> QualityKey(i)]
           R == KeyOrder(key, S)
           s == SortBy(S, QualityKey)
<1>1. ASSUME NEW i \in S PROVE QualityKey(i) \in Keys
  <2>1. i.id \in Nat /\ i.score \in Int /\ Published(i) \in Nat
    BY RankedFields
  <2> HIDE DEF Published
  <2> QED BY <2>1 DEF QualityKey, Keys
<1>2. StrictOrder(R, S)
  <2>1. key \in [S -> Keys] /\ \A i, j \in S : key[i] = key[j] => i = j
    BY <1>1
  <2> HIDE DEF key
  <2> QED BY <2>1, KeysOrder
<1>3. \A i \in S : {j \in S : Less(QualityKey(j), QualityKey(i))} = Below(R, S, i)
  BY DEF Below, KeyOrder
<1> HIDE DEF R
<1>4. DOMAIN s = 1..Cardinality(S) /\ s = [n \in DOMAIN s |-> s[n]]
  <2> DEFINE at(n) == CHOOSE i \in S :
                        Cardinality({j \in S : Less(QualityKey(j), QualityKey(i))}) = n - 1
  <2>1. s = [n \in 1..Cardinality(S) |-> at(n)]
    BY DEF SortBy
  <2> HIDE DEF at, s
  <2> QED BY <2>1
<1>5. ASSUME NEW n \in 1..Cardinality(S), \E i \in S : Cardinality(Below(R, S, i)) = n - 1
      PROVE  s[n] \in S /\ Cardinality(Below(R, S, s[n])) = n - 1
  <2>1. s[n] = CHOOSE i \in S : Cardinality({j \in S : Less(QualityKey(j), QualityKey(i))}) = n - 1
    BY DEF SortBy
  <2>2. \E i \in S : Cardinality({j \in S : Less(QualityKey(j), QualityKey(i))}) = n - 1
    BY <1>3, <1>5
  <2>3. s[n] \in S /\ Cardinality({j \in S : Less(QualityKey(j), QualityKey(s[n]))}) = n - 1
    BY <2>1, <2>2
  <2> QED BY <1>3, <2>3
<1> HIDE DEF s
<1>6. SortedBy(s, R, S)
  BY <1>2, <1>4, <1>5, RankSort
<1> QED BY <1>6 DEF s, R

LEMMA SelectionSorted ==
  ASSUME NEW S, IsFiniteSet(S), S \subseteq Ranked,
         \A i, j \in S : SelectionKey(i) = SelectionKey(j) => i = j
  PROVE  SortedBy(SortBy(S, SelectionKey), KeyOrder([i \in S |-> SelectionKey(i)], S), S)
<1> DEFINE key == [i \in S |-> SelectionKey(i)]
           R == KeyOrder(key, S)
           s == SortBy(S, SelectionKey)
<1>1. ASSUME NEW i \in S PROVE SelectionKey(i) \in Keys
  <2>1. i.id \in Nat /\ i.topic \in Nat /\ i.score \in Int /\ Published(i) \in Nat
    BY RankedFields
  <2> QED BY <2>1 DEF SelectionKey, Keys
<1>2. StrictOrder(R, S)
  <2>1. key \in [S -> Keys] /\ \A i, j \in S : key[i] = key[j] => i = j
    BY <1>1
  <2> HIDE DEF key
  <2> QED BY <2>1, KeysOrder
<1>3. \A i \in S : {j \in S : Less(SelectionKey(j), SelectionKey(i))} = Below(R, S, i)
  BY DEF Below, KeyOrder
<1> HIDE DEF R
<1>4. DOMAIN s = 1..Cardinality(S) /\ s = [n \in DOMAIN s |-> s[n]]
  <2> DEFINE at(n) == CHOOSE i \in S :
                        Cardinality({j \in S : Less(SelectionKey(j), SelectionKey(i))}) = n - 1
  <2>1. s = [n \in 1..Cardinality(S) |-> at(n)]
    BY DEF SortBy
  <2> HIDE DEF at, s
  <2> QED BY <2>1
<1>5. ASSUME NEW n \in 1..Cardinality(S), \E i \in S : Cardinality(Below(R, S, i)) = n - 1
      PROVE  s[n] \in S /\ Cardinality(Below(R, S, s[n])) = n - 1
  <2>1. s[n] = CHOOSE i \in S : Cardinality({j \in S : Less(SelectionKey(j), SelectionKey(i))}) = n - 1
    BY DEF SortBy
  <2>2. \E i \in S : Cardinality({j \in S : Less(SelectionKey(j), SelectionKey(i))}) = n - 1
    BY <1>3, <1>5
  <2>3. s[n] \in S /\ Cardinality({j \in S : Less(SelectionKey(j), SelectionKey(s[n]))}) = n - 1
    BY <2>1, <2>2
  <2> QED BY <1>3, <2>3
<1> HIDE DEF s
<1>6. SortedBy(s, R, S)
  BY <1>2, <1>4, <1>5, RankSort
<1> QED BY <1>6 DEF s, R

\* m stands for b
Like(m, b) ==
  /\ m.id = b.id /\ m.url = b.url /\ m.topic = b.topic /\ m.score = b.score
  /\ m.title = b.title /\ m.tokens = b.tokens /\ m.key = b.key

\* items that the sort by quality tells apart
Distinct(S) ==
  /\ IsFiniteSet(S) /\ S \subseteq Ranked
  /\ \A i, j \in S : QualityKey(i) = QualityKey(j) => i = j

\* a merged group is its best item, amended
LEMMA MergeTyped ==
  ASSUME NEW G, Distinct(G), G # {}
  PROVE  MergeGroup(G) \in Ranked /\ \E b \in G : Like(MergeGroup(G), b)
<1> DEFINE s == SortBy(G, QualityKey)
           N == Len(s)
           I == {n \in 1..N : s[n].host # ""}
           J == {n \in 1..N : s[n].age # "missing"}
           p == IF I # {} THEN Min(I) ELSE 0
           q == IF J # {} THEN Min(J) ELSE 0
           x == s[IF p = 0 THEN 1 ELSE p]
           y == s[IF q = 0 THEN 1 ELSE q]
<1>1. s \in Seq(G) /\ N = Cardinality(G)
  BY QualitySorted DEF SortedBy, Distinct
<1>2. MergeGroup(G) = [s[1] EXCEPT !.host = x.host, !.age = y.age]
  BY DEF MergeGroup, FirstWith, SelectInSeq
<1> HIDE DEF s
<1>3. N \in Nat /\ N # 0
  BY <1>1, FS_CardinalityType, FS_EmptySet DEF Distinct
<1>4. \A n \in 1..N : s[n] \in G /\ s[n] \in Ranked
  BY <1>1 DEF Distinct
<1>5. p \in 0..N
  <2>1. I \subseteq 1..N
    OBVIOUS
  <2> HIDE DEF I, N
  <2> QED BY <1>3, <2>1, FirstIn
<1>6. q \in 0..N
  <2>1. J \subseteq 1..N
    OBVIOUS
  <2> HIDE DEF J, N
  <2> QED BY <1>3, <2>1, FirstIn
<1> HIDE DEF p, q
<1>7. x \in Ranked /\ y \in Ranked /\ s[1] \in G /\ s[1] \in Ranked
  <2>1. 1 \in 1..N /\ (p # 0 => p \in 1..N) /\ (q # 0 => q \in 1..N)
    BY <1>3, <1>5, <1>6
  <2> QED BY <1>4, <2>1
<1> HIDE DEF x, y
<1>8. x.host \in Text /\ y.age \in Ages
  BY <1>7, RankedFields
<1>9. MergeGroup(G) = Amend(s[1], x.host, y.age)
  BY <1>2 DEF Amend
<1>10. MergeGroup(G) \in Ranked /\ Like(MergeGroup(G), s[1])
  BY <1>7, <1>8, <1>9, Amended DEF Like
<1> QED BY <1>7, <1>10

\* what merging by a key makes of S
Merges(T, S) ==
  /\ IsFiniteSet(T) /\ T \subseteq Ranked
  /\ \A m \in T : \E b \in S : Like(m, b)

\* one of each url is left, and each item has one left with its url
LEMMA MergeUrls ==
  ASSUME NEW S, Distinct(S)
  PROVE  LET T == MergeBy(S, LAMBDA i : i.url)
         IN  /\ Merges(T, S)
             /\ \A i \in S : \E m \in T : m.url = i.url
             /\ \A m, n \in T : m.url = n.url => m = n
<1> DEFINE group(k) == {i \in S : i.url = k}
           merge == [i \in S |-> MergeGroup(group(i.url))]
           T == MergeBy(S, LAMBDA i : i.url)
<1>1. T = {merge[i] : i \in S}
  BY DEF MergeBy
<1>2. ASSUME NEW i \in S
      PROVE  /\ merge[i] \in Ranked /\ \E b \in S : Like(merge[i], b)
             /\ merge[i].url = i.url
  <2>1. group(i.url) # {} /\ Distinct(group(i.url))
    <3>1. group(i.url) \subseteq S /\ i \in group(i.url)
      OBVIOUS
    <3>2. IsFiniteSet(group(i.url))
      BY <3>1, FS_Subset DEF Distinct
    <3> QED BY <3>1, <3>2 DEF Distinct
  <2>2. /\ MergeGroup(group(i.url)) \in Ranked
        /\ \E b \in group(i.url) : Like(MergeGroup(group(i.url)), b)
    BY <2>1, MergeTyped
  <2>3. PICK b \in group(i.url) : Like(merge[i], b)
    BY <2>2
  <2>4. b \in S /\ b.url = i.url
    OBVIOUS
  <2> QED BY <2>2, <2>3, <2>4 DEF Like
<1>3. \A i, j \in S : i.url = j.url => merge[i] = merge[j]
  OBVIOUS
<1>4. IsFiniteSet(T)
  <2>1. merge \in Surjection(S, T)
    BY <1>1 DEF Surjection
  <2> HIDE DEF T, merge
  <2> QED BY <2>1, FS_Surjection DEF Distinct
<1> HIDE DEF T, merge
<1>5. Merges(T, S)
  BY <1>1, <1>2, <1>4 DEF Merges
<1>6. \A i \in S : \E m \in T : m.url = i.url
  BY <1>1, <1>2
<1>7. \A m, n \in T : m.url = n.url => m = n
  BY <1>1, <1>2, <1>3
<1> QED BY <1>5, <1>6, <1>7 DEF T

\* the same for titles
LEMMA MergeTitles ==
  ASSUME NEW S, Distinct(S)
  PROVE  LET T == MergeBy(S, LAMBDA i : i.title)
         IN  /\ Merges(T, S)
             /\ \A i \in S : \E m \in T : m.title = i.title
             /\ \A m, n \in T : m.title = n.title => m = n
<1> DEFINE group(k) == {i \in S : i.title = k}
           merge == [i \in S |-> MergeGroup(group(i.title))]
           T == MergeBy(S, LAMBDA i : i.title)
<1>1. T = {merge[i] : i \in S}
  BY DEF MergeBy
<1>2. ASSUME NEW i \in S
      PROVE  /\ merge[i] \in Ranked /\ \E b \in S : Like(merge[i], b)
             /\ merge[i].title = i.title
  <2>1. group(i.title) # {} /\ Distinct(group(i.title))
    <3>1. group(i.title) \subseteq S /\ i \in group(i.title)
      OBVIOUS
    <3>2. IsFiniteSet(group(i.title))
      BY <3>1, FS_Subset DEF Distinct
    <3> QED BY <3>1, <3>2 DEF Distinct
  <2>2. /\ MergeGroup(group(i.title)) \in Ranked
        /\ \E b \in group(i.title) : Like(MergeGroup(group(i.title)), b)
    BY <2>1, MergeTyped
  <2>3. PICK b \in group(i.title) : Like(merge[i], b)
    BY <2>2
  <2>4. b \in S /\ b.title = i.title
    OBVIOUS
  <2> QED BY <2>2, <2>3, <2>4 DEF Like
<1>3. \A i, j \in S : i.title = j.title => merge[i] = merge[j]
  OBVIOUS
<1>4. IsFiniteSet(T)
  <2>1. merge \in Surjection(S, T)
    BY <1>1 DEF Surjection
  <2> HIDE DEF T, merge
  <2> QED BY <2>1, FS_Surjection DEF Distinct
<1> HIDE DEF T, merge
<1>5. Merges(T, S)
  BY <1>1, <1>2, <1>4 DEF Merges
<1>6. \A i \in S : \E m \in T : m.title = i.title
  BY <1>1, <1>2
<1>7. \A m, n \in T : m.title = n.title => m = n
  BY <1>1, <1>2, <1>3
<1> QED BY <1>5, <1>6, <1>7 DEF T

\* an id stands for one text, tokens are those of the title, and headlines of
\* one key have tokens in common
Identified(S) ==
  /\ \A i \in S : IsFiniteSet(i.tokens)
  /\ \A i, j \in S :
       /\ i.id = j.id => i.url = j.url /\ i.title = j.title /\ i.key = j.key
       /\ i.title = j.title => i.tokens = j.tokens
       /\ i.key = j.key => i.tokens \subseteq j.tokens \/ j.tokens \subseteq i.tokens

\* ids alone tell items apart
LEMMA DistinctIds ==
  ASSUME NEW T, IsFiniteSet(T), T \subseteq Ranked, \A m, n \in T : m.id = n.id => m = n
  PROVE  Distinct(T)
<1>1. ASSUME NEW i \in T, NEW j \in T, QualityKey(i) = QualityKey(j) PROVE i.id = j.id
  <2>1. QualityKey(i)[4] = i.id /\ QualityKey(j)[4] = j.id
    BY DEF QualityKey
  <2> QED BY <1>1, <2>1
<1> QED BY <1>1 DEF Distinct

\* what the two merges leave of S: no url or title twice, and of each item
\* one that a url and then a title lead to
ExactOf(e, S) ==
  /\ e \in Seq(Ranked)
  /\ \A n \in 1..Len(e) : \E b \in S : Like(e[n], b)
  /\ \A m, n \in 1..Len(e) :
       e[m].url = e[n].url \/ e[m].title = e[n].title \/ e[m].id = e[n].id => m = n
  /\ \A i \in S : \E b, c \in S : \E n \in 1..Len(e) :
       b.url = i.url /\ b.title = c.title /\ Like(e[n], c)

LEMMA ExactMerges ==
  ASSUME NEW S, Distinct(S), Identified(S)
  PROVE  ExactOf(Exact(S), S)
<1> DEFINE M == MergeBy(S, LAMBDA i : i.url)
           T == MergeBy(M, LAMBDA i : i.title)
           R == KeyOrder([i \in T |-> QualityKey(i)], T)
           e == SortBy(T, QualityKey)
<1>e. Exact(S) = e
  BY DEF Exact
<1>1. /\ Merges(M, S)
      /\ \A i \in S : \E m \in M : m.url = i.url
      /\ \A m, n \in M : m.url = n.url => m = n
  BY MergeUrls
<1> HIDE DEF M
<1>2. \A m, n \in M : m.id = n.id => m = n
  <2> TAKE m, n \in M
  <2> HAVE m.id = n.id
  <2>1. PICK b \in S : Like(m, b)
    BY <1>1 DEF Merges
  <2>2. PICK c \in S : Like(n, c)
    BY <1>1 DEF Merges
  <2>3. m.url = n.url
    BY <2>1, <2>2 DEF Like, Identified
  <2> QED BY <1>1, <2>3
<1>3. Distinct(M)
  BY <1>1, <1>2, DistinctIds DEF Merges
<1>4. /\ Merges(T, M)
      /\ \A i \in M : \E m \in T : m.title = i.title
      /\ \A m, n \in T : m.title = n.title => m = n
  BY <1>3, MergeTitles
<1> HIDE DEF T
<1>5. \A m, n \in T : m.id = n.id \/ m.url = n.url => m = n
  <2> TAKE m, n \in T
  <2> HAVE m.id = n.id \/ m.url = n.url
  <2>1. PICK b \in M : Like(m, b)
    BY <1>4 DEF Merges
  <2>2. PICK c \in M : Like(n, c)
    BY <1>4 DEF Merges
  <2>3. b = c
    BY <1>1, <1>2, <2>1, <2>2 DEF Like
  <2> QED BY <1>4, <2>1, <2>2, <2>3 DEF Like
<1>6. Distinct(T)
  BY <1>4, <1>5, DistinctIds DEF Merges
<1>7. SortedBy(e, R, T)
  BY <1>6, QualitySorted DEF Distinct
<1> HIDE DEF e, R
<1>8. e \in Seq(T) /\ \A n \in 1..Len(e) : e[n] \in T
  BY <1>7 DEF SortedBy
<1>9. e \in Seq(Ranked)
  BY <1>8, <1>6, SeqMonotonic DEF Distinct
<1>10. ASSUME NEW m \in T PROVE \E b \in S : Like(m, b)
  <2>1. PICK b \in M : Like(m, b)
    BY <1>4 DEF Merges
  <2>2. PICK c \in S : Like(b, c)
    BY <1>1 DEF Merges
  <2> QED BY <2>1, <2>2 DEF Like
<1>11. \A m, n \in 1..Len(e) :
         e[m].url = e[n].url \/ e[m].title = e[n].title \/ e[m].id = e[n].id => m = n
  <2> TAKE m, n \in 1..Len(e)
  <2> HAVE e[m].url = e[n].url \/ e[m].title = e[n].title \/ e[m].id = e[n].id
  <2>1. e[m] \in T /\ e[n] \in T
    BY <1>8
  <2>2. e[m] = e[n]
    BY <1>4, <1>5, <2>1
  <2> QED BY <1>7, <2>2 DEF SortedBy
<1>12. ASSUME NEW i \in S
       PROVE  \E b, c \in S : \E n \in 1..Len(e) : b.url = i.url /\ b.title = c.title /\ Like(e[n], c)
  <2>1. PICK m \in M : m.url = i.url
    BY <1>1
  <2>2. PICK b \in S : Like(m, b)
    BY <1>1 DEF Merges
  <2>3. PICK t \in T : t.title = m.title
    BY <1>4
  <2>4. PICK c \in S : Like(t, c)
    BY <1>10
  <2>5. PICK n \in 1..Len(e) : e[n] = t
    BY <1>7 DEF SortedBy
  <2>6. b.url = i.url /\ b.title = c.title /\ Like(e[n], c)
    BY <2>1, <2>2, <2>3, <2>4, <2>5 DEF Like
  <2> QED BY <2>6
<1>13. \A n \in 1..Len(e) : \E b \in S : Like(e[n], b)
  BY <1>8, <1>10
<1> QED BY <1>e, <1>9, <1>11, <1>12, <1>13 DEF ExactOf

\* what holds of the clusters of the first n candidates of c
From(s, c, n) == \A k \in 1..Len(s) : \E p \in 1..n : s[k] = c[p]
Apart(kept) == \A x, y \in 1..Len(kept) : x < y => ~Similar(kept[y], kept[x])
Covered(kept, rest, c, n) ==
  \A p \in 1..n :
    \/ \E k \in 1..Len(kept) : kept[k] = c[p] \/ Similar(c[p], kept[k])
    \/ \E k \in 1..Len(rest) : rest[k] = c[p]

Clustered(a, c, n) ==
  From(a.kept, c, n) /\ From(a.rest, c, n) /\ Apart(a.kept) /\ Covered(a.kept, a.rest, c, n)

\* one more candidate
LEMMA FromNext ==
  ASSUME NEW M, NEW c, NEW n \in Nat \ {0}, NEW s \in Seq(M), From(s, c, n - 1), c[n] \in M
  PROVE  From(s, c, n) /\ From(Append(s, c[n]), c, n)
<1> DEFINE t == Append(s, c[n])
<1>1. \A p \in 1..(n - 1) : p \in 1..n
  OBVIOUS
<1>2. n \in 1..n
  OBVIOUS
<1>3. \A k \in 1..Len(s) : \E p \in 1..n : s[k] = c[p]
  BY <1>1 DEF From
<1>4. /\ Len(t) = Len(s) + 1 /\ Len(s) \in Nat /\ t[Len(s) + 1] = c[n]
      /\ \A k \in 1..Len(s) : t[k] = s[k]
  OBVIOUS
<1> HIDE DEF t
<1>5. \A k \in 1..Len(t) : \E p \in 1..n : t[k] = c[p]
  <2> TAKE k \in 1..Len(t)
  <2>1. CASE k = Len(s) + 1
    BY <1>2, <1>4, <2>1
  <2>2. CASE k # Len(s) + 1
    <3>1. k \in 1..Len(s)
      BY <1>4, <2>2
    <3> QED BY <1>3, <1>4, <3>1
  <2> QED BY <2>1, <2>2
<1> QED BY <1>3, <1>5 DEF From, t

LEMMA CoveredNext ==
  ASSUME NEW kept, NEW rest, NEW kept2, NEW rest2, NEW c, NEW n \in Nat \ {0},
         Covered(kept, rest, c, n - 1),
         \A k \in 1..Len(kept) : k \in 1..Len(kept2) /\ kept2[k] = kept[k],
         \A k \in 1..Len(rest) : k \in 1..Len(rest2) /\ rest2[k] = rest[k],
         \/ \E k \in 1..Len(kept2) : kept2[k] = c[n] \/ Similar(c[n], kept2[k])
         \/ \E k \in 1..Len(rest2) : rest2[k] = c[n]
  PROVE  Covered(kept2, rest2, c, n)
<1>1. ASSUME NEW p \in 1..n
      PROVE  \/ \E k \in 1..Len(kept2) : kept2[k] = c[p] \/ Similar(c[p], kept2[k])
             \/ \E k \in 1..Len(rest2) : rest2[k] = c[p]
  <2>1. CASE p = n
    BY <2>1
  <2>2. CASE p # n
    <3>1. p \in 1..(n - 1)
      BY <2>2
    <3>2. CASE \E k \in 1..Len(kept) : kept[k] = c[p] \/ Similar(c[p], kept[k])
      <4>1. PICK k \in 1..Len(kept) : kept[k] = c[p] \/ Similar(c[p], kept[k])
        BY <3>2
      <4>2. k \in 1..Len(kept2) /\ kept2[k] = kept[k]
        BY <4>1
      <4> QED BY <4>1, <4>2
    <3>3. CASE \E k \in 1..Len(rest) : rest[k] = c[p]
      <4>1. PICK k \in 1..Len(rest) : rest[k] = c[p]
        BY <3>3
      <4>2. k \in 1..Len(rest2) /\ rest2[k] = rest[k]
        BY <4>1
      <4> QED BY <4>1, <4>2
    <3> QED BY <3>1, <3>2, <3>3 DEF Covered
  <2> QED BY <2>1, <2>2
<1> QED BY <1>1 DEF Covered

\* a candidate is retained, is like one retained, or is put aside
LEMMA ClusterKeeps ==
  ASSUME NEW M, NEW c \in Seq(M), NEW n \in 1..Len(c), NEW a \in Clustering(M),
         Clustered(a, c, n - 1)
  PROVE  Clustered(Cluster(a, c[n]), c, n)
<1> DEFINE i == c[n]
           b == Cluster(a, i)
           L == Len(a.kept)
<1>1. a.kept \in Seq(M) /\ a.rest \in Seq(M) /\ a.comparisons \in Int /\ i \in M
  BY DEF Clustering
<1>2. From(a.kept, c, n - 1) /\ From(a.rest, c, n - 1) /\ Apart(a.kept) /\ Covered(a.kept, a.rest, c, n - 1)
  BY DEF Clustered
<1>n. n \in Nat \ {0}
  OBVIOUS
<1>3. /\ From(a.kept, c, n) /\ From(Append(a.kept, i), c, n)
      /\ From(a.rest, c, n) /\ From(Append(a.rest, i), c, n)
  BY <1>1, <1>2, <1>n, FromNext
<1>4. \A s \in Seq(M) :
        /\ Len(s) \in Nat /\ Len(Append(s, i)) = Len(s) + 1 /\ Append(s, i)[Len(s) + 1] = i
        /\ \A k \in 1..Len(s) : k \in 1..Len(Append(s, i)) /\ Append(s, i)[k] = s[k]
        /\ Len(s) + 1 \in 1..Len(Append(s, i))
  BY <1>1
<1>5. CASE a.rest # <<>> \/ Needed(a.kept, i) > MaxComparisons - a.comparisons
  <2>1. b.kept = a.kept /\ b.rest = Append(a.rest, i)
    BY <1>5, ClusterIs DEF Clustering
  <2> DEFINE rest == Append(a.rest, i)
  <2>2. \E k \in 1..Len(rest) : rest[k] = i
    BY <1>1, <1>4
  <2>3. \A k \in 1..Len(a.rest) : k \in 1..Len(rest) /\ rest[k] = a.rest[k]
    BY <1>1, <1>4
  <2> HIDE DEF b, rest
  <2>4. Covered(a.kept, rest, c, n)
    BY <1>2, <1>n, <2>2, <2>3, CoveredNext
  <2> HIDE DEF i
  <2> QED BY <1>2, <1>3, <2>1, <2>4 DEF Clustered, b, i, rest
<1>6. CASE ~(a.rest # <<>> \/ Needed(a.kept, i) > MaxComparisons - a.comparisons)
  <2>1. /\ b.kept = IF Hit(a.kept, i) = 0 THEN Append(a.kept, i) ELSE a.kept
        /\ b.rest = a.rest
    BY <1>6, ClusterIs DEF Clustering
  <2> HIDE DEF b
  <2>2. /\ Hit(a.kept, i) \in 0..L
        /\ Hit(a.kept, i) # 0 => Similar(i, a.kept[Hit(a.kept, i)])
        /\ Hit(a.kept, i) = 0 => \A k \in 1..L : ~Similar(i, a.kept[k])
    BY <1>1, FirstHit
  <2>3. CASE Hit(a.kept, i) # 0
    <3>1. Hit(a.kept, i) \in 1..L
      BY <1>1, <2>2, <2>3
    <3>2. \E k \in 1..L : a.kept[k] = i \/ Similar(i, a.kept[k])
      BY <2>2, <2>3, <3>1
    <3>3. Covered(a.kept, a.rest, c, n)
      BY <1>2, <1>n, <3>2, CoveredNext
    <3> HIDE DEF i
    <3> QED BY <1>2, <1>3, <2>1, <2>3, <3>3 DEF Clustered, b, i
  <2>4. CASE Hit(a.kept, i) = 0
    <3> DEFINE kept == Append(a.kept, i)
    <3>1. \E k \in 1..Len(kept) : kept[k] = i
      BY <1>1, <1>4
    <3>2. \A k \in 1..L : k \in 1..Len(kept) /\ kept[k] = a.kept[k]
      BY <1>1, <1>4
    <3>3. Len(kept) = L + 1 /\ kept[L + 1] = i /\ L \in Nat
      BY <1>1, <1>4
    <3> HIDE DEF kept
    <3>4. Covered(kept, a.rest, c, n)
      BY <1>2, <1>n, <3>1, <3>2, CoveredNext
    <3>5. ASSUME NEW x \in 1..Len(kept), NEW y \in 1..Len(kept), x < y
          PROVE  ~Similar(kept[y], kept[x])
      <4>1. x \in 1..L
        BY <3>3, <3>5
      <4>2. CASE y = L + 1
        BY <2>2, <2>4, <3>2, <3>3, <4>1, <4>2
      <4>3. CASE y # L + 1
        <5>1. y \in 1..L
          BY <3>3, <4>3
        <5> QED BY <1>2, <3>2, <3>5, <4>1, <5>1 DEF Apart
      <4> QED BY <4>2, <4>3
    <3>6. Apart(kept)
      BY <3>5 DEF Apart
    <3> HIDE DEF i
    <3>7. b.kept = kept
      BY <2>1, <2>4 DEF kept
    <3> QED BY <1>3, <2>1, <3>4, <3>6, <3>7 DEF Clustered, b, i, kept
  <2> QED BY <2>3, <2>4
<1> QED BY <1>5, <1>6

-----------------------------------------------------------------------------
(***************************************************************************)
(* Deduplication: the likeness of titles, within its budget.               *)
(***************************************************************************)
\* the first k of a sequence
LEMMA Prefix ==
  ASSUME NEW M, NEW e \in Seq(M), NEW k \in 0..Len(e)
  PROVE  /\ SubSeq(e, 1, k) \in Seq(M) /\ Len(SubSeq(e, 1, k)) = k
         /\ \A p \in 1..k : SubSeq(e, 1, k)[p] = e[p]
<1>1. Len(e) \in Nat /\ k \in Int /\ \A p \in 1..k : e[p] \in M
  OBVIOUS
<1>2. ASSUME NEW m \in Int, m = 1
      PROVE  /\ SubSeq(e, m, k) \in Seq(M)
             /\ Len(SubSeq(e, m, k)) = (IF m <= k THEN k - m + 1 ELSE 0)
             /\ \A p \in 1..(k - m + 1) : SubSeq(e, m, k)[p] = e[m + p - 1]
  <2>1. \A p \in m..k : e[p] \in M
    BY <1>1, <1>2
  <2> QED BY <1>1, <2>1, SubSeqProperties
<1>3. /\ SubSeq(e, 1, k) \in Seq(M)
      /\ Len(SubSeq(e, 1, k)) = (IF 1 <= k THEN k - 1 + 1 ELSE 0)
      /\ \A p \in 1..(k - 1 + 1) : SubSeq(e, 1, k)[p] = e[1 + p - 1]
  BY <1>2
<1>4. (IF 1 <= k THEN k - 1 + 1 ELSE 0) = k /\ \A p \in 1..k : p \in 1..(k - 1 + 1) /\ 1 + p - 1 = p
  BY <1>1
<1> QED BY <1>3, <1>4

\* the clusters of the candidates within the budget
LEMMA ClustersOf ==
  ASSUME NEW M, NEW e \in Seq(M), NEW K, K = Min({MaxCandidates, Len(e)})
  PROVE  /\ K \in 0..Len(e) /\ (Len(e) <= MaxCandidates => K = Len(e))
         /\ (Len(e) > MaxCandidates => K = MaxCandidates)
         /\ Clusters(e) \in Clustering(M) /\ Clustered(Clusters(e), e, K)
<1> DEFINE c == SubSeq(e, 1, K)
           first == [kept |-> <<>>, rest |-> <<>>, comparisons |-> 0]
<1>1. MaxCandidates \in Nat /\ Len(e) \in Nat
  BY SelectionAssumption
<1>2. /\ K \in 0..Len(e) /\ (Len(e) <= MaxCandidates => K = Len(e))
      /\ (Len(e) > MaxCandidates => K = MaxCandidates)
  BY <1>1, TwoLeast
<1>3. c \in Seq(M) /\ Len(c) = K /\ \A p \in 1..K : c[p] = e[p]
  BY <1>2, Prefix
<1>4. Clusters(e) = FoldLeft(Cluster, first, c)
  BY DEF Clusters
<1> HIDE DEF c
<1>5. PICK f \in [0..K -> Clustering(M)] :
        /\ f[0] = first
        /\ \A n \in 1..K : f[n] = Cluster(f[n - 1], c[n])
        /\ FoldLeft(Cluster, first, c) = f[K]
  <2>1. \E f \in [0..Len(c) -> Clustering(M)] :
          /\ f[0] = [kept |-> <<>>, rest |-> <<>>, comparisons |-> 0]
          /\ \A n \in 1..Len(c) : f[n] = Cluster(f[n - 1], c[n])
          /\ FoldLeft(Cluster, [kept |-> <<>>, rest |-> <<>>, comparisons |-> 0], c) = f[Len(c)]
    BY <1>3, ClusterRuns
  <2> QED BY <1>3, <2>1
<1> DEFINE Good == {n \in 0..K : Clustered(f[n], c, n)}
<1>6. 0 \in Good
  <2>1. first.kept = <<>> /\ first.rest = <<>> /\ Len(<<>>) = 0 /\ 1..0 = {}
    OBVIOUS
  <2>2. Clustered(first, c, 0)
    BY <2>1 DEF Clustered, From, Apart, Covered
  <2> QED BY <1>2, <1>5, <2>2
<1>7. ASSUME NEW n \in 0..(K - 1), n \in Good PROVE n + 1 \in Good
  <2>1. n + 1 \in 1..K /\ (n + 1) - 1 = n /\ n \in 0..K /\ n + 1 \in 0..K
    BY <1>2
  <2>2. f[n + 1] = Cluster(f[n], c[n + 1])
    BY <1>5, <2>1
  <2>3. f[n] \in Clustering(M) /\ Clustered(f[n], c, (n + 1) - 1) /\ n + 1 \in 1..Len(c)
    BY <1>3, <1>7, <2>1
  <2>4. Clustered(Cluster(f[n], c[n + 1]), c, n + 1)
    BY <1>3, <2>3, ClusterKeeps
  <2> QED BY <2>1, <2>2, <2>4
<1>8. K \in Good
  <2>1. K \in Nat
    BY <1>2
  <2> HIDE DEF Good
  <2>2. 0..K \subseteq Good
    BY <1>6, <1>7, <2>1, CountingTo
  <2> QED BY <2>1, <2>2
<1>9. Clusters(e) = f[K] /\ f[K] \in Clustering(M) /\ Clustered(Clusters(e), c, K)
  BY <1>2, <1>4, <1>5, <1>8
<1>10. Clustered(Clusters(e), e, K)
  <2>1. \A s : From(s, c, K) <=> From(s, e, K)
    BY <1>3 DEF From
  <2>2. \A s, t : Covered(s, t, c, K) <=> Covered(s, t, e, K)
    BY <1>3 DEF Covered
  <2> QED BY <1>9, <2>1, <2>2 DEF Clustered
<1> QED BY <1>2, <1>9, <1>10

\* what is left of the sequence of exact merges
LeftOf(U, e) ==
  /\ \A u \in U : \E p \in 1..Len(e) : u = e[p]
  /\ \A p \in 1..Len(e) : e[p] \in U \/ \E u \in U : Similar(e[p], u)
  /\ Len(e) <= MaxCandidates /\ Clusters(e).rest = <<>> =>
       \A i, j \in U : i # j => ~(Similar(i, j) /\ Similar(j, i))

\* the elements of a sequence
LEMMA Members ==
  ASSUME NEW M, NEW s \in Seq(M)
  PROVE  /\ \A x : x \in ToSet(s) <=> \E n \in 1..Len(s) : s[n] = x
         /\ DOMAIN s = 1..Len(s) /\ Len(s) \in Nat
         /\ ToSet(s) \subseteq M
BY DEF ToSet

\* candidates, those put aside and those beyond the budget make the result
LEMMA DeduplicateLeaves ==
  ASSUME NEW S, NEW M, Exact(S) \in Seq(M)
  PROVE  LeftOf(Deduplicate(S), Exact(S))
<1> DEFINE e == Exact(S)
           K == Min({MaxCandidates, Len(e)})
           a == Clusters(e)
           tail == SubSeq(e, MaxCandidates + 1, Len(e))
           U == ToSet(a.kept) \cup ToSet(a.rest) \cup ToSet(tail)
<1>u. Deduplicate(S) = U
  BY DEF Deduplicate
<1> HIDE DEF e
<1>0. e \in Seq(M)
  BY DEF e
<1>1. /\ K \in 0..Len(e) /\ (Len(e) <= MaxCandidates => K = Len(e))
      /\ (Len(e) > MaxCandidates => K = MaxCandidates)
      /\ a \in Clustering(M) /\ Clustered(a, e, K)
  <2> HIDE DEF K
  <2> QED BY <1>0, ClustersOf DEF K
<1> HIDE DEF K, a
<1>2. a.kept \in Seq(M) /\ a.rest \in Seq(M)
  BY <1>1 DEF Clustering
<1>3. MaxCandidates \in Nat /\ Len(e) \in Nat
  BY <1>0, SelectionAssumption
<1>4. /\ tail \in Seq(M)
      /\ Len(tail) = (IF MaxCandidates + 1 <= Len(e) THEN Len(e) - (MaxCandidates + 1) + 1 ELSE 0)
      /\ \A p \in 1..(Len(e) - (MaxCandidates + 1) + 1) : tail[p] = e[(MaxCandidates + 1) + p - 1]
  <2>1. \A p \in (MaxCandidates + 1)..Len(e) : e[p] \in M
    BY <1>0, <1>3
  <2> QED BY <1>3, <2>1, SubSeqProperties
<1> HIDE DEF tail
<1>5. /\ \A x : x \in ToSet(a.kept) <=> \E n \in 1..Len(a.kept) : a.kept[n] = x
      /\ \A x : x \in ToSet(a.rest) <=> \E n \in 1..Len(a.rest) : a.rest[n] = x
      /\ \A x : x \in ToSet(tail) <=> \E n \in 1..Len(tail) : tail[n] = x
  BY <1>2, <1>4, Members
<1>6. From(a.kept, e, K) /\ From(a.rest, e, K) /\ Apart(a.kept) /\ Covered(a.kept, a.rest, e, K)
  BY <1>1 DEF Clustered
<1>7. \A n \in 1..Len(tail) : n + MaxCandidates \in 1..Len(e) /\ tail[n] = e[n + MaxCandidates]
  BY <1>3, <1>4
<1>8. ASSUME NEW p \in 1..Len(e) PROVE p \in 1..K \/ \E n \in 1..Len(tail) : tail[n] = e[p]
  <2>1. CASE p > MaxCandidates
    <3>1. p - MaxCandidates \in 1..Len(tail) /\ (p - MaxCandidates) + MaxCandidates = p
      BY <1>3, <1>4, <2>1
    <3> QED BY <1>7, <3>1
  <2>2. CASE ~(p > MaxCandidates)
    <3>1. p \in 1..K
      BY <1>1, <1>3, <2>2
    <3> QED BY <3>1
  <2> QED BY <2>1, <2>2
<1>9. ASSUME NEW u \in U PROVE \E p \in 1..Len(e) : u = e[p]
  <2>1. \A p \in 1..K : p \in 1..Len(e)
    BY <1>1, <1>3
  <2>2. CASE u \in ToSet(a.kept)
    BY <1>5, <1>6, <2>1, <2>2 DEF From
  <2>3. CASE u \in ToSet(a.rest)
    BY <1>5, <1>6, <2>1, <2>3 DEF From
  <2>4. CASE u \in ToSet(tail)
    BY <1>5, <1>7, <2>4
  <2> QED BY <2>2, <2>3, <2>4
<1>10. ASSUME NEW p \in 1..Len(e) PROVE e[p] \in U \/ \E u \in U : Similar(e[p], u)
  <2>1. CASE p \in 1..K
    <3>1. \/ \E k \in 1..Len(a.kept) : a.kept[k] = e[p] \/ Similar(e[p], a.kept[k])
          \/ \E k \in 1..Len(a.rest) : a.rest[k] = e[p]
      BY <1>6, <2>1 DEF Covered
    <3>2. \A k \in 1..Len(a.kept) : a.kept[k] \in U
      BY <1>5
    <3>3. \A k \in 1..Len(a.rest) : a.rest[k] \in U
      BY <1>5
    <3> QED BY <3>1, <3>2, <3>3
  <2>2. CASE \E n \in 1..Len(tail) : tail[n] = e[p]
    BY <1>5, <2>2
  <2> QED BY <1>8, <2>1, <2>2
<1>11. ASSUME Len(e) <= MaxCandidates, a.rest = <<>>, NEW i \in U, NEW j \in U, i # j
       PROVE  ~(Similar(i, j) /\ Similar(j, i))
  <2>1. Len(tail) = 0
    BY <1>3, <1>4, <1>11
  <2>2. U = ToSet(a.kept)
    BY <1>5, <1>11, <2>1
  <2>3. PICK x \in 1..Len(a.kept) : a.kept[x] = i
    BY <1>5, <2>2
  <2>4. PICK y \in 1..Len(a.kept) : a.kept[y] = j
    BY <1>5, <2>2
  <2>5. x < y \/ y < x
    BY <1>2, <1>11, <2>3, <2>4
  <2> QED BY <1>6, <2>3, <2>4, <2>5 DEF Apart
<1> HIDE DEF U
<1>12. LeftOf(U, e)
  BY <1>9, <1>10, <1>11 DEF LeftOf, a
<1> QED BY <1>u, <1>12 DEF e

\* likeness is of titles
LEMMA SimilarTitles ==
  ASSUME NEW i, NEW j, NEW k, i.title = k.title, i.tokens = k.tokens
  PROVE  (Similar(i, j) <=> Similar(k, j)) /\ (Similar(j, i) <=> Similar(j, k))
BY DEF Similar

\* a text is similar to what precedes its publisher
LEMMA SimilarNested ==
  ASSUME NEW i, NEW j, IsFiniteSet(i.tokens), IsFiniteSet(j.tokens),
         i.tokens # {}, j.tokens # {},
         i.tokens \subseteq j.tokens \/ j.tokens \subseteq i.tokens
  PROVE  Similar(i, j)
<1> DEFINE a == Cardinality(i.tokens)
           b == Cardinality(j.tokens)
           common == Cardinality(i.tokens \cap j.tokens)
<1>1. a \in Nat /\ b \in Nat /\ a # 0 /\ b # 0
  BY FS_CardinalityType, FS_EmptySet
<1>2. common = Min({a, b})
  <2>1. CASE i.tokens \subseteq j.tokens
    <3>1. i.tokens \cap j.tokens = i.tokens
      BY <2>1
    <3>2. a <= b
      BY <2>1, FS_Subset
    <3>3. common = a
      BY <3>1
    <3> HIDE DEF a, b, common
    <3> QED BY <1>1, <3>2, <3>3, TwoLeast
  <2>2. CASE j.tokens \subseteq i.tokens
    <3>1. i.tokens \cap j.tokens = j.tokens
      BY <2>2
    <3>2. b <= a
      BY <2>2, FS_Subset
    <3>3. common = b
      BY <3>1
    <3> HIDE DEF a, b, common
    <3> QED BY <1>1, <3>2, <3>3, TwoLeast
  <2> QED BY <2>1, <2>2
<1>3. Similar(i, j) <=> /\ common > 0
                        /\ 10 * common >= 6 * Max({1, Min({a, b})}) \/ <<i.title, j.title>> \in Alike
  BY DEF Similar
<1> HIDE DEF a, b, common
<1>4. common \in Nat /\ common # 0
  BY <1>1, <1>2, TwoLeast
<1>5. Max({1, common}) = IF 1 >= common THEN 1 ELSE common
  BY <1>4, TwoLeast
<1> QED BY <1>2, <1>3, <1>4, <1>5

\* what the stages that follow Rank know
Worth == Distinct(items) /\ Identified(items) /\ \A i \in items : i.topic # 0 /\ i.score >= FallbackScore

\* a url, a title and a likeness: the chain by which an item is covered
LEMMA CopiesDropped ==
  ASSUME Worth, unique = Deduplicate(items)
  PROVE  CopiesAndOnlyCopies
<1> DEFINE e == Exact(items)
<1>1. ExactOf(e, items)
  BY ExactMerges DEF Worth
<1>2. LeftOf(unique, e)
  BY <1>1, DeduplicateLeaves DEF ExactOf
<1> HIDE DEF e
<1>3. ASSUME NEW i \in items PROVE \E j \in unique : Linked(i, j)
  <2>1. PICK b \in items, c \in items, n \in 1..Len(e) :
          b.url = i.url /\ b.title = c.title /\ Like(e[n], c)
    BY <1>1 DEF ExactOf
  <2>2. e[n].title = b.title /\ e[n].title = c.title /\ e[n].tokens = c.tokens
    BY <2>1 DEF Like
  <2>3. CASE e[n] \in unique
    <3>1. Copies(i, b) /\ Copies(b, e[n])
      BY <2>1, <2>2 DEF Copies
    <3>2. Linked(i, e[n])
      BY <3>1 DEF Linked
    <3> QED BY <2>3, <3>2
  <2>4. CASE \E u \in unique : Similar(e[n], u)
    <3>1. PICK u \in unique : Similar(e[n], u)
      BY <2>4
    <3>2. Similar(c, u)
      BY <2>2, <3>1, SimilarTitles
    <3>3. Copies(i, b) /\ Copies(b, c) /\ Copies(c, u)
      BY <2>1, <3>2 DEF Copies
    <3>4. Linked(i, u)
      BY <3>3 DEF Linked
    <3> QED BY <3>4
  <2> QED BY <1>2, <2>3, <2>4 DEF LeftOf
<1>4. NothingVanishes
  BY <1>3 DEF NothingVanishes
<1>5. ASSUME NEW i \in unique, NEW j \in unique, i # j
      PROVE  i.url # j.url /\ i.title # j.title
  <2>1. PICK p \in 1..Len(e) : i = e[p]
    BY <1>2 DEF LeftOf
  <2>2. PICK q \in 1..Len(e) : j = e[q]
    BY <1>2 DEF LeftOf
  <2>3. p # q
    BY <1>5, <2>1, <2>2
  <2> QED BY <1>1, <2>1, <2>2, <2>3 DEF ExactOf
<1>6. NoCopies
  BY <1>2, <1>5 DEF NoCopies, DedupComplete, LeftOf, e
<1> QED BY <1>4, <1>6 DEF CopiesAndOnlyCopies

-----------------------------------------------------------------------------
(***************************************************************************)
(* Selection: both passes over the candidates.                             *)
(***************************************************************************)
\* the elements are finitely many, one each if none is repeated
LEMMA FiniteRange ==
  ASSUME NEW M, NEW s \in Seq(M)
  PROVE  /\ IsFiniteSet(ToSet(s)) /\ Cardinality(ToSet(s)) \in Nat
         /\ (\A x, y \in 1..Len(s) : s[x] = s[y] => x = y) => Cardinality(ToSet(s)) = Len(s)
<1>1. s \in Surjection(1..Len(s), ToSet(s)) /\ Len(s) \in Nat
  BY DEF Surjection, ToSet
<1>2. IsFiniteSet(1..Len(s)) /\ Cardinality(1..Len(s)) = Len(s)
  <2>1. ASSUME NEW m \in Int, m = 1
        PROVE  IsFiniteSet(m..Len(s)) /\ Cardinality(m..Len(s)) = IF m > Len(s) THEN 0 ELSE Len(s) - m + 1
    BY <1>1, FS_Interval
  <2>2. Cardinality(1..Len(s)) = (IF 1 > Len(s) THEN 0 ELSE Len(s) - 1 + 1) /\ IsFiniteSet(1..Len(s))
    BY <2>1
  <2> QED BY <1>1, <2>2
<1>3. IsFiniteSet(ToSet(s)) /\ (Cardinality(ToSet(s)) = Cardinality(1..Len(s)) <=> s \in Injection(1..Len(s), ToSet(s)))
  BY <1>1, <1>2, FS_Surjection
<1>4. ASSUME \A x, y \in 1..Len(s) : s[x] = s[y] => x = y PROVE s \in Injection(1..Len(s), ToSet(s))
  <2>1. s \in [1..Len(s) -> ToSet(s)]
    BY <1>1 DEF Surjection
  <2> QED BY <1>4, <2>1, Fun_IsInj
<1> QED BY <1>2, <1>3, <1>4, FS_CardinalityType

\* fewer stories leave more room
LEMMA DiverseFewer ==
  ASSUME NEW S, NEW T, IsFiniteSet(T), S \subseteq T, NEW i, Diverse(T, i)
  PROVE  Diverse(S, i)
<1>1. MaxPerTopic \in Nat /\ MaxPerDomain \in Nat
  BY SelectionAssumption
<1>2. ASSUME NEW U, NEW V, U \subseteq V, V \subseteq T, NEW N \in Nat, Cardinality(V) < N
      PROVE  Cardinality(U) < N
  <2>1. IsFiniteSet(V) /\ IsFiniteSet(U) /\ Cardinality(U) <= Cardinality(V)
    BY <1>2, FS_Subset
  <2>2. Cardinality(U) \in Nat /\ Cardinality(V) \in Nat
    BY <2>1, FS_CardinalityType
  <2> QED BY <1>2, <2>1, <2>2
<1>3. Cardinality({j \in S : j.topic = i.topic}) < MaxPerTopic
  <2> DEFINE U == {j \in S : j.topic = i.topic}
             V == {j \in T : j.topic = i.topic}
  <2>1. U \subseteq V /\ V \subseteq T
    OBVIOUS
  <2>2. Cardinality(V) < MaxPerTopic
    BY DEF Diverse
  <2> HIDE DEF U, V
  <2>3. Cardinality(U) < MaxPerTopic
    BY <1>1, <1>2, <2>1, <2>2
  <2> QED BY <2>3 DEF U
<1>4. Cardinality({j \in S : j.host = i.host}) < MaxPerDomain
  <2> DEFINE U == {j \in S : j.host = i.host}
             V == {j \in T : j.host = i.host}
  <2>1. U \subseteq V /\ V \subseteq T
    OBVIOUS
  <2>2. Cardinality(V) < MaxPerDomain
    BY DEF Diverse
  <2> HIDE DEF U, V
  <2>3. Cardinality(U) < MaxPerDomain
    BY <1>1, <1>2, <2>1, <2>2
  <2> QED BY <2>3 DEF U
<1> QED BY <1>3, <1>4 DEF Diverse

\* the candidates: no title twice, none below the fallback
Choosable(C, c) ==
  /\ c \in Seq(C) /\ C \subseteq Ranked
  /\ \A i, j \in C : i.title = j.title => i = j
  /\ \A i \in C : i.score >= FallbackScore
  /\ \A x, y \in 1..Len(c) : c[x] = c[y] => x = y

Titled(a) == \A x, y \in 1..Len(a) : a[x].title = a[y].title => x = y

\* only the first pass repeats a key
Keyed(a) ==
  \A x, y \in 1..Len(a) : x < y /\ a[x].key = a[y].key => a[y].score >= MinimumScore

\* the stories of a that are candidates before the p-th
Before(a, c, p) == {j \in ToSet(a) : \E q \in 1..(p - 1) : j = c[q]}

\* the p-th candidate had no place among the better ones of a
Outdone(a, c, p) ==
  c[p].score >= MinimumScore =>
    Cardinality(Before(a, c, p)) >= DailyMax \/ ~Diverse(Before(a, c, p), c[p])
Justified(a, c, n) == \A p \in 1..n : c[p] \in ToSet(a) \/ Outdone(a, c, p)
Filled(a, c, n) == \A p \in 1..n : Len(a) >= DailyMin \/ \E j \in ToSet(a) : j.key = c[p].key

\* choosing more does not give it one
LEMMA OutdoneStays ==
  ASSUME NEW M, NEW a \in Seq(M), NEW b \in Seq(M), ToSet(a) \subseteq ToSet(b),
         NEW c, NEW p, Outdone(a, c, p)
  PROVE  Outdone(b, c, p)
<1>1. Before(a, c, p) \subseteq Before(b, c, p) /\ Before(b, c, p) \subseteq ToSet(b)
  BY DEF Before
<1>2. IsFiniteSet(Before(b, c, p))
  BY <1>1, FiniteRange, FS_Subset
<1>3. /\ Cardinality(Before(a, c, p)) <= Cardinality(Before(b, c, p))
      /\ Cardinality(Before(a, c, p)) \in Nat /\ Cardinality(Before(b, c, p)) \in Nat
  BY <1>1, <1>2, FS_Subset, FS_CardinalityType
<1>4. Diverse(Before(b, c, p), c[p]) => Diverse(Before(a, c, p), c[p])
  BY <1>1, <1>2, DiverseFewer
<1>5. DailyMax \in Nat
  BY SelectionAssumption
<1> QED BY <1>3, <1>4, <1>5 DEF Outdone

\* a sequence with one more
LEMMA Appended ==
  ASSUME NEW M, NEW a \in Seq(M), NEW i \in M
  PROVE  /\ Append(a, i) \in Seq(M) /\ Len(Append(a, i)) = Len(a) + 1 /\ Len(a) \in Nat
         /\ Append(a, i)[Len(a) + 1] = i
         /\ \A k \in 1..Len(a) : Append(a, i)[k] = a[k]
         /\ ToSet(Append(a, i)) = ToSet(a) \cup {i}
<1>1. /\ Append(a, i) \in Seq(M) /\ Len(Append(a, i)) = Len(a) + 1 /\ Len(a) \in Nat
      /\ Append(a, i)[Len(a) + 1] = i
      /\ \A k \in 1..Len(a) : Append(a, i)[k] = a[k]
  OBVIOUS
<1> DEFINE b == Append(a, i)
<1>2. /\ \A x : x \in ToSet(b) <=> \E n \in 1..Len(b) : b[n] = x
      /\ \A x : x \in ToSet(a) <=> \E n \in 1..Len(a) : a[n] = x
  <2> HIDE DEF b
  <2> QED BY <1>1, Members DEF b
<1>3. /\ b \in Seq(M) /\ Len(b) = Len(a) + 1 /\ Len(a) \in Nat
      /\ b[Len(a) + 1] = i
      /\ \A k \in 1..Len(a) : b[k] = a[k]
  BY <1>1
<1> HIDE DEF b
<1>4. \A n \in 1..Len(b) : n = Len(a) + 1 \/ n \in 1..Len(a)
  BY <1>3
<1>5. Len(a) + 1 \in 1..Len(b) /\ \A n \in 1..Len(a) : n \in 1..Len(b)
  BY <1>3
<1>6. \A x : x \in ToSet(b) <=> x \in ToSet(a) \/ x = i
  <2> TAKE x
  <2>1. x \in ToSet(b) => x \in ToSet(a) \/ x = i
    BY <1>2, <1>3, <1>4
  <2>2. x \in ToSet(a) => x \in ToSet(b)
    BY <1>2, <1>3, <1>5
  <2>3. i \in ToSet(b)
    BY <1>2, <1>3, <1>5
  <2> QED BY <2>1, <2>2, <2>3
<1> QED BY <1>1, <1>6 DEF b

\* a story appended that has another title than those chosen
LEMMA TitledNext ==
  ASSUME NEW M, NEW a \in Seq(M), NEW i \in M, Titled(a),
         \A k \in 1..Len(a) : a[k].title # i.title
  PROVE  Titled(Append(a, i))
<1> DEFINE b == Append(a, i)
           L == Len(a)
<1>1. Len(b) = L + 1 /\ L \in Nat /\ b[L + 1] = i /\ \A k \in 1..L : b[k] = a[k]
  BY Appended
<1> HIDE DEF b
<1>2. ASSUME NEW x \in 1..Len(b), NEW y \in 1..Len(b), b[x].title = b[y].title PROVE x = y
  <2>1. /\ x = L + 1 \/ x \in 1..L
        /\ y = L + 1 \/ y \in 1..L
    BY <1>1
  <2>2. CASE x = L + 1 /\ y = L + 1
    BY <2>2
  <2>3. CASE x = L + 1 /\ y \in 1..L
    BY <1>1, <1>2, <2>3
  <2>4. CASE x \in 1..L /\ y = L + 1
    BY <1>1, <1>2, <2>4
  <2>5. CASE x \in 1..L /\ y \in 1..L
    BY <1>1, <1>2, <2>5 DEF Titled
  <2> QED BY <2>1, <2>2, <2>3, <2>4, <2>5
<1> QED BY <1>2 DEF Titled, b

\* a story appended that has another key than those chosen, or the quality
\* floor
LEMMA KeyedNext ==
  ASSUME NEW M, NEW a \in Seq(M), NEW i \in M, Keyed(a),
         i.score >= MinimumScore \/ \A k \in 1..Len(a) : a[k].key # i.key
  PROVE  Keyed(Append(a, i))
<1> DEFINE b == Append(a, i)
           L == Len(a)
<1>1. Len(b) = L + 1 /\ L \in Nat /\ b[L + 1] = i /\ \A k \in 1..L : b[k] = a[k]
  BY Appended
<1> HIDE DEF b
<1>2. ASSUME NEW x \in 1..Len(b), NEW y \in 1..Len(b), x < y, b[x].key = b[y].key
      PROVE  b[y].score >= MinimumScore
  <2>1. x \in 1..L /\ (y = L + 1 \/ y \in 1..L)
    BY <1>1, <1>2
  <2>2. CASE y = L + 1
    <3>1. a[x].key = i.key
      BY <1>1, <1>2, <2>1, <2>2
    <3> QED BY <1>1, <2>1, <2>2, <3>1
  <2>3. CASE y \in 1..L
    BY <1>1, <1>2, <2>1, <2>3 DEF Keyed
  <2> QED BY <2>1, <2>2, <2>3
<1> QED BY <1>2 DEF Keyed, b

\* after n candidates of the first pass
First(a, c, n) == From(a, c, n) /\ Titled(a) /\ Keyed(a) /\ Justified(a, c, n)

LEMMA DiverseKeeps ==
  ASSUME NEW C, NEW c, Choosable(C, c), NEW n \in 1..Len(c), NEW a \in Seq(C), First(a, c, n - 1)
  PROVE  First(PickDiverse(a, c[n]), c, n)
<1> DEFINE i == c[n]
           b == PickDiverse(a, i)
<1>1. c \in Seq(C) /\ Len(c) \in Nat /\ i \in C /\ n \in Nat \ {0} /\ \A p \in 1..Len(c) : c[p] \in C
  BY DEF Choosable
<1>2. From(a, c, n - 1) /\ Titled(a) /\ Keyed(a) /\ Justified(a, c, n - 1)
  BY DEF First
<1>3. From(a, c, n) /\ From(Append(a, i), c, n)
  BY <1>1, <1>2, FromNext
<1>4. \A p \in 1..n : p = n \/ p \in 1..(n - 1)
  BY <1>1
<1>5. CASE Len(a) < DailyMax /\ i.score >= MinimumScore /\ Diverse(ToSet(a), i)
  <2>1. b = Append(a, i)
    BY <1>5 DEF PickDiverse
  <2>2. ToSet(b) = ToSet(a) \cup {i} /\ b \in Seq(C)
    BY <1>1, <2>1, Appended
  <2>3. \A k \in 1..Len(a) : a[k].title # i.title
    <3> TAKE k \in 1..Len(a)
    <3>1. PICK p \in 1..(n - 1) : a[k] = c[p]
      BY <1>2 DEF From
    <3>2. p \in 1..Len(c) /\ p # n
      BY <1>1, <3>1
    <3>3. a[k] # i
      BY <3>1, <3>2 DEF Choosable
    <3> QED BY <1>1, <3>3 DEF Choosable
  <2>4. Titled(b) /\ Keyed(b)
    BY <1>1, <1>2, <1>5, <2>1, <2>3, TitledNext, KeyedNext
  <2> HIDE DEF b
  <2>5. ASSUME NEW p \in 1..n PROVE c[p] \in ToSet(b) \/ Outdone(b, c, p)
    <3>1. CASE p = n
      BY <2>2, <3>1
    <3>2. CASE p \in 1..(n - 1)
      <4>1. c[p] \in ToSet(a) \/ Outdone(a, c, p)
        BY <1>2, <3>2 DEF Justified
      <4>2. Outdone(a, c, p) => Outdone(b, c, p)
        BY <2>2, OutdoneStays
      <4> QED BY <2>2, <4>1, <4>2
    <3> QED BY <1>4, <3>1, <3>2
  <2> HIDE DEF i
  <2> QED BY <1>3, <2>1, <2>4, <2>5 DEF First, Justified, b, i
<1>6. CASE ~(Len(a) < DailyMax /\ i.score >= MinimumScore /\ Diverse(ToSet(a), i))
  <2>1. b = a
    BY <1>6 DEF PickDiverse
  <2>2. Before(a, c, n) = ToSet(a)
    <3>1. \A j \in ToSet(a) : \E q \in 1..(n - 1) : j = c[q]
      BY <1>2, Members DEF From
    <3> QED BY <3>1 DEF Before
  <2>3. Cardinality(ToSet(a)) = Len(a)
    <3>1. \A x, y \in 1..Len(a) : a[x] = a[y] => x = y
      BY <1>2 DEF Titled
    <3> QED BY <3>1, FiniteRange
  <2>4. Outdone(a, c, n)
    <3>1. DailyMax \in Int /\ Len(a) \in Int /\ MinimumScore \in Int /\ i.score \in Int
      BY <1>1, SelectionAssumption, RankedFields DEF Choosable
    <3> QED BY <1>6, <2>2, <2>3, <3>1 DEF Outdone
  <2>5. Justified(a, c, n)
    BY <1>2, <1>4, <2>4 DEF Justified
  <2> HIDE DEF i
  <2> QED BY <1>2, <1>3, <2>1, <2>5 DEF First, b, i
<1> QED BY <1>5, <1>6

\* after n candidates of the second
Second(a, c, n) ==
  /\ From(a, c, Len(c)) /\ Titled(a) /\ Keyed(a)
  /\ Justified(a, c, Len(c)) /\ Filled(a, c, n)

LEMMA FallbackKeeps ==
  ASSUME NEW C, NEW c, Choosable(C, c), NEW n \in 1..Len(c), NEW a \in Seq(C), Second(a, c, n - 1)
  PROVE  Second(PickFallback(a, c[n]), c, n)
<1> DEFINE i == c[n]
           b == PickFallback(a, i)
           N == Len(c)
<1>1. /\ c \in Seq(C) /\ N \in Nat /\ i \in C /\ n \in Nat \ {0} /\ N \in Nat \ {0}
      /\ \A p \in 1..N : c[p] \in C
  BY DEF Choosable
<1>2. From(a, c, N) /\ Titled(a) /\ Keyed(a) /\ Justified(a, c, N) /\ Filled(a, c, n - 1)
  BY DEF Second
<1>3. DailyMin \in Int /\ Len(a) \in Nat
  BY SelectionAssumption
<1>4. \A p \in 1..n : p = n \/ p \in 1..(n - 1)
  BY <1>1
<1>5. CASE Len(a) < DailyMin /\ \A k \in 1..Len(a) : a[k].key # i.key
  <2>1. b = Append(a, i)
    <3>1. i.score >= FallbackScore
      BY <1>1 DEF Choosable
    <3>2. DOMAIN a = 1..Len(a)
      OBVIOUS
    <3> HIDE DEF i
    <3> QED BY <1>5, <3>1, <3>2 DEF PickFallback
  <2>2. ToSet(b) = ToSet(a) \cup {i} /\ b \in Seq(C) /\ Len(b) = Len(a) + 1 /\ b[Len(a) + 1] = i
        /\ \A k \in 1..Len(a) : b[k] = a[k]
    BY <1>1, <2>1, Appended
  <2>3. Titled(b) /\ Keyed(b)
    <3>1. \A k \in 1..Len(a) : a[k] \in C /\ a[k] # i
      BY <1>5
    <3>2. \A k \in 1..Len(a) : a[k].title # i.title
      BY <1>1, <3>1 DEF Choosable
    <3> QED BY <1>1, <1>2, <1>5, <2>1, <3>2, TitledNext, KeyedNext
  <2> HIDE DEF b
  <2>4. From(b, c, N)
    <3>1. ASSUME NEW k \in 1..Len(b) PROVE \E p \in 1..N : b[k] = c[p]
      <4>1. CASE k = Len(a) + 1
        BY <2>2, <4>1
      <4>2. CASE k # Len(a) + 1
        <5>1. k \in 1..Len(a)
          BY <1>3, <2>2, <4>2
        <5> QED BY <1>2, <2>2, <5>1 DEF From
      <4> QED BY <4>1, <4>2
    <3> QED BY <3>1 DEF From
  <2>5. ASSUME NEW p \in 1..N PROVE c[p] \in ToSet(b) \/ Outdone(b, c, p)
    <3>1. c[p] \in ToSet(a) \/ Outdone(a, c, p)
      BY <1>2 DEF Justified
    <3>2. Outdone(a, c, p) => Outdone(b, c, p)
      BY <2>2, OutdoneStays
    <3> QED BY <2>2, <3>1, <3>2
  <2>6. ASSUME NEW p \in 1..n PROVE Len(b) >= DailyMin \/ \E j \in ToSet(b) : j.key = c[p].key
    <3>1. CASE p = n
      BY <2>2, <3>1
    <3>2. CASE p \in 1..(n - 1)
      BY <1>2, <1>3, <2>2, <3>2 DEF Filled
    <3> QED BY <1>4, <3>1, <3>2
  <2> HIDE DEF i
  <2> QED BY <2>3, <2>4, <2>5, <2>6 DEF Second, Justified, Filled, b, i
<1>6. CASE ~(Len(a) < DailyMin /\ \A k \in 1..Len(a) : a[k].key # i.key)
  <2>1. b = a
    BY <1>6 DEF PickFallback
  <2>2. Len(a) >= DailyMin \/ \E j \in ToSet(a) : j.key = i.key
    <3>1. CASE ~(Len(a) < DailyMin)
      BY <1>3, <3>1
    <3>2. CASE \E k \in 1..Len(a) : a[k].key = i.key
      BY <3>2, Members
    <3> QED BY <1>6, <3>1, <3>2
  <2>3. Filled(a, c, n)
    BY <1>2, <1>4, <2>2 DEF Filled
  <2> HIDE DEF i
  <2> QED BY <1>2, <2>1, <2>3 DEF Second, b, i
<1> QED BY <1>5, <1>6

\* what deduplication leaves has no title and no id twice, and no key but for
\* headlines without tokens or beyond the budget
LEMMA Uniques ==
  ASSUME Worth, unique = Deduplicate(items)
  PROVE  /\ IsFiniteSet(unique) /\ unique \subseteq Ranked
         /\ \A i, j \in unique : i.title = j.title \/ i.id = j.id => i = j
         /\ \A i \in unique : i.score >= FallbackScore
         /\ DedupComplete =>
              \A i, j \in unique : i.key = j.key /\ i # j => {} \in {i.tokens, j.tokens}
<1> DEFINE e == Exact(items)
<1>1. ExactOf(e, items)
  BY ExactMerges DEF Worth
<1>2. LeftOf(unique, e) /\ e \in Seq(Ranked)
  BY <1>1, DeduplicateLeaves DEF ExactOf
<1> HIDE DEF e
<1>3. unique \subseteq ToSet(e)
  BY <1>2, Members DEF LeftOf
<1>4. IsFiniteSet(unique) /\ unique \subseteq Ranked
  BY <1>2, <1>3, Members, FiniteRange, FS_Subset
<1>5. ASSUME NEW i \in unique, NEW j \in unique, i.title = j.title \/ i.id = j.id PROVE i = j
  <2>1. PICK p \in 1..Len(e) : i = e[p]
    BY <1>2 DEF LeftOf
  <2>2. PICK q \in 1..Len(e) : j = e[q]
    BY <1>2 DEF LeftOf
  <2>3. p = q
    BY <1>1, <1>5, <2>1, <2>2 DEF ExactOf
  <2> QED BY <2>1, <2>2, <2>3
<1>6. ASSUME NEW i \in unique PROVE i.score >= FallbackScore
  <2>1. PICK p \in 1..Len(e) : i = e[p]
    BY <1>2 DEF LeftOf
  <2>2. PICK b \in items : Like(e[p], b)
    BY <1>1 DEF ExactOf
  <2> QED BY <2>1, <2>2 DEF Like, Worth
<1>7. ASSUME DedupComplete, NEW i \in unique, NEW j \in unique, i.key = j.key, i # j,
             i.tokens # {}, j.tokens # {}
      PROVE  FALSE
  <2>1. PICK p \in 1..Len(e), q \in 1..Len(e) : i = e[p] /\ j = e[q]
    BY <1>2 DEF LeftOf
  <2>2. PICK b \in items, d \in items : Like(i, b) /\ Like(j, d)
    BY <1>1, <2>1 DEF ExactOf
  <2>3. /\ IsFiniteSet(i.tokens) /\ IsFiniteSet(j.tokens)
        /\ i.tokens \subseteq j.tokens \/ j.tokens \subseteq i.tokens
    <3>1. Identified(items)
      BY DEF Worth
    <3>2. /\ i.tokens = b.tokens /\ i.key = b.key
          /\ j.tokens = d.tokens /\ j.key = d.key
      BY <2>2 DEF Like
    <3> QED BY <1>7, <3>1, <3>2 DEF Identified
  <2>4. Similar(i, j) /\ Similar(j, i)
    BY <1>7, <2>3, SimilarNested
  <2> QED BY <1>2, <1>7, <2>4 DEF LeftOf, DedupComplete, e
<1> QED BY <1>4, <1>5, <1>6, <1>7

\* the second pass starts where the first ended
LEMMA PicksRun ==
  ASSUME NEW C, NEW c, Choosable(C, c),
         NEW s, s = FoldLeft(PickFallback, FoldLeft(PickDiverse, <<>>, c), c)
  PROVE  s \in Seq(C) /\ Second(s, c, Len(c))
<1> DEFINE N == Len(c)
           t == FoldLeft(PickDiverse, <<>>, c)
<1>1. c \in Seq(C) /\ N \in Nat
  BY DEF Choosable
<1>2. PICK f \in [0..N -> Seq(C)] :
        /\ f[0] = <<>>
        /\ \A n \in 1..N : f[n] = PickDiverse(f[n - 1], c[n])
        /\ FoldLeft(PickDiverse, <<>>, c) = f[N]
  BY <1>1, DiverseRuns
<1> DEFINE Good == {n \in 0..N : First(f[n], c, n)}
<1>3. 0 \in Good
  <2>1. Len(<<>>) = 0 /\ 1..0 = {} /\ 0 \in 0..N
    BY <1>1
  <2>2. First(<<>>, c, 0)
    BY <2>1 DEF First, From, Titled, Keyed, Justified
  <2> QED BY <1>2, <2>1, <2>2
<1>4. ASSUME NEW n \in 0..(N - 1), n \in Good PROVE n + 1 \in Good
  <2>1. n + 1 \in 1..N /\ (n + 1) - 1 = n /\ n \in 0..N /\ n + 1 \in 0..N
    BY <1>1
  <2>2. f[n + 1] = PickDiverse(f[n], c[n + 1])
    BY <1>2, <2>1
  <2>3. f[n] \in Seq(C) /\ First(f[n], c, (n + 1) - 1)
    BY <1>4, <2>1
  <2> HIDE DEF N
  <2>4. First(PickDiverse(f[n], c[n + 1]), c, n + 1)
    <3>1. n + 1 \in 1..Len(c)
      BY <2>1 DEF N
    <3> QED BY <2>3, <3>1, DiverseKeeps
  <2> QED BY <2>1, <2>2, <2>4
<1>5. N \in Good
  <2> HIDE DEF Good, N
  <2>1. 0..N \subseteq Good
    BY <1>1, <1>3, <1>4, CountingTo
  <2> QED BY <1>1, <2>1
<1>6. t \in Seq(C) /\ First(t, c, N)
  BY <1>1, <1>2, <1>5
<1> HIDE DEF t, Good
<1>7. PICK g \in [0..N -> Seq(C)] :
        /\ g[0] = t
        /\ \A n \in 1..N : g[n] = PickFallback(g[n - 1], c[n])
        /\ FoldLeft(PickFallback, t, c) = g[N]
  BY <1>1, <1>6, FallbackRuns
<1> DEFINE Fine == {n \in 0..N : Second(g[n], c, n)}
<1>8. 0 \in Fine
  <2>1. 1..0 = {} /\ 0 \in 0..N
    BY <1>1
  <2>2. Second(t, c, 0)
    BY <1>6, <2>1 DEF First, Second, Filled
  <2> QED BY <1>7, <2>1, <2>2
<1>9. ASSUME NEW n \in 0..(N - 1), n \in Fine PROVE n + 1 \in Fine
  <2>1. n + 1 \in 1..N /\ (n + 1) - 1 = n /\ n \in 0..N /\ n + 1 \in 0..N
    BY <1>1
  <2>2. g[n + 1] = PickFallback(g[n], c[n + 1])
    BY <1>7, <2>1
  <2>3. g[n] \in Seq(C) /\ Second(g[n], c, (n + 1) - 1)
    BY <1>9, <2>1
  <2> HIDE DEF N
  <2>4. Second(PickFallback(g[n], c[n + 1]), c, n + 1)
    <3>1. n + 1 \in 1..Len(c)
      BY <2>1 DEF N
    <3> QED BY <2>3, <3>1, FallbackKeeps
  <2> QED BY <2>1, <2>2, <2>4
<1>10. N \in Fine
  <2> HIDE DEF Fine, N
  <2>1. 0..N \subseteq Fine
    BY <1>1, <1>8, <1>9, CountingTo
  <2> QED BY <1>1, <2>1
<1> QED BY <1>1, <1>7, <1>10 DEF t

\* the candidates, best first
LEMMA CandidatesSorted ==
  ASSUME Worth, unique = Deduplicate(items), NEW urls, NEW keys,
         NEW C, C = {i \in unique : /\ i.topic # 0 /\ FreshnessReason(i) = ""
                                    /\ i.url \notin urls /\ i.key \notin keys},
         NEW c, c = Candidates(unique, urls, keys)
  PROVE  /\ Choosable(C, c)
         /\ \A p, q \in 1..Len(c) : q < p => Less(SelectionKey(c[q]), SelectionKey(c[p]))
<1> DEFINE key == [i \in C |-> SelectionKey(i)]
           R == KeyOrder(key, C)
<1>1. /\ IsFiniteSet(unique) /\ unique \subseteq Ranked
      /\ \A i, j \in unique : i.title = j.title \/ i.id = j.id => i = j
      /\ \A i \in unique : i.score >= FallbackScore
  BY Uniques
<1>2. C \subseteq unique /\ IsFiniteSet(C) /\ C \subseteq Ranked
  BY <1>1, FS_Subset
<1>3. ASSUME NEW i \in C, NEW j \in C, SelectionKey(i) = SelectionKey(j) PROVE i = j
  <2>1. SelectionKey(i)[4] = i.id /\ SelectionKey(j)[4] = j.id
    BY DEF SelectionKey
  <2> QED BY <1>1, <1>2, <1>3, <2>1
<1>4. c = SortBy(C, SelectionKey)
  BY DEF Candidates
<1>5. SortedBy(c, R, C)
  <2>1. \A i, j \in C : SelectionKey(i) = SelectionKey(j) => i = j
    BY <1>3
  <2>2. SortedBy(SortBy(C, SelectionKey), R, C)
    BY <1>2, <2>1, SelectionSorted
  <2> QED BY <1>4, <2>2
<1> HIDE DEF R
<1>6. c \in Seq(C) /\ \A n \in 1..Len(c) : c[n] \in C
  <2>1. c \in Seq(C)
    BY <1>5 DEF SortedBy
  <2> QED BY <2>1, ElementOfSeq
<1>7. Choosable(C, c)
  BY <1>1, <1>2, <1>5, <1>6 DEF Choosable, SortedBy
<1>8. ASSUME NEW p \in 1..Len(c), NEW q \in 1..Len(c), q < p
      PROVE  Less(SelectionKey(c[q]), SelectionKey(c[p]))
  <2>1. <<c[q], c[p]>> \in R
    BY <1>5, <1>8 DEF SortedBy
  <2> QED BY <1>6, <2>1 DEF R, KeyOrder
<1> QED BY <1>7, <1>8

\* a candidate left out is outdone by chosen ones that come before it
LEMMA SelectJustifies ==
  ASSUME Worth, unique = Deduplicate(items), selected = SelectDigest(unique, sent.urls, sent.keys)
  PROVE  SelectionJustified /\ selected \in Seq(unique) /\ unique \subseteq Ranked
         /\ \A m, n \in 1..Len(selected) : selected[m] = selected[n] => m = n
<1> DEFINE C == {i \in unique : /\ i.topic # 0 /\ FreshnessReason(i) = ""
                                /\ i.url \notin sent.urls /\ i.key \notin sent.keys}
           c == Candidates(unique, sent.urls, sent.keys)
<1>1. /\ Choosable(C, c)
      /\ \A p, q \in 1..Len(c) : q < p => Less(SelectionKey(c[q]), SelectionKey(c[p]))
  <2> HIDE DEF C, c
  <2> QED BY CandidatesSorted DEF C, c
<1>2. selected = FoldLeft(PickFallback, FoldLeft(PickDiverse, <<>>, c), c)
  BY DEF SelectDigest
<1>3. C \subseteq unique
  OBVIOUS
<1>4. \A i \in C : /\ FreshnessReason(i) = ""
                   /\ i.url \notin sent.urls /\ i.key \notin sent.keys
  OBVIOUS
<1> HIDE DEF C, c
<1>5. selected \in Seq(C) /\ Second(selected, c, Len(c))
  BY <1>1, <1>2, PicksRun
<1>6. /\ c \in Seq(C) /\ \A i \in C : i.score >= FallbackScore
  BY <1>1 DEF Choosable
<1>7. DOMAIN selected = 1..Len(selected) /\ \A n \in 1..Len(selected) : selected[n] \in C
  BY <1>5
<1>8. DigestIsFresh
  BY <1>4, <1>6, <1>7 DEF DigestIsFresh
<1>t. NoStoryTwice
  <2>1. ASSUME NEW m \in DOMAIN selected, NEW n \in DOMAIN selected, m < n
        PROVE  /\ selected[m].title # selected[n].title
               /\ selected[m].key = selected[n].key =>
                    /\ selected[n].score >= MinimumScore
                    /\ DedupComplete => {} \in {selected[m].tokens, selected[n].tokens}
    <3>1. selected[m] \in unique /\ selected[n] \in unique
      BY <1>3, <1>7
    <3>2. m \in 1..Len(selected) /\ n \in 1..Len(selected) /\ m # n
      BY <1>7, <2>1
    <3>3. selected[m].title # selected[n].title
      BY <1>5, <3>2 DEF Second, Titled
    <3>4. selected[m].key = selected[n].key => selected[n].score >= MinimumScore
      BY <1>5, <2>1, <3>2 DEF Second, Keyed
    <3> QED BY <3>1, <3>3, <3>4, Uniques
  <2> QED BY <2>1 DEF NoStoryTwice
<1>9. ASSUME NEW i \in ToSet(c) \ ToSet(selected)
      PROVE  /\ Len(selected) >= DailyMin \/ \E j \in ToSet(selected) : j.key = i.key
             /\ i.score >= MinimumScore =>
                  \/ Cardinality({j \in ToSet(selected) : Less(SelectionKey(j), SelectionKey(i))}) >= DailyMax
                  \/ ~Diverse({j \in ToSet(selected) : Less(SelectionKey(j), SelectionKey(i))}, i)
  <2>1. PICK p \in 1..Len(c) : c[p] = i
    BY <1>6, Members
  <2>2. /\ Len(selected) >= DailyMin \/ \E j \in ToSet(selected) : j.key = i.key
        /\ Outdone(selected, c, p)
    BY <1>5, <1>9, <2>1 DEF Second, Filled, Justified
  <2> DEFINE better == {j \in ToSet(selected) : Less(SelectionKey(j), SelectionKey(i))}
  <2>3. Before(selected, c, p) \subseteq better
    <3>1. ASSUME NEW j \in ToSet(selected), NEW q \in 1..(p - 1), j = c[q]
          PROVE  Less(SelectionKey(j), SelectionKey(i))
      <4>1. q \in 1..Len(c) /\ q < p
        BY <1>6, <3>1
      <4> QED BY <1>1, <2>1, <3>1, <4>1
    <3> QED BY <3>1 DEF Before
  <2>4. better \subseteq ToSet(selected) /\ IsFiniteSet(better)
    <3>1. better \subseteq ToSet(selected)
      OBVIOUS
    <3> HIDE DEF better
    <3> QED BY <1>5, <3>1, FiniteRange, FS_Subset
  <2> HIDE DEF better
  <2>5. Cardinality(Before(selected, c, p)) <= Cardinality(better)
    BY <2>3, <2>4, FS_Subset
  <2>6. Cardinality(Before(selected, c, p)) \in Nat /\ Cardinality(better) \in Nat /\ DailyMax \in Nat
    BY <2>3, <2>4, FS_Subset, FS_CardinalityType, SelectionAssumption
  <2>7. Diverse(better, i) => Diverse(Before(selected, c, p), i)
    BY <2>3, <2>4, DiverseFewer
  <2>8. i.score >= MinimumScore => Cardinality(better) >= DailyMax \/ ~Diverse(better, i)
    BY <2>1, <2>2, <2>5, <2>6, <2>7 DEF Outdone
  <2> QED BY <2>2, <2>8 DEF better
<1>10. LeftOutForBetter
  BY <1>9 DEF LeftOutForBetter, c
<1>11. selected \in Seq(unique)
  BY <1>3, <1>5, SeqMonotonic
<1>12. unique \subseteq Ranked
  BY Uniques
<1>13. \A m, n \in 1..Len(selected) : selected[m] = selected[n] => m = n
  BY <1>5 DEF Second, Titled
<1> QED BY <1>8, <1>t, <1>10, <1>11, <1>12, <1>13 DEF SelectionJustified

-----------------------------------------------------------------------------
(***************************************************************************)
(* The digest: the stories of messages, in their order.                    *)
(***************************************************************************)
\* the concatenations of the first sequences of Q
Concats(g, Q, E) ==
  /\ g \in [1..Len(Q) -> Seq(E)]
  /\ g[1] = Q[1]
  /\ \A i \in 2..Len(Q) : g[i] = g[i - 1] \o Q[i]

\* FlattenSeq chooses a function that has this recursion
LEMMA FlattenIs ==
  ASSUME NEW E, NEW Q \in Seq(Seq(E)), Q # <<>>
  PROVE  \E g : Concats(g, Q, E) /\ FlattenSeq(Q) = g[Len(Q)]
<1> DEFINE L == Len(Q)
           step == [n \in Nat |-> [a \in Seq(E) |->
                     IF n \in 1..(L - 1) THEN a \o Q[n + 1] ELSE Q[1]]]
           Is(g) == g = [i \in 1..L |-> IF i = 1 THEN Q[i] ELSE g[i - 1] \o Q[i]]
           flat == CHOOSE g : Is(g)
<1>1. L \in Nat \ {0} /\ \A i \in 1..L : Q[i] \in Seq(E)
  OBVIOUS
<1>2. \A n \in Nat, a \in Seq(E) : (IF n \in 1..(L - 1) THEN a \o Q[n + 1] ELSE Q[1]) \in Seq(E)
  <2> TAKE n \in Nat, a \in Seq(E)
  <2>1. CASE n \in 1..(L - 1)
    <3>1. Q[n + 1] \in Seq(E)
      BY <1>1, <2>1
    <3> QED BY <2>1, <3>1, ConcatProperties
  <2>2. CASE n \notin 1..(L - 1)
    BY <1>1, <2>2
  <2> QED BY <2>1, <2>2
<1>3. Steps(step, Nat, Seq(E)) /\ <<>> \in Seq(E)
  BY <1>2 DEF Steps
<1>4. PICK f : Runs(f, step, Seq(E), <<>>)
  <2> HIDE DEF step
  <2> QED BY <1>3, RecursionExists
<1>5. f \in [Nat -> Seq(E)] /\ \A n \in Nat : f[n + 1] = step[n][f[n]]
  BY <1>4 DEF Runs
<1> DEFINE g == [i \in 1..L |-> f[i]]
<1>6. g[1] = Q[1]
  <2>1. ASSUME NEW k \in Nat, k = 0 PROVE f[k + 1] = Q[1]
    <3>1. k \notin 1..(L - 1)
      BY <2>1
    <3>2. step[k] = [a \in Seq(E) |-> Q[1]]
      BY <3>1
    <3> HIDE DEF step
    <3>3. f[k] \in Seq(E) /\ f[k + 1] = step[k][f[k]]
      BY <1>5
    <3> QED BY <3>2, <3>3
  <2>2. f[0 + 1] = Q[1] /\ 0 + 1 = 1
    BY <2>1
  <2>3. 1 \in 1..L
    BY <1>1
  <2> HIDE DEF step
  <2> QED BY <2>2, <2>3
<1>7. ASSUME NEW i \in 2..L PROVE g[i] = g[i - 1] \o Q[i]
  <2>1. i - 1 \in 1..(L - 1) /\ i - 1 \in Nat /\ (i - 1) + 1 = i /\ i \in 1..L /\ i - 1 \in 1..L
    BY <1>1
  <2>2. f[(i - 1) + 1] = f[i - 1] \o Q[(i - 1) + 1]
    BY <1>5, <2>1
  <2> QED BY <2>1, <2>2
<1>8. g \in [1..L -> Seq(E)]
  BY <1>1, <1>5
<1> HIDE DEF g
<1>9. Is(g)
  <2>1. \A i \in 1..L : g[i] = IF i = 1 THEN Q[i] ELSE g[i - 1] \o Q[i]
    <3> TAKE i \in 1..L
    <3>1. CASE i = 1
      BY <1>6, <3>1
    <3>2. CASE i # 1
      <4>1. i \in 2..L
        BY <3>2
      <4> QED BY <1>7, <3>2, <4>1
    <3> QED BY <3>1, <3>2
  <2> QED BY <1>8, <2>1
<1>10. Is(flat)
  <2> HIDE DEF Is
  <2> QED BY <1>9
<1>11. FlattenSeq(Q) = flat[L]
  BY <1>1 DEF FlattenSeq
<1> HIDE DEF flat
<1>12. DOMAIN flat = 1..L /\ \A i \in 1..L : flat[i] = IF i = 1 THEN Q[i] ELSE flat[i - 1] \o Q[i]
  BY <1>10
<1>13. flat[1] = Q[1] /\ \A i \in 2..L : flat[i] = flat[i - 1] \o Q[i]
  <2>1. 1 \in 1..L /\ \A i \in 2..L : i \in 1..L /\ i # 1
    BY <1>1
  <2> QED BY <1>12, <2>1
<1> DEFINE Good == {n \in 0..L : n # 0 => flat[n] \in Seq(E)}
<1>14. 0 \in Good
  BY <1>1
<1>15. ASSUME NEW n \in 0..(L - 1), n \in Good PROVE n + 1 \in Good
  <2>1. n + 1 \in 0..L /\ n + 1 \in 1..L
    BY <1>1
  <2>2. CASE n = 0
    <3>1. flat[n + 1] \in Seq(E)
      BY <1>1, <1>13, <2>2
    <3> QED BY <2>1, <3>1
  <2>3. CASE n # 0
    <3>1. n + 1 \in 2..L /\ (n + 1) - 1 = n
      BY <1>1, <2>3
    <3>2. flat[n + 1] = flat[n] \o Q[n + 1]
      BY <1>13, <3>1
    <3>3. flat[n] \in Seq(E) /\ Q[n + 1] \in Seq(E)
      BY <1>1, <1>15, <2>1, <2>3
    <3>4. flat[n + 1] \in Seq(E)
      BY <3>2, <3>3, ConcatProperties
    <3> QED BY <2>1, <3>4
  <2> QED BY <2>2, <2>3
<1>16. 0..L \subseteq Good
  <2>1. L \in Nat
    BY <1>1
  <2> HIDE DEF Good, L
  <2> QED BY <1>14, <1>15, <2>1, CountingTo
<1>17. \A n \in 1..L : flat[n] \in Seq(E)
  <2>1. \A n \in 1..L : n \in 0..L /\ n # 0
    BY <1>1
  <2> QED BY <1>16, <2>1
<1>18. flat \in [1..L -> Seq(E)]
  <2>1. flat = [i \in 1..L |-> flat[i]]
    BY <1>10
  <2> QED BY <1>17, <2>1
<1>19. Concats(flat, Q, E)
  BY <1>13, <1>18 DEF Concats
<1> QED BY <1>11, <1>19

\* one more sequence comes after all others
LEMMA FlattenAppend ==
  ASSUME NEW E, NEW Q \in Seq(Seq(E)), NEW m \in Seq(E)
  PROVE  /\ FlattenSeq(Q) \in Seq(E)
         /\ FlattenSeq(Append(Q, m)) = FlattenSeq(Q) \o m
<1> DEFINE P == Append(Q, m)
           L == Len(Q)
<1>1. /\ P \in Seq(Seq(E)) /\ P # <<>> /\ Len(P) = L + 1 /\ P[L + 1] = m /\ L \in Nat
      /\ \A i \in 1..L : P[i] = Q[i]
  <2> DEFINE M == Seq(E)
  <2>1. Q \in Seq(M) /\ m \in M
    OBVIOUS
  <2> HIDE DEF M
  <2>2. /\ P \in Seq(M) /\ Len(P) = L + 1 /\ P[L + 1] = m /\ L \in Nat
        /\ \A i \in 1..L : P[i] = Q[i]
    BY <2>1, Appended
  <2>3. P # <<>>
    BY <2>2
  <2> QED BY <2>2, <2>3 DEF M
<1> HIDE DEF P
<1>2. PICK h : Concats(h, P, E) /\ FlattenSeq(P) = h[L + 1]
  BY <1>1, FlattenIs
<1>3. CASE Q = <<>>
  <2>1. FlattenSeq(Q) = <<>>
    BY <1>3 DEF FlattenSeq
  <2>2. L = 0
    BY <1>3
  <2>3. h[1] = m
    BY <1>1, <1>2, <2>2 DEF Concats
  <2>4. FlattenSeq(P) = m
    BY <1>2, <2>2, <2>3
  <2> QED BY <2>1, <2>4, ConcatEmptySeq DEF P
<1>4. CASE Q # <<>>
  <2>1. PICK g : Concats(g, Q, E) /\ FlattenSeq(Q) = g[L]
    BY <1>4, FlattenIs
  <2>2. L \in Nat \ {0} /\ L \in 1..L
    BY <1>1, <1>4
  <2> DEFINE Good == {n \in 0..L : n # 0 => h[n] = g[n]}
  <2>3. 0 \in Good
    BY <1>1
  <2>4. ASSUME NEW n \in 0..(L - 1), n \in Good PROVE n + 1 \in Good
    <3>1. n + 1 \in 0..L /\ n + 1 \in 1..L /\ n + 1 \in 1..Len(P)
      BY <1>1
    <3>2. CASE n = 0
      <4>1. h[1] = P[1] /\ g[1] = Q[1] /\ P[1] = Q[1]
        BY <1>1, <1>2, <2>1, <2>2 DEF Concats
      <4> QED BY <3>1, <3>2, <4>1
    <3>3. CASE n # 0
      <4>1. n + 1 \in 2..L /\ n + 1 \in 2..Len(P) /\ (n + 1) - 1 = n
        BY <1>1, <3>3
      <4>2. h[n + 1] = h[n] \o P[n + 1] /\ g[n + 1] = g[n] \o Q[n + 1]
        BY <1>2, <2>1, <4>1 DEF Concats
      <4>3. h[n] = g[n] /\ P[n + 1] = Q[n + 1]
        BY <1>1, <2>4, <3>1, <3>3
      <4> QED BY <3>1, <4>2, <4>3
    <3> QED BY <3>2, <3>3
  <2>5. 0..L \subseteq Good
    <3> HIDE DEF Good, L
    <3> QED BY <1>1, <2>3, <2>4, CountingTo
  <2>6. h[L] = g[L]
    <3>1. L \in 0..L
      BY <2>2
    <3> QED BY <2>2, <2>5, <3>1
  <2>7. h[L + 1] = h[L] \o m
    <3>1. L + 1 \in 2..Len(P) /\ (L + 1) - 1 = L
      BY <1>1, <2>2
    <3>2. h[L + 1] = h[(L + 1) - 1] \o P[L + 1]
      BY <1>2, <3>1 DEF Concats
    <3> QED BY <1>1, <3>1, <3>2
  <2>8. g[L] \in Seq(E)
    BY <2>1, <2>2 DEF Concats
  <2> QED BY <1>2, <2>1, <2>6, <2>7, <2>8 DEF P
<1> QED BY <1>3, <1>4

(***************************************************************************)
(* The stories shown and those omitted, of the first n.                    *)
(***************************************************************************)
Ordered(flat, s, n) ==
  \A a, b \in 1..Len(flat) : \A p, q \in 1..n :
    flat[a] = s[p] /\ flat[b] = s[q] => (a < b <=> p < q)

Shows(flat, out, s, n) ==
  /\ From(flat, s, n) /\ From(out, s, n) /\ Ordered(flat, s, n)
  /\ \A p \in 1..n : s[p] \in ToSet(flat) <=> s[p] \notin ToSet(out)

\* no story twice
Once(s) == \A m, n \in 1..Len(s) : s[m] = s[n] => m = n

\* the n-th is not among the earlier ones
LEMMA NotYet ==
  ASSUME NEW M, NEW s \in Seq(M), Once(s), NEW n \in 1..Len(s), NEW t \in Seq(M), From(t, s, n - 1)
  PROVE  s[n] \notin ToSet(t) /\ \A k \in 1..Len(t) : t[k] # s[n]
<1>1. ASSUME NEW k \in 1..Len(t) PROVE t[k] # s[n]
  <2>1. PICK p \in 1..(n - 1) : t[k] = s[p]
    BY DEF From
  <2>2. p \in 1..Len(s) /\ p # n
    BY <2>1
  <2> QED BY <2>1, <2>2 DEF Once
<1> QED BY <1>1, Members

\* the n-th is shown after all others
LEMMA ShowNext ==
  ASSUME NEW M, NEW s \in Seq(M), Once(s), NEW n \in 1..Len(s),
         NEW flat \in Seq(M), NEW out \in Seq(M), Shows(flat, out, s, n - 1)
  PROVE  Shows(Append(flat, s[n]), out, s, n)
<1> DEFINE t == Append(flat, s[n])
           L == Len(flat)
<1>1. From(flat, s, n - 1) /\ From(out, s, n - 1) /\ Ordered(flat, s, n - 1)
  BY DEF Shows
<1>2. n \in Nat \ {0} /\ s[n] \in M /\ \A p \in 1..n : p \in 1..Len(s) /\ (p = n \/ p \in 1..(n - 1))
  OBVIOUS
<1>3. From(t, s, n) /\ From(out, s, n)
  BY <1>1, <1>2, FromNext
<1>4. Len(t) = L + 1 /\ L \in Nat /\ t[L + 1] = s[n] /\ (\A k \in 1..L : t[k] = flat[k])
      /\ ToSet(t) = ToSet(flat) \cup {s[n]}
  BY <1>2, Appended
<1> HIDE DEF t
<1>5. /\ s[n] \notin ToSet(out)
      /\ \A k \in 1..L : flat[k] # s[n]
  BY <1>1, NotYet
<1>6. ASSUME NEW a \in 1..Len(t), NEW p \in 1..n, t[a] = s[p]
      PROVE  (a = L + 1 /\ p = n) \/ (a \in 1..L /\ p \in 1..(n - 1) /\ flat[a] = s[p])
  <2>1. a = L + 1 \/ a \in 1..L
    BY <1>4
  <2>2. CASE a = L + 1
    BY <1>2, <1>4, <1>6, <2>2 DEF Once
  <2>3. CASE a \in 1..L
    BY <1>2, <1>4, <1>5, <1>6, <2>3
  <2> QED BY <2>1, <2>2, <2>3
<1>7. Ordered(t, s, n)
  <2>1. ASSUME NEW a \in 1..Len(t), NEW b \in 1..Len(t), NEW p \in 1..n, NEW q \in 1..n,
               t[a] = s[p], t[b] = s[q]
        PROVE  a < b <=> p < q
    <3>1. (a = L + 1 /\ p = n) \/ (a \in 1..L /\ p \in 1..(n - 1) /\ flat[a] = s[p])
      BY <1>6, <2>1
    <3>2. (b = L + 1 /\ q = n) \/ (b \in 1..L /\ q \in 1..(n - 1) /\ flat[b] = s[q])
      BY <1>6, <2>1
    <3>3. CASE a \in 1..L /\ p \in 1..(n - 1) /\ flat[a] = s[p] /\ b \in 1..L /\ q \in 1..(n - 1) /\ flat[b] = s[q]
      BY <1>1, <3>3 DEF Ordered
    <3>4. CASE a = L + 1 /\ p = n
      BY <1>2, <1>4, <3>2, <3>4
    <3>5. CASE b = L + 1 /\ q = n
      BY <1>2, <1>4, <3>1, <3>5
    <3> QED BY <3>1, <3>2, <3>3, <3>4, <3>5
  <2> QED BY <2>1 DEF Ordered
<1>8. ASSUME NEW p \in 1..n PROVE s[p] \in ToSet(t) <=> s[p] \notin ToSet(out)
  <2>1. CASE p = n
    BY <1>4, <1>5, <2>1
  <2>2. CASE p # n
    <3>1. p \in 1..(n - 1) /\ s[p] # s[n]
      BY <1>2, <2>2 DEF Once
    <3> QED BY <1>4, <3>1 DEF Shows
  <2> QED BY <2>1, <2>2
<1> QED BY <1>3, <1>7, <1>8 DEF Shows, t

\* or it is omitted
LEMMA OmitNext ==
  ASSUME NEW M, NEW s \in Seq(M), Once(s), NEW n \in 1..Len(s),
         NEW flat \in Seq(M), NEW out \in Seq(M), Shows(flat, out, s, n - 1)
  PROVE  Shows(flat, Append(out, s[n]), s, n)
<1> DEFINE t == Append(out, s[n])
<1>1. From(flat, s, n - 1) /\ From(out, s, n - 1) /\ Ordered(flat, s, n - 1)
  BY DEF Shows
<1>2. n \in Nat \ {0} /\ s[n] \in M /\ \A p \in 1..n : p \in 1..Len(s) /\ (p = n \/ p \in 1..(n - 1))
  OBVIOUS
<1>3. From(t, s, n) /\ From(flat, s, n)
  BY <1>1, <1>2, FromNext
<1>4. ToSet(t) = ToSet(out) \cup {s[n]}
  BY <1>2, Appended
<1> HIDE DEF t
<1>5. /\ s[n] \notin ToSet(flat)
      /\ \A k \in 1..Len(flat) : flat[k] # s[n]
  BY <1>1, NotYet
<1>6. Ordered(flat, s, n)
  <2>1. ASSUME NEW a \in 1..Len(flat), NEW b \in 1..Len(flat), NEW p \in 1..n, NEW q \in 1..n,
               flat[a] = s[p], flat[b] = s[q]
        PROVE  a < b <=> p < q
    <3>1. p \in 1..(n - 1) /\ q \in 1..(n - 1)
      BY <1>2, <1>5, <2>1
    <3> QED BY <1>1, <2>1, <3>1 DEF Ordered
  <2> QED BY <2>1 DEF Ordered
<1>7. ASSUME NEW p \in 1..n PROVE s[p] \in ToSet(flat) <=> s[p] \notin ToSet(t)
  <2>1. CASE p = n
    BY <1>4, <1>5, <2>1
  <2>2. CASE p # n
    <3>1. p \in 1..(n - 1) /\ s[p] # s[n]
      BY <1>2, <2>2 DEF Once
    <3> QED BY <1>4, <3>1 DEF Shows
  <2> QED BY <2>1, <2>2
<1> QED BY <1>3, <1>6, <1>7 DEF Shows, t

\* appending to the right part of a concatenation
LEMMA AppendConcat ==
  ASSUME NEW M, NEW x \in Seq(M), NEW y \in Seq(M), NEW i \in M
  PROVE  x \o Append(y, i) = Append(x \o y, i) /\ Append(x, i) = x \o Append(<<>>, i)
<1>1. <<i>> \in Seq(M) /\ <<>> \in Seq(M) /\ <<>> \o <<i>> = <<i>>
  BY ConcatEmptySeq
<1>2. \A z \in Seq(M) : Append(z, i) = z \o <<i>>
  BY AppendIsConcat
<1>3. \A z \in Seq(M) : x \o z \in Seq(M) /\ (x \o z) \o <<i>> = x \o (z \o <<i>>)
  BY <1>1, ConcatProperties, ConcatAssociative
<1>4. x \o Append(y, i) = x \o (y \o <<i>>) /\ Append(x \o y, i) = (x \o y) \o <<i>>
  BY <1>2, <1>3
<1>5. Append(<<>>, i) = <<i>>
  BY <1>1, <1>2
<1> QED BY <1>2, <1>3, <1>4, <1>5

\* the stories of messages
Stories(ms) == [n \in DOMAIN ms |-> ms[n].items]
Flat(ms) == FlattenSeq(Stories(ms))

\* a message that ends comes after all others
LEMMA FlatAppend ==
  ASSUME NEW M, NEW ms \in Seq(Messages(M)), NEW m \in Messages(M)
  PROVE  Flat(ms) \in Seq(M) /\ Flat(Append(ms, m)) = Flat(ms) \o m.items
<1> DEFINE E == Messages(M)
           q == Append(ms, m)
<1>1. /\ q \in Seq(E) /\ Len(q) = Len(ms) + 1 /\ q[Len(ms) + 1] = m /\ Len(ms) \in Nat
      /\ \A k \in 1..Len(ms) : q[k] = ms[k]
  <2> HIDE DEF E
  <2> QED BY Appended DEF E
<1>2. \A x \in Seq(E) : Stories(x) \in Seq(Seq(M)) /\ Len(Stories(x)) = Len(x)
                        /\ \A k \in 1..Len(x) : Stories(x)[k] = x[k].items
  <2> TAKE x \in Seq(E)
  <2>1. DOMAIN x = 1..Len(x) /\ Len(x) \in Nat /\ \A k \in 1..Len(x) : x[k] \in E
    BY ElementOfSeq, LenProperties
  <2>2. \A k \in 1..Len(x) : x[k].items \in Seq(M)
    BY <2>1 DEF Messages
  <2> DEFINE S == Seq(M)
  <2>3. Stories(x) = [k \in 1..Len(x) |-> x[k].items]
    BY <2>1 DEF Stories
  <2>4. \A k \in 1..Len(x) : x[k].items \in S
    BY <2>2
  <2> HIDE DEF S, E
  <2>5. [k \in 1..Len(x) |-> x[k].items] \in Seq(S)
    BY <2>1, <2>4
  <2> QED BY <2>1, <2>3, <2>5 DEF S
<1> HIDE DEF q
<1>3. m.items \in Seq(M)
  BY DEF Messages
<1>4. Stories(q) = Append(Stories(ms), m.items)
  <2> DEFINE S == Seq(M)
             a == Stories(q)
             d == Stories(ms)
             b == Append(d, m.items)
  <2>1. /\ a \in Seq(S) /\ Len(a) = Len(q) /\ \A k \in 1..Len(q) : a[k] = q[k].items
        /\ d \in Seq(S) /\ Len(d) = Len(ms) /\ \A k \in 1..Len(ms) : d[k] = ms[k].items
        /\ m.items \in S
    BY <1>1, <1>2, <1>3
  <2> HIDE DEF S, a, d
  <2>2. b \in Seq(S) /\ Len(b) = Len(d) + 1 /\ b[Len(d) + 1] = m.items /\ \A k \in 1..Len(d) : b[k] = d[k]
    BY <2>1, Appended
  <2> HIDE DEF b
  <2>3. ASSUME NEW k \in 1..Len(a) PROVE a[k] = b[k]
    <3>1. k = Len(ms) + 1 \/ k \in 1..Len(ms)
      BY <1>1, <2>1
    <3> QED BY <1>1, <2>1, <2>2, <3>1
  <2>4. Len(a) = Len(b)
    BY <1>1, <2>1, <2>2
  <2>5. a = b
    BY <2>1, <2>2, <2>3, <2>4, SeqEqual
  <2> QED BY <2>5 DEF a, b, d
<1>5. Stories(ms) \in Seq(Seq(M))
  BY <1>2
<1> HIDE DEF E
<1> QED BY <1>3, <1>4, <1>5, FlattenAppend DEF Flat, q

LEMMA FlatEmpty == Flat(<<>>) = <<>>
<1>1. Stories(<<>>) = <<>>
  BY DEF Stories
<1> QED BY <1>1 DEF Flat, FlattenSeq

\* the same stories in the same messages
LEMMA FlatSame ==
  ASSUME NEW M, NEW x \in Seq(Messages(M)), NEW y \in Seq(Messages(M)), Len(x) = Len(y),
         \A k \in 1..Len(x) : x[k].items = y[k].items
  PROVE  Flat(x) = Flat(y)
<1>1. DOMAIN x = 1..Len(x) /\ DOMAIN y = 1..Len(x)
  BY LenProperties
<1>2. Stories(x) = Stories(y)
  BY <1>1 DEF Stories
<1> QED BY <1>2 DEF Flat

(***************************************************************************)
(* What holds of the packing of the first n stories of s.                  *)
(***************************************************************************)
Flow(acc) == Flat(acc.messages) \o acc.current.items
Within(ms) == \A k \in 1..Len(ms) : ms[k].units <= UnitLimit
TooLong(out, s, n) ==
  \A i \in ToSet(out) :
    \/ FitBlock(i, ContinuationUnits) = 0
    \/ /\ FitBlock(i, HeaderUnits + SeparatorUnits) = 0
       /\ \A p \in 1..n : s[p] = i => \A q \in 1..(p - 1) : s[q] \in ToSet(out)

Packs(acc, s, n) ==
  /\ Shows(Flow(acc), acc.omitted, s, n)
  /\ Within(acc.messages) /\ acc.current.units <= UnitLimit
  /\ TooLong(acc.omitted, s, n)
  /\ acc.header => acc.messages = <<>> /\ acc.current = [units |-> HeaderUnits, items |-> <<>>]

\* one more story, omitted for a reason or not omitted
LEMMA TooLongNext ==
  ASSUME NEW M, NEW s \in Seq(M), NEW n \in 1..Len(s), NEW out \in Seq(M),
         s[n] \notin ToSet(out), TooLong(out, s, n - 1)
  PROVE  /\ TooLong(out, s, n)
         /\ (\/ FitBlock(s[n], ContinuationUnits) = 0
             \/ FitBlock(s[n], HeaderUnits + SeparatorUnits) = 0 /\ Once(s)
                /\ \A q \in 1..(n - 1) : s[q] \in ToSet(out))
              => TooLong(Append(out, s[n]), s, n)
<1>1. s[n] \in M /\ \A p \in 1..n : p \in 1..Len(s) /\ (p = n \/ p \in 1..(n - 1))
  OBVIOUS
<1>2. ToSet(Append(out, s[n])) = ToSet(out) \cup {s[n]}
  BY <1>1, Appended
<1>3. ASSUME NEW i \in ToSet(out), FitBlock(i, ContinuationUnits) # 0
      PROVE  /\ FitBlock(i, HeaderUnits + SeparatorUnits) = 0
             /\ \A p \in 1..n : s[p] = i => \A q \in 1..(p - 1) : s[q] \in ToSet(out)
  <2>1. \A p \in 1..n : s[p] = i => p \in 1..(n - 1)
    BY <1>1, <1>3
  <2>2. /\ FitBlock(i, HeaderUnits + SeparatorUnits) = 0
        /\ \A p \in 1..(n - 1) : s[p] = i => \A q \in 1..(p - 1) : s[q] \in ToSet(out)
    BY <1>3 DEF TooLong
  <2> QED BY <2>1, <2>2
<1>4. TooLong(out, s, n)
  BY <1>3 DEF TooLong
<1>5. ASSUME \/ FitBlock(s[n], ContinuationUnits) = 0
             \/ FitBlock(s[n], HeaderUnits + SeparatorUnits) = 0 /\ Once(s)
                /\ \A q \in 1..(n - 1) : s[q] \in ToSet(out),
             NEW i \in ToSet(Append(out, s[n])), FitBlock(i, ContinuationUnits) # 0
      PROVE  /\ FitBlock(i, HeaderUnits + SeparatorUnits) = 0
             /\ \A p \in 1..n : s[p] = i => \A q \in 1..(p - 1) : s[q] \in ToSet(Append(out, s[n]))
  <2>1. CASE i \in ToSet(out)
    BY <1>2, <1>3, <1>5, <2>1
  <2>2. CASE i = s[n]
    <3>1. Once(s) /\ FitBlock(i, HeaderUnits + SeparatorUnits) = 0 /\ \A q \in 1..(n - 1) : s[q] \in ToSet(out)
      BY <1>5, <2>2
    <3>2. \A p \in 1..n : s[p] = i => p = n
      BY <1>1, <2>2, <3>1 DEF Once
    <3> QED BY <1>2, <3>1, <3>2
  <2> QED BY <1>2, <2>1, <2>2
<1> QED BY <1>4, <1>5 DEF TooLong

\* the parts of the accumulator
LEMMA PackParts ==
  ASSUME NEW M, NEW acc \in Packing(M)
  PROVE  /\ acc.messages \in Seq(Messages(M)) /\ acc.omitted \in Seq(M) /\ acc.header \in BOOLEAN
         /\ acc.current \in Messages(M) /\ acc.current.units \in Nat /\ acc.current.items \in Seq(M)
         /\ Flat(acc.messages) \in Seq(M) /\ Flow(acc) \in Seq(M)
<1>1. /\ acc.messages \in Seq(Messages(M)) /\ acc.omitted \in Seq(M) /\ acc.header \in BOOLEAN
      /\ acc.current \in Messages(M) /\ acc.current.units \in Nat /\ acc.current.items \in Seq(M)
  BY DEF Packing, Messages
<1>2. Flat(acc.messages) \in Seq(M)
  BY <1>1, FlatAppend
<1> QED BY <1>1, <1>2, ConcatProperties DEF Flow

\* The block fits into the current message.
LEMMA PackHere ==
  ASSUME NEW M, Sized(M), NEW s \in Seq(M), Once(s), NEW n \in 1..Len(s),
         NEW acc \in Packing(M), Packs(acc, s, n - 1),
         NEW i, i = s[n], NEW here, here = FitBlock(i, acc.current.units + SeparatorUnits), here # 0,
         NEW next, next.messages = acc.messages, next.omitted = acc.omitted,
         next.current = Place(acc.current, i, SeparatorUnits + here),
         next.header = (acc.header /\ next.current = acc.current)
  PROVE  Packs(next, s, n)
<1>1. /\ acc.messages \in Seq(Messages(M)) /\ acc.omitted \in Seq(M)
      /\ acc.current.units \in Nat /\ acc.current.items \in Seq(M)
      /\ Flat(acc.messages) \in Seq(M) /\ Flow(acc) \in Seq(M) /\ i \in M
  BY PackParts
<1>2. SeparatorUnits \in Nat /\ UnitLimit \in Nat
  BY SelectionAssumption
<1>3. here \in Nat /\ acc.current.units + SeparatorUnits + here <= UnitLimit
  <2>1. acc.current.units + SeparatorUnits \in Nat
    BY <1>1, <1>2
  <2> QED BY <1>1, <2>1, FittingBlock
<1>4. next.current.units = acc.current.units + (SeparatorUnits + here)
      /\ next.current.items = Append(acc.current.items, i)
  BY DEF Place
<1>5. next.current.units <= UnitLimit
  BY <1>1, <1>2, <1>3, <1>4
<1>6. next.current # acc.current
  <2>1. Append(acc.current.items, i) # acc.current.items
    <3>1. Len(Append(acc.current.items, i)) = Len(acc.current.items) + 1 /\ Len(acc.current.items) \in Nat
      BY <1>1
    <3> QED BY <3>1
  <2> QED BY <1>4, <2>1
<1>7. Flow(next) = Append(Flow(acc), i)
  <2> DEFINE x == Flat(acc.messages)
             y == acc.current.items
  <2>1. x \in Seq(M) /\ y \in Seq(M) /\ Flow(acc) = x \o y /\ Flow(next) = x \o Append(y, i)
    BY <1>1, <1>4 DEF Flow
  <2> HIDE DEF x, y
  <2>2. i \in M
    BY <1>1
  <2>3. x \o Append(y, i) = Append(x \o y, i)
    BY <2>1, <2>2, AppendConcat
  <2> QED BY <2>1, <2>3
<1>8. Shows(Flow(acc), acc.omitted, s, n - 1) /\ TooLong(acc.omitted, s, n - 1) /\ Within(acc.messages)
  BY DEF Packs
<1>9. Shows(Flow(next), next.omitted, s, n)
  BY <1>1, <1>7, <1>8, ShowNext
<1>10. TooLong(next.omitted, s, n)
  <2>1. s[n] \notin ToSet(acc.omitted)
    BY <1>1, <1>8, NotYet DEF Shows
  <2> QED BY <1>1, <1>8, <2>1, TooLongNext
<1> QED BY <1>5, <1>6, <1>8, <1>9, <1>10 DEF Packs

\* It fits neither there nor into a message of its own, or the header stands alone.
LEMMA PackOmit ==
  ASSUME NEW M, Sized(M), NEW s \in Seq(M), Once(s), NEW n \in 1..Len(s),
         NEW acc \in Packing(M), Packs(acc, s, n - 1),
         NEW i, i = s[n], FitBlock(i, acc.current.units + SeparatorUnits) = 0, acc.header,
         NEW next, next.messages = acc.messages, next.omitted = Append(acc.omitted, i),
         next.current = acc.current, next.header = acc.header
  PROVE  Packs(next, s, n)
<1>1. /\ acc.messages \in Seq(Messages(M)) /\ acc.omitted \in Seq(M)
      /\ Flow(acc) \in Seq(M) /\ i \in M
  BY PackParts
<1>2. acc.messages = <<>> /\ acc.current = [units |-> HeaderUnits, items |-> <<>>]
  BY DEF Packs
<1>3. Shows(Flow(acc), acc.omitted, s, n - 1) /\ TooLong(acc.omitted, s, n - 1) /\ Within(acc.messages)
      /\ acc.current.units <= UnitLimit
  BY DEF Packs
<1>4. Flow(acc) = <<>>
  <2>1. Flat(acc.messages) = <<>> /\ acc.current.items = <<>>
    BY <1>2, FlatEmpty
  <2>2. <<>> \o <<>> = <<>>
    BY EmptySeq, ConcatEmptySeq
  <2> QED BY <2>1, <2>2 DEF Flow
<1>5. \A q \in 1..(n - 1) : s[q] \in ToSet(acc.omitted)
  <2>1. ToSet(<<>>) = {}
    BY DEF ToSet
  <2> QED BY <1>3, <1>4, <2>1 DEF Shows
<1>6. FitBlock(s[n], HeaderUnits + SeparatorUnits) = 0
  BY <1>2
<1>7. s[n] \notin ToSet(acc.omitted)
  BY <1>1, <1>3, NotYet DEF Shows
<1>8. TooLong(next.omitted, s, n)
  BY <1>1, <1>3, <1>5, <1>6, <1>7, TooLongNext
<1>9. Shows(Flow(next), next.omitted, s, n)
  <2>1. Flow(next) = Flow(acc)
    BY DEF Flow
  <2> QED BY <1>1, <1>3, <2>1, OmitNext
<1> QED BY <1>2, <1>3, <1>8, <1>9 DEF Packs

\* The current message ends; the story begins a continuation or is omitted.
LEMMA PackThere ==
  ASSUME NEW M, Sized(M), NEW s \in Seq(M), Once(s), NEW n \in 1..Len(s),
         NEW acc \in Packing(M), Packs(acc, s, n - 1),
         NEW i, i = s[n], ~acc.header, NEW there, there = FitBlock(i, ContinuationUnits),
         NEW next, next.messages = Append(acc.messages, acc.current),
         next.omitted = (IF there # 0 THEN acc.omitted ELSE Append(acc.omitted, i)),
         next.current = (IF there # 0 THEN Place(Continuation, i, there) ELSE Continuation),
         next.header = (acc.header /\ next.current = acc.current)
  PROVE  Packs(next, s, n)
<1>1. /\ acc.messages \in Seq(Messages(M)) /\ acc.omitted \in Seq(M)
      /\ acc.current \in Messages(M) /\ acc.current.units \in Nat /\ acc.current.items \in Seq(M)
      /\ Flat(acc.messages) \in Seq(M) /\ Flow(acc) \in Seq(M) /\ i \in M
  BY PackParts
<1>2. ContinuationUnits \in Nat /\ ContinuationUnits <= UnitLimit /\ UnitLimit \in Nat
  BY SelectionAssumption
<1>3. Shows(Flow(acc), acc.omitted, s, n - 1) /\ TooLong(acc.omitted, s, n - 1) /\ Within(acc.messages)
      /\ acc.current.units <= UnitLimit
  BY DEF Packs
<1>4. s[n] \notin ToSet(acc.omitted)
  BY <1>1, <1>3, NotYet DEF Shows
<1>5. Flat(next.messages) = Flow(acc)
  BY <1>1, FlatAppend DEF Flow
<1>6. Within(next.messages)
  <2> DEFINE E == Messages(M)
             a == acc.messages
             m == acc.current
  <2>1. a \in Seq(E) /\ m \in E
    BY <1>1
  <2> HIDE DEF E
  <2>2. /\ Len(Append(a, m)) = Len(a) + 1 /\ Append(a, m)[Len(a) + 1] = m /\ Len(a) \in Nat
        /\ \A k \in 1..Len(a) : Append(a, m)[k] = a[k]
    BY <2>1, Appended
  <2>3. \A k \in 1..(Len(a) + 1) : k = Len(a) + 1 \/ k \in 1..Len(a)
    BY <2>2
  <2> QED BY <1>3, <2>2, <2>3 DEF Within
<1>7. CASE there # 0
  <2>1. there \in Nat /\ ContinuationUnits + there <= UnitLimit
    BY <1>1, <1>2, <1>7, FittingBlock
  <2>2. next.current.units = ContinuationUnits + there /\ next.current.items = Append(<<>>, i)
    BY <1>7 DEF Place, Continuation
  <2>3. Flow(next) = Append(Flow(acc), i)
    <3> DEFINE x == Flow(acc)
    <3>1. x \in Seq(M) /\ Flow(next) = x \o Append(<<>>, i)
      BY <1>1, <1>5, <2>2 DEF Flow
    <3> HIDE DEF x
    <3>2. Append(x, i) = x \o Append(<<>>, i)
      BY <1>1, <3>1, AppendConcat
    <3> QED BY <3>1, <3>2 DEF x
  <2>4. Shows(Flow(next), next.omitted, s, n)
    BY <1>1, <1>3, <1>7, <2>3, ShowNext
  <2>5. TooLong(next.omitted, s, n)
    BY <1>1, <1>3, <1>4, <1>7, TooLongNext
  <2> QED BY <1>6, <2>1, <2>2, <2>4, <2>5 DEF Packs
<1>8. CASE there = 0
  <2>1. next.current.units = ContinuationUnits /\ next.current.items = <<>>
    BY <1>8 DEF Continuation
  <2>2. Flow(next) = Flow(acc)
    BY <1>1, <1>5, <2>1, ConcatEmptySeq DEF Flow
  <2>3. Shows(Flow(next), next.omitted, s, n)
    BY <1>1, <1>3, <1>8, <2>2, OmitNext
  <2>4. TooLong(next.omitted, s, n)
    BY <1>1, <1>3, <1>4, <1>8, TooLongNext
  <2> QED BY <1>2, <1>6, <2>1, <2>3, <2>4 DEF Packs
<1> QED BY <1>7, <1>8

\* so each step of build_digest keeps what holds of the packing
LEMMA PackKeeps ==
  ASSUME NEW M, Sized(M), NEW s \in Seq(M), Once(s), NEW n \in 1..Len(s),
         NEW acc \in Packing(M), Packs(acc, s, n - 1)
  PROVE  Packs(Packed(acc, s[n]), s, n)
<1> DEFINE i == s[n]
           here == FitBlock(i, acc.current.units + SeparatorUnits)
           there == FitBlock(i, ContinuationUnits)
           p == PlaceItem(acc, i)
           next == Packed(acc, i)
<1>1. p = IF here # 0
          THEN [acc EXCEPT !.current = Place(@, i, SeparatorUnits + here)]
          ELSE IF acc.header
          THEN [acc EXCEPT !.omitted = Append(@, i)]
          ELSE [acc EXCEPT
                 !.messages = Append(@, acc.current),
                 !.current = IF there # 0 THEN Place(Continuation, i, there) ELSE Continuation,
                 !.omitted = IF there # 0 THEN @ ELSE Append(@, i)]
  BY DEF PlaceItem
<1>2. acc = [messages |-> acc.messages, current |-> acc.current, header |-> acc.header, omitted |-> acc.omitted]
      /\ acc.header \in BOOLEAN
  BY DEF Packing
<1> HIDE DEF here, there
<1>3. /\ p.messages = IF here # 0 \/ acc.header THEN acc.messages ELSE Append(acc.messages, acc.current)
      /\ p.current = IF here # 0 THEN Place(acc.current, i, SeparatorUnits + here)
                     ELSE IF acc.header THEN acc.current
                     ELSE IF there # 0 THEN Place(Continuation, i, there) ELSE Continuation
      /\ p.omitted = IF here # 0 THEN acc.omitted
                     ELSE IF acc.header \/ there = 0 THEN Append(acc.omitted, i) ELSE acc.omitted
      /\ DOMAIN p = {"messages", "current", "header", "omitted"}
  <2>1. CASE here # 0
    BY <1>1, <1>2, <2>1
  <2>2. CASE here = 0 /\ acc.header
    BY <1>1, <1>2, <2>2
  <2>3. CASE here = 0 /\ ~acc.header
    BY <1>1, <1>2, <2>3
  <2> QED BY <1>2, <2>1, <2>2, <2>3
<1>4. next = [p EXCEPT !.header = acc.header /\ p.current = acc.current]
  BY DEF Packed
<1> HIDE DEF p, next
<1>5. /\ next.messages = p.messages /\ next.current = p.current /\ next.omitted = p.omitted
      /\ next.header = (acc.header /\ p.current = acc.current)
  BY <1>3, <1>4
<1>6. CASE here # 0
  BY <1>3, <1>5, <1>6, PackHere DEF here, next
<1>7. CASE here = 0 /\ acc.header
  <2>1. next.header = acc.header
    BY <1>2, <1>3, <1>5, <1>7
  <2> QED BY <1>3, <1>5, <1>7, <2>1, PackOmit DEF here, next
<1>8. CASE here = 0 /\ ~acc.header
  <2>1. /\ next.messages = Append(acc.messages, acc.current)
        /\ next.omitted = (IF there # 0 THEN acc.omitted ELSE Append(acc.omitted, i))
        /\ next.current = (IF there # 0 THEN Place(Continuation, i, there) ELSE Continuation)
        /\ next.header = (acc.header /\ next.current = acc.current)
    BY <1>3, <1>5, <1>8
  <2> QED BY <1>8, <2>1, PackThere DEF there, next
<1> QED BY <1>2, <1>6, <1>7, <1>8

\* The note takes units where there are some, and no story its place.
LEMMA NoteKept ==
  ASSUME NEW M, NEW ms \in Seq(Messages(M)), ms # <<>>, Within(ms)
  PROVE  /\ WithNote(ms) \in Seq(Messages(M)) /\ Within(WithNote(ms))
         /\ Flat(WithNote(ms)) = Flat(ms)
<1> DEFINE E == Messages(M)
           last == Len(ms)
           more == [ms EXCEPT ![last].units = @ + NoteUnits]
           alone == [units |-> NoteUnits, items |-> <<>>]
           apart == Append(ms, alone)
<1>1. last \in Nat /\ last \in 1..last /\ DOMAIN ms = 1..last /\ \A k \in 1..last : ms[k] \in E
  <2>1. ms \in Seq(E)
    OBVIOUS
  <2> HIDE DEF E
  <2>2. last \in Nat /\ DOMAIN ms = 1..last /\ \A k \in 1..last : ms[k] \in E
    BY <2>1, ElementOfSeq, LenProperties
  <2>3. last # 0
    BY <2>1, EmptySeq
  <2> QED BY <2>2, <2>3
<1>2. NoteUnits \in Nat
  BY SelectionAssumption
<1>3. WithNote(ms) = IF ms[last].units + NoteUnits <= UnitLimit THEN more
                     ELSE IF NoteUnits <= UnitLimit THEN apart ELSE ms
  BY DEF WithNote
<1>4. CASE ms[last].units + NoteUnits <= UnitLimit
  <2> DEFINE e == [ms[last] EXCEPT !.units = @ + NoteUnits]
  <2>1. ms[last] \in E
    BY <1>1
  <2>2. e \in E /\ e.items = ms[last].items /\ e.units = ms[last].units + NoteUnits
    <3>1. \A m \in E : LET r == [m EXCEPT !.units = @ + NoteUnits]
                       IN  r \in E /\ r.items = m.items /\ r.units = m.units + NoteUnits
      <4> TAKE m \in E
      <4> DEFINE r == [m EXCEPT !.units = @ + NoteUnits]
      <4>1. m = [units |-> m.units, items |-> m.items] /\ m.units \in Nat /\ m.items \in Seq(M)
        BY DEF Messages
      <4>2. r = [units |-> m.units + NoteUnits, items |-> m.items]
        BY <4>1
      <4> HIDE DEF r
      <4>3. r \in E /\ r.items = m.items /\ r.units = m.units + NoteUnits
        BY <1>2, <4>1, <4>2 DEF Messages
      <4> QED BY <4>3 DEF r
    <3> HIDE DEF E
    <3> QED BY <2>1, <3>1
  <2>3. more = [ms EXCEPT ![last] = e]
    OBVIOUS
  <2> HIDE DEF e, more, E
  <2>4. more = [k \in 1..last |-> IF k = last THEN e ELSE ms[k]]
    BY <1>1, <2>3
  <2> HIDE DEF last
  <2>5. more \in Seq(E) /\ Len(more) = last
    BY <1>1, <2>2, <2>4
  <2>6. \A k \in 1..last : more[k] = IF k = last THEN e ELSE ms[k]
    BY <2>4
  <2>7. Flat(more) = Flat(ms)
    <3>1. \A k \in 1..last : more[k].items = ms[k].items
      BY <2>2, <2>6
    <3> QED BY <2>5, <3>1, FlatSame DEF E, last
  <2>8. Within(more)
    <3>1. \A k \in 1..last : more[k].units <= UnitLimit
      BY <1>4, <2>2, <2>6 DEF Within, last
    <3> QED BY <2>5, <3>1 DEF Within
  <2> QED BY <1>3, <1>4, <2>5, <2>7, <2>8 DEF E
<1>5. CASE ~(ms[last].units + NoteUnits <= UnitLimit) /\ NoteUnits <= UnitLimit
  <2>1. alone \in E /\ alone.items = <<>> /\ alone.units = NoteUnits
    BY <1>2, EmptySeq DEF Messages
  <2> HIDE DEF alone
  <2>2. Flat(apart) = Flat(ms)
    <3>1. Flat(ms) \in Seq(M) /\ Flat(apart) = Flat(ms) \o <<>>
      BY <2>1, FlatAppend
    <3> HIDE DEF apart
    <3> QED BY <3>1, ConcatEmptySeq
  <2>3. /\ apart \in Seq(E) /\ Len(apart) = last + 1 /\ apart[last + 1] = alone
        /\ \A k \in 1..last : apart[k] = ms[k]
    <3>1. ms \in Seq(E)
      OBVIOUS
    <3> HIDE DEF E
    <3> QED BY <2>1, <3>1, Appended
  <2> HIDE DEF apart, E
  <2>4. Within(apart)
    <3>1. \A k \in 1..Len(apart) : k = last + 1 \/ k \in 1..last
      BY <1>1, <2>3
    <3> QED BY <1>5, <2>1, <2>3, <3>1 DEF Within
  <2> QED BY <1>3, <1>5, <2>2, <2>3, <2>4 DEF E
<1> HIDE DEF more, apart
<1> QED BY <1>3, <1>4, <1>5

\* the packing of nothing
Start(first) ==
  first = [messages |-> <<>>, current |-> [units |-> HeaderUnits, items |-> <<>>],
           header |-> TRUE, omitted |-> <<>>]

\* What has been packed when all of s has.
LEMMA PackingRuns ==
  ASSUME NEW M, Sized(M), NEW s \in Seq(M), Once(s),
         NEW first, Start(first),
         NEW acc, acc = FoldLeft(Packed, first, s)
  PROVE  acc \in Packing(M) /\ Packs(acc, s, Len(s))
<1> DEFINE N == Len(s)
<1>1. N \in Nat /\ \A n \in 1..N : s[n] \in M
  OBVIOUS
<1>2. HeaderUnits \in Nat /\ HeaderUnits <= UnitLimit
  BY SelectionAssumption
<1>3. first \in Packing(M)
  <2>1. [units |-> HeaderUnits, items |-> <<>>] \in Messages(M)
    BY <1>2 DEF Messages
  <2>2. \A E : <<>> \in Seq(E)
    OBVIOUS
  <2> QED BY <2>1, <2>2 DEF Packing, Start
<1>4. Packs(first, s, 0)
  <2>1. Flow(first) = <<>>
    <3>1. <<>> \o <<>> = <<>>
      BY EmptySeq, ConcatEmptySeq
    <3> QED BY <3>1, FlatEmpty DEF Flow, Start
  <2>2. Shows(<<>>, <<>>, s, 0)
    BY DEF Shows, From, Ordered
  <2>3. Within(<<>>) /\ TooLong(<<>>, s, 0)
    BY DEF Within, TooLong, ToSet
  <2> QED BY <1>2, <2>1, <2>2, <2>3 DEF Packs, Start
<1>5. PICK f : PackedBy(f, M, first, s)
  BY <1>3, PackedRuns
<1>5a. /\ f \in [0..N -> Packing(M)] /\ f[0] = first
       /\ \A n \in 1..N : f[n] = Packed(f[n - 1], s[n])
       /\ acc = f[N]
  BY <1>5 DEF PackedBy
<1> DEFINE Good == {n \in 0..N : Packs(f[n], s, n)}
<1>6. 0 \in Good
  BY <1>1, <1>4, <1>5a
<1>7. ASSUME NEW n \in 0..(N - 1), n \in Good PROVE n + 1 \in Good
  <2>1. n + 1 \in 1..N /\ n + 1 \in 0..N /\ n \in 0..N /\ (n + 1) - 1 = n
    BY <1>1
  <2>2. f[n] \in Packing(M) /\ f[n + 1] = Packed(f[n], s[n + 1])
    BY <1>5a, <2>1
  <2>3. Packs(f[n], s, (n + 1) - 1)
    BY <1>7, <2>1
  <2>4. Packs(Packed(f[n], s[n + 1]), s, n + 1)
    BY <2>1, <2>2, <2>3, PackKeeps
  <2> QED BY <2>1, <2>2, <2>4
<1>8. 0..N \subseteq Good
  <2> HIDE DEF Good, N
  <2> QED BY <1>1, <1>6, <1>7, CountingTo
<1>9. N \in 0..N
  BY <1>1
<1> QED BY <1>5a, <1>8, <1>9

\* With the last message and the note, the digest shows what was packed.
LEMMA DigestPlaces ==
  ASSUME NEW M, Sized(M), selected \in Seq(M), Once(selected),
         NEW issues, digest = BuildDigest(selected, issues)
  PROVE  AllPlaced
<1> DEFINE first == [messages |-> <<>>, current |-> [units |-> HeaderUnits, items |-> <<>>],
                     header |-> TRUE, omitted |-> <<>>]
           acc == FoldLeft(Packed, first, selected)
           N == Len(selected)
           ms == IF acc.current.items # <<>> \/ acc.messages = <<>>
                 THEN Append(acc.messages, acc.current) ELSE acc.messages
<1>1. acc \in Packing(M) /\ Packs(acc, selected, N)
  <2>1. Start(first)
    BY DEF Start
  <2> HIDE DEF first
  <2> QED BY <2>1, PackingRuns
<1>2. /\ digest.messages = (IF issues \/ acc.omitted # <<>> THEN WithNote(ms) ELSE ms)
      /\ digest.omitted = acc.omitted
  BY DEF BuildDigest
<1> HIDE DEF acc
<1>3. /\ acc.messages \in Seq(Messages(M)) /\ acc.omitted \in Seq(M)
      /\ acc.current \in Messages(M) /\ acc.current.items \in Seq(M)
      /\ Flat(acc.messages) \in Seq(M) /\ Flow(acc) \in Seq(M)
  BY <1>1, PackParts
<1>4. /\ Shows(Flow(acc), acc.omitted, selected, N) /\ TooLong(acc.omitted, selected, N)
      /\ Within(acc.messages) /\ acc.current.units <= UnitLimit
  BY <1>1 DEF Packs
<1>5. ms \in Seq(Messages(M)) /\ ms # <<>> /\ Within(ms) /\ Flat(ms) = Flow(acc)
  <2>1. CASE acc.current.items # <<>> \/ acc.messages = <<>>
    <3> DEFINE E == Messages(M)
               a == acc.messages
               m == acc.current
    <3>1. a \in Seq(E) /\ m \in E /\ ms = Append(a, m)
      BY <1>3, <2>1
    <3>2. Flat(ms) = Flow(acc)
      BY <3>1, FlatAppend DEF Flow
    <3> HIDE DEF E, ms, a, m
    <3>3. /\ ms \in Seq(E) /\ Len(ms) = Len(a) + 1 /\ ms[Len(a) + 1] = m /\ Len(a) \in Nat
          /\ \A k \in 1..Len(a) : ms[k] = a[k]
      BY <3>1, Appended
    <3>4. \A k \in 1..Len(ms) : k = Len(a) + 1 \/ k \in 1..Len(a)
      BY <3>3
    <3>5. ms # <<>>
      BY <3>3, EmptySeq
    <3>6. Within(ms)
      BY <1>4, <3>3, <3>4 DEF Within, a, m
    <3> QED BY <3>2, <3>3, <3>5, <3>6 DEF E
  <2>2. CASE acc.current.items = <<>> /\ acc.messages # <<>>
    <3>1. Flow(acc) = Flat(acc.messages)
      BY <1>3, <2>2, ConcatEmptySeq DEF Flow
    <3> QED BY <1>3, <1>4, <2>2, <3>1
  <2> QED BY <2>1, <2>2
<1> HIDE DEF ms
<1>6. digest.messages \in Seq(Messages(M)) /\ Within(digest.messages) /\ Flat(digest.messages) = Flow(acc)
  BY <1>2, <1>5, NoteKept
<1>7. Shown = Flow(acc)
  BY <1>6 DEF Shown, Flat, Stories
<1>8. DOMAIN selected = 1..N /\ DOMAIN Shown = 1..Len(Shown) /\ DOMAIN digest.messages = 1..Len(digest.messages)
  BY <1>3, <1>6, <1>7, LenProperties
<1>9. /\ From(Shown, selected, N) /\ From(digest.omitted, selected, N) /\ Ordered(Shown, selected, N)
      /\ \A p \in 1..N : selected[p] \in ToSet(Shown) <=> selected[p] \notin ToSet(digest.omitted)
  BY <1>2, <1>4, <1>7 DEF Shows
<1>10. /\ \A x : x \in ToSet(selected) <=> \E n \in 1..N : selected[n] = x
       /\ \A x : x \in ToSet(Shown) <=> \E n \in 1..Len(Shown) : Shown[n] = x
       /\ \A x : x \in ToSet(digest.omitted) <=> \E n \in 1..Len(digest.omitted) : digest.omitted[n] = x
  BY <1>2, <1>3, <1>7, Members
<1>11. ToSet(Shown) \subseteq ToSet(selected) /\ ToSet(digest.omitted) \subseteq ToSet(selected)
  <2>1. \A n \in 1..Len(Shown) : \E p \in 1..N : Shown[n] = selected[p]
    BY <1>9 DEF From
  <2>2. \A n \in 1..Len(digest.omitted) : \E p \in 1..N : digest.omitted[n] = selected[p]
    BY <1>9 DEF From
  <2> QED BY <1>10, <2>1, <2>2
<1>12. ToSet(Shown) = ToSet(selected) \ ToSet(digest.omitted)
  BY <1>9, <1>10, <1>11
<1>13. AllShown
  BY <1>6, <1>8, <1>9, <1>11, <1>12 DEF AllShown, Ordered, Within
<1>14. OmittedAsTooLong
  BY <1>2, <1>4, <1>8 DEF OmittedAsTooLong, TooLong
<1> QED BY <1>13, <1>14 DEF AllPlaced

-----------------------------------------------------------------------------
(***************************************************************************)
(* The stages.                                                             *)
(***************************************************************************)
\* what has a topic and the fallback score is told apart by its key
LEMMA RankedWell ==
  ASSUME NEW S, S \subseteq Item,
         NEW worth, worth = {i \in {RankItem(i) : i \in FilterFresh(S)} : i.topic # 0 /\ i.score >= FallbackScore}
  PROVE  Distinct(worth) /\ Identified(worth) /\ \A i \in worth : i.topic # 0 /\ i.score >= FallbackScore
<1> DEFINE fresh == FilterFresh(S)
           ranked == {RankItem(i) : i \in fresh}
           f == [i \in fresh |-> RankItem(i)]
<1>1. fresh \subseteq FilterFresh(Item) /\ fresh \subseteq Item /\ fresh \subseteq ItemRecord
  BY ItemAssumption DEF FilterFresh
<1>2. IsFiniteSet(fresh)
  BY <1>1, FS_Subset, ItemAssumption
<1> HIDE DEF fresh
<1>3. IsFiniteSet(ranked)
  <2>1. f \in Surjection(fresh, ranked)
    BY DEF Surjection
  <2> HIDE DEF f, ranked
  <2> QED BY <1>2, <2>1, FS_Surjection
<1>4. worth \subseteq ranked /\ \A i \in worth : i.topic # 0 /\ i.score >= FallbackScore
  BY DEF fresh
<1>5. \A i \in worth : \E o \in fresh : i = RankItem(o)
  BY <1>4
<1>6. \A o \in fresh : /\ RankItem(o) \in Ranked /\ RankItem(o).id = o.id
                       /\ RankItem(o).url = o.url /\ RankItem(o).title = o.title
                       /\ RankItem(o).tokens = o.tokens /\ RankItem(o).key = o.key
  BY <1>1, RankTyped
<1>7. IsFiniteSet(worth)
  BY <1>3, <1>4, FS_Subset
<1>8. \A i \in worth : i \in Ranked
  BY <1>5, <1>6
<1>9. ASSUME NEW i \in worth, NEW j \in worth, QualityKey(i) = QualityKey(j)
      PROVE  i = j
  <2>1. PICK o \in fresh, p \in fresh : i = RankItem(o) /\ j = RankItem(p)
    BY <1>5
  <2>2. o \in FilterFresh(Item) /\ p \in FilterFresh(Item)
    BY <1>1
  <2>3. QualityKey(RankItem(o)) = QualityKey(RankItem(p))
    BY <1>9, <2>1
  <2>4. o = p
    BY <2>2, <2>3, ItemAssumption
  <2> QED BY <2>1, <2>4
<1>10. ASSUME NEW i \in worth, NEW j \in worth
       PROVE  /\ IsFiniteSet(i.tokens)
              /\ i.id = j.id => i.url = j.url /\ i.title = j.title /\ i.key = j.key
              /\ i.title = j.title => i.tokens = j.tokens
              /\ i.key = j.key => i.tokens \subseteq j.tokens \/ j.tokens \subseteq i.tokens
  <2>1. PICK o \in fresh, p \in fresh : i = RankItem(o) /\ j = RankItem(p)
    BY <1>5
  <2>2. o \in Item /\ p \in Item
    BY <1>1
  <2>3. /\ IsFiniteSet(o.tokens)
        /\ o.id = p.id => o.url = p.url /\ o.title = p.title /\ o.key = p.key
        /\ o.title = p.title => o.tokens = p.tokens
        /\ o.key = p.key => o.tokens \subseteq p.tokens \/ p.tokens \subseteq o.tokens
    BY <2>2, ItemAssumption
  <2> QED BY <1>6, <2>1, <2>3
<1>11. Distinct(worth)
  BY <1>7, <1>8, <1>9 DEF Distinct
<1>12. Identified(worth)
  BY <1>10 DEF Identified
<1> QED BY <1>4, <1>11, <1>12

\* what each stage has computed from the one before
Deduplicated == Worth /\ unique = Deduplicate(items)
Chosen == selected = SelectDigest(unique, sent.urls, sent.keys)
Written == digest = BuildDigest(selected, ok # Source)

PipeInv ==
  /\ stage \in {"collect", "parse", "rank", "select", "build", "built", "retry"}
  /\ ok \subseteq Source
  /\ stage = "rank" => items \subseteq Item
  /\ stage \in {"select", "build", "built"} => Deduplicated
  /\ IF stage \in {"build", "built"} THEN Chosen ELSE selected = <<>>
  /\ stage = "built" => Written

\* a stage writes its own variables and reads those before
LEMMA PipeStep ==
  ASSUME PipeInv, [Next]_vars
  PROVE  PipeInv'
<1>1. CASE Collecting
  BY <1>1 DEF Collecting, dataVars, PipeInv, Deduplicated, Worth, Chosen, Written
<1>2. CASE Collected
  BY <1>2 DEF Collected, PipeInv
<1>3. CASE Parse
  <2>1. items' \subseteq Item
    BY <1>3 DEF Parse, kSubset
  <2> QED BY <1>3, <2>1 DEF Parse, PipeInv
<1>4. CASE Rank
  <2>1. items \subseteq Item
    BY <1>4 DEF Rank, PipeInv
  <2>2. /\ items' = {i \in {RankItem(i) : i \in FilterFresh(items)} : i.topic # 0 /\ i.score >= FallbackScore}
        /\ unique' = Deduplicate(items')
    BY <1>4 DEF Rank
  <2>3. Distinct(items') /\ Identified(items') /\ \A i \in items' : i.topic # 0 /\ i.score >= FallbackScore
    BY <2>1, <2>2, RankedWell
  <2>4. Deduplicated'
    BY <2>2, <2>3 DEF Deduplicated, Worth
  <2> QED BY <1>4, <2>4 DEF Rank, PipeInv
<1>5. CASE Select
  <2>1. PICK urls, keys :
          /\ sent' = [urls |-> urls, keys |-> keys]
          /\ selected' = SelectDigest(unique, urls, keys)
    BY <1>5 DEF Select
  <2>2. UNCHANGED <<ok, items, unique>> /\ stage = "select" /\ stage' = "build"
    BY <1>5 DEF Select
  <2>3. Chosen'
    BY <2>1, <2>2 DEF Chosen
  <2>4. Deduplicated'
    BY <2>2 DEF PipeInv, Deduplicated, Worth
  <2> QED BY <2>2, <2>3, <2>4 DEF PipeInv
<1>6. CASE Build
  <2>1. UNCHANGED <<ok, items, unique, sent, selected>> /\ stage = "build" /\ stage' = "built"
    BY <1>6 DEF Build
  <2>2. Deduplicated' /\ Chosen'
    BY <2>1 DEF PipeInv, Deduplicated, Worth, Chosen
  <2>3. Written'
    BY <1>6 DEF Build, Written
  <2> QED BY <2>1, <2>2, <2>3 DEF PipeInv
<1>7. CASE UNCHANGED vars
  BY <1>7 DEF vars, dataVars, PipeInv, Deduplicated, Worth, Chosen, Written
<1> QED BY <1>1, <1>2, <1>3, <1>4, <1>5, <1>6, <1>7 DEF Next, Done

LEMMA PipeAlways == Spec => []PipeInv
<1>1. PipelineInit => PipeInv
  BY DEF PipelineInit, PipeInv
<1>2. PipeInv /\ [Next]_vars => PipeInv'
  BY PipeStep
<1> QED BY <1>1, <1>2, PTL DEF Spec

\* Whatever is collected and however small the budgets of candidates and
\* comparisons: every item worth a place has, over a chain of at most three
\* copies, one left, and those left are not copies by url or title, nor by
\* likeness unless the budget ended (CopiesAndOnlyCopies).
THEOREM OnlyCopiesDropped == Spec => []CopiesAndOnlyCopies
<1>1. ASSUME PipeInv PROVE CopiesAndOnlyCopies
  <2>1. CASE stage \in {"select", "build", "built"}
    BY <1>1, <2>1, CopiesDropped DEF PipeInv, Deduplicated
  <2>2. CASE stage \notin {"select", "build", "built"}
    BY <2>2 DEF CopiesAndOnlyCopies, NothingVanishes, NoCopies
  <2> QED BY <2>1, <2>2
<1> QED BY <1>1, PipeAlways, PTL

\* Whatever the limits, the history and the items: no story chosen by either
\* pass is stale or has a url or key of the history; no two have one title, nor
\* one key unless deduplication's budget ended or a headline has no token, and
\* then the second is of the first pass.  None that could have been chosen is
\* left out but for better ones that fill the digest, its topic or its domain,
\* for the quality floor once daily_min is reached, or for one of its key
\* (SelectionJustified).
THEOREM SelectionIsJustified == Spec => []SelectionJustified
<1>1. ASSUME PipeInv PROVE SelectionJustified
  <2>1. CASE stage \in {"build", "built"}
    BY <1>1, <2>1, SelectJustifies DEF PipeInv, Deduplicated, Chosen
  <2>2. CASE stage \notin {"build", "built"}
    <3>1. selected = <<>> /\ DOMAIN selected = {}
      BY <1>1, <2>2 DEF PipeInv
    <3> QED BY <2>2, <3>1 DEF SelectionJustified, LeftOutForBetter, DigestIsFresh, NoStoryTwice
  <2> QED BY <2>1, <2>2
<1> QED BY <1>1, PipeAlways, PTL

\* Whatever the sizes of blocks, header, continuation and note: every story
\* selected is shown once and in order or reported as omitted, no message
\* exceeds the limit, and what is omitted is too long for a message of its
\* own, or does not fit the header with nothing placed before it (AllPlaced).
THEOREM StoriesPlaced == Spec => []AllPlaced
<1>1. ASSUME PipeInv PROVE AllPlaced
  <2>1. CASE stage = "built"
    <3>1. /\ selected \in Seq(unique) /\ unique \subseteq Ranked
          /\ \A m, n \in 1..Len(selected) : selected[m] = selected[n] => m = n
      BY <1>1, <2>1, SelectJustifies DEF PipeInv, Deduplicated, Chosen
    <3>2. Sized(unique)
      BY <3>1, RankedFields DEF Sized
    <3>3. Once(selected)
      BY <3>1 DEF Once
    <3> QED BY <1>1, <2>1, <3>1, <3>2, <3>3, DigestPlaces DEF PipeInv, Written
  <2>2. CASE stage # "built"
    BY <2>2 DEF AllPlaced, AllShown, OmittedAsTooLong
  <2> QED BY <2>1, <2>2
<1> QED BY <1>1, PipeAlways, PTL

\* The type invariant: in particular the digest is made of stories that
\* deduplication has left (TypeOK).
THEOREM PipelineTypeOK == Spec => []TypeOK
<1>1. ASSUME PipeInv, CollectInv PROVE TypeOK
  <2>1. ToSet(selected) \subseteq unique
    <3>1. CASE stage \in {"build", "built"}
      <4>1. selected \in Seq(unique)
        BY <1>1, <3>1, SelectJustifies DEF PipeInv, Deduplicated, Chosen
      <4> QED BY <4>1, Members
    <3>2. CASE stage \notin {"build", "built"}
      <4>1. selected = <<>>
        BY <1>1, <3>2 DEF PipeInv
      <4> QED BY <4>1 DEF ToSet
    <3> QED BY <3>1, <3>2
  <2> QED BY <1>1, <2>1 DEF PipeInv, CollectInv, TypeOK
<1> QED BY <1>1, PipeAlways, CollectAlways, PTL
=============================================================================
