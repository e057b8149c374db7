-------------------------- MODULE RunScheduler_proofs --------------------------
(***************************************************************************)
(* The scheduler of agent-api keeps its promises for every set of jobs,     *)
(* every assignment of session keys and every limit.                       *)
(***************************************************************************)
EXTENDS RunScheduler, FiniteSetTheorems, WellFoundedInduction, TLAPS

\* A non-empty set of naturals has a least element.  (The initial segments
\* 0..x are well-founded under inclusion.)
LEMMA LeastNatural ==
  ASSUME NEW T, T \subseteq Nat, T # {}
  PROVE  \E x \in T : \A y \in T : x <= y
<1> DEFINE R == StrictSubsetOrdering(Nat)
           U == {0..x : x \in T}
<1>1. IsWellFoundedOn(R, FiniteSubsetsOf(Nat))
  BY FS_StrictSubsetOrderingWellFounded
<1>2. U \subseteq FiniteSubsetsOf(Nat) /\ U # {}
  <2>1. ASSUME NEW x \in T  PROVE 0..x \in FiniteSubsetsOf(Nat)
    <3>1. IsFiniteSet(0..x)
      BY FS_Interval
    <3>2. 0..x \in SUBSET Nat
      OBVIOUS
    <3> QED BY <3>1, <3>2 DEF FiniteSubsetsOf
  <2>2. PICK x \in T : TRUE
    OBVIOUS
  <2> QED BY <2>1, <2>2
<1>3. PICK u \in U : \A v \in U : ~(<<v, u>> \in R)
  <2> HIDE DEF R, U
  <2> QED BY <1>1, <1>2, WFMin
<1>4. PICK x \in T : u = 0..x
  OBVIOUS
<1>5. ASSUME NEW y \in T  PROVE x <= y
  <2>1. SUFFICES ASSUME y < x PROVE FALSE
    OBVIOUS
  <2>2. 0..y \subseteq 0..x /\ 0..y # 0..x
    <3>1. x \in 0..x /\ x \notin 0..y
      BY <2>1
    <3> QED BY <3>1, <2>1
  <2>3. <<0..y, 0..x>> \in R
    BY <2>2 DEF StrictSubsetOrdering
  <2> QED BY <2>3, <1>3, <1>4
<1> QED BY <1>5

\* A non-empty queue has a first job.
LEMMA FirstTicket ==
  ASSUME NEW W, W # {}, NEW tk, \A j \in W : tk[j] \in Nat
  PROVE  \E x \in W : \A y \in W : tk[x] <= tk[y]
<1> DEFINE T == {tk[j] : j \in W}
<1>1. T \subseteq Nat /\ T # {}
  OBVIOUS
<1>2. PICK t \in T : \A u \in T : t <= u
  <2> HIDE DEF T
  <2> QED BY <1>1, LeastNatural
<1> QED BY <1>2

-----------------------------------------------------------------------------
\* With no slot the loop of drain starts nothing.
LEMMA NoSlot ==
  ASSUME NEW W, IsFiniteSet(W), NEW tk, NEW keys
  PROVE  Started(W, tk, Limit, keys) = {}
<1> DEFINE C == Startable(W, tk, keys)
<1>1. ASSUME NEW j \in C
      PROVE  ~(Cardinality({i \in C : tk[i] < tk[j]}) < Limit - Limit)
  <2>1. IsFiniteSet({i \in C : tk[i] < tk[j]})
    BY FS_Subset DEF Startable
  <2> QED BY <2>1, FS_CardinalityType, LimitAssumption
<1> QED BY <1>1 DEF Started

\* With one slot, or with at most one startable job, the loop of drain starts
\* the first startable job and nothing else; if it starts nothing, every job
\* of the queue waits for its own session.
LEMMA OneStart ==
  ASSUME NEW W, IsFiniteSet(W),
         NEW tk, \A j \in W : tk[j] \in Nat,
         \A i, j \in W : tk[i] = tk[j] => i = j,
         NEW a \in Nat, a < Limit, NEW keys,
         \/ Limit - a = 1
         \/ \A i, j \in Startable(W, tk, keys) : i = j
  PROVE  \/ /\ Started(W, tk, a, keys) = {}
            /\ \A j \in W : ~KeyFree(j, keys)
         \/ \E x \in Startable(W, tk, keys) :
              /\ Started(W, tk, a, keys) = {x}
              /\ \A j \in W : KeyFree(j, keys) => tk[x] <= tk[j]
<1> DEFINE C == Startable(W, tk, keys)
           Before(j) == {i \in C : tk[i] < tk[j]}
<1>1. C \subseteq W /\ IsFiniteSet(C)
  BY FS_Subset DEF Startable
<1>2. \A j \in C : IsFiniteSet(Before(j)) /\ Cardinality(Before(j)) \in Nat
  BY <1>1, FS_Subset, FS_CardinalityType
<1>3. ASSUME NEW j \in W, KeyFree(j, keys)
      PROVE  \E x \in C : tk[x] <= tk[j]
  <2>1. CASE KeyOf[j] = NoKey
    BY <2>1, <1>3 DEF Startable
  <2>2. CASE KeyOf[j] # NoKey
    <3> DEFINE S == {i \in W : KeyOf[i] = KeyOf[j]}
    <3>1. PICK x \in S : \A y \in S : tk[x] <= tk[y]
      <4>1. S # {} /\ \A i \in S : tk[i] \in Nat
        OBVIOUS
      <4> HIDE DEF S
      <4> QED BY <4>1, FirstTicket
    <3>2. x \in C
      BY <3>1, <1>3 DEF Startable, KeyFree
    <3> QED BY <3>1, <3>2
  <2> QED BY <2>1, <2>2
<1>4. CASE C = {}
  <2>1. Started(W, tk, a, keys) = {}
    BY <1>4 DEF Started
  <2> QED BY <2>1, <1>3, <1>4
<1>5. CASE C # {}
  <2>1. PICK x \in C : \A y \in C : tk[x] <= tk[y]
    <3>1. \A j \in C : tk[j] \in Nat
      BY <1>1
    <3> HIDE DEF C
    <3> QED BY <3>1, <1>5, FirstTicket
  <2>2. Cardinality(Before(x)) < Limit - a
    <3>1. Before(x) = {}
      BY <2>1, <1>1
    <3>2. Cardinality(Before(x)) = 0
      BY <3>1, FS_EmptySet
    <3> QED BY <3>2, LimitAssumption
  <2>3. ASSUME NEW y \in C, Cardinality(Before(y)) < Limit - a
        PROVE  y = x
    <3>1. CASE \A i, j \in C : i = j
      BY <3>1
    <3>2. CASE Limit - a = 1
      <4>1. Cardinality(Before(y)) = 0
        BY <1>2, <2>3, <3>2, LimitAssumption
      <4>2. Before(y) = {}
        BY <4>1, <1>2, FS_EmptySet
      <4>3. ~(tk[x] < tk[y])
        BY <4>2
      <4> QED BY <4>3, <2>1, <1>1
    <3> QED BY <3>1, <3>2
  <2>4. Started(W, tk, a, keys) = {x}
    BY <2>2, <2>3 DEF Started
  <2>5. \A j \in W : KeyFree(j, keys) => tk[x] <= tk[j]
    <3> SUFFICES ASSUME NEW j \in W, KeyFree(j, keys)  PROVE tk[x] <= tk[j]
      OBVIOUS
    <3>1. PICK y \in C : tk[y] <= tk[j]
      BY <1>3
    <3> QED BY <3>1, <2>1, <1>1
  <2> QED BY <2>4, <2>5
<1> QED BY <1>4, <1>5

-----------------------------------------------------------------------------
\* The queue w, the tasks r that run and the settled ones d, as drain finds
\* them: what it needs to know of them to restore the invariant.
Drainable(w, r, d, tk, a, keys, ph) ==
  /\ w \subseteq Jobs /\ r \subseteq Jobs /\ d \subseteq Jobs
  /\ w \cap r = {} /\ w \cap d = {} /\ r \cap d = {}
  /\ IsFiniteSet(w) /\ IsFiniteSet(r)
  /\ tk \in [Jobs -> Nat]
  /\ \A i, j \in w : tk[i] = tk[j] => i = j
  /\ a = Cardinality(r) /\ a <= Limit
  /\ keys = {KeyOf[j] : j \in r} \ {NoKey}
  /\ \A i, j \in r : (KeyOf[i] = KeyOf[j] /\ KeyOf[i] # NoKey) => i = j
  /\ \A i \in w, j \in r \cup d : KeyOf[i] = KeyOf[j] => tk[j] < tk[i]
  /\ ph \in [Jobs -> Phases]
  /\ \A j \in Jobs \ w :
       /\ ph[j] = "running" <=> j \in r
       /\ ph[j] \in Outcomes <=> j \in d
       /\ ph[j] # "waiting"
  /\ \/ Limit - a <= 1
     \/ \A i, j \in Startable(w, tk, keys) : i = j

\* What drain establishes: the accounts are right, sessions exclusive and in
\* order, and no startable job is left behind.
Drained ==
  /\ phase \in [Jobs -> Phases]
  /\ active \in Nat
  /\ activeKeys \subseteq Keys
  /\ IsFiniteSet(Waiting)
  /\ SlotsAccounted
  /\ SessionExclusive
  /\ FifoPerKey
  /\ WorkConserving

\* drain starts at most one job, and leaves the scheduler drained; the jobs
\* outside the queue keep their phase.
LEMMA DrainRestores ==
  ASSUME NEW w, NEW r, NEW d, NEW a, NEW keys, NEW ph, NEW tk,
         Drainable(w, r, d, tk, a, keys, ph),
         ticket' = tk, Drain(w, tk, a, keys, ph)
  PROVE  /\ Drained'
         /\ \A j \in Jobs \ w : phase'[j] = ph[j]
         /\ \A j \in w : phase'[j] \in {"waiting", "running"}
<1> DEFINE s == Started(w, tk, a, keys)
<1>0. /\ a \in Nat /\ Limit \in Nat /\ a <= Limit
      /\ keys \subseteq Keys
      /\ \A j \in w : tk[j] \in Nat
  BY FS_CardinalityType, LimitAssumption, KeyAssumption DEF Drainable
<1>1. s \subseteq w
  BY DEF Started, Startable
<1>2. /\ \A j \in Jobs \ w : phase'[j] = ph[j]
      /\ \A j \in s : phase'[j] = "running"
      /\ \A j \in w \ s : phase'[j] = "waiting"
      /\ phase' \in [Jobs -> Phases]
  <2> HIDE DEF s
  <2> QED BY <1>1 DEF Drain, Drainable, Phases, s
<1>3. Running' = r \cup s /\ Waiting' = w \ s /\ Settled' = d
  <2>1. \A j \in Jobs : /\ phase'[j] = "running" <=> j \in r \cup s
                        /\ phase'[j] = "waiting" <=> j \in w \ s
                        /\ phase'[j] \in Outcomes <=> j \in d
    <3> HIDE DEF s
    <3>1. ASSUME NEW j \in Jobs \ w
          PROVE  /\ phase'[j] = "running" <=> j \in r
                 /\ phase'[j] # "waiting"
                 /\ phase'[j] \in Outcomes <=> j \in d
      <4>1. /\ ph[j] = "running" <=> j \in r
            /\ ph[j] \in Outcomes <=> j \in d
            /\ ph[j] # "waiting"
        BY <3>1 DEF Drainable
      <4>2. phase'[j] = ph[j]
        BY <3>1, <1>2
      <4> QED BY <4>1, <4>2
    <3>2. ASSUME NEW j \in w  PROVE j \notin r /\ j \notin d /\ j \in Jobs
      BY DEF Drainable
    <3>3. ASSUME NEW j \in w
          PROVE  /\ phase'[j] = "running" <=> j \in s
                 /\ phase'[j] = "waiting" <=> j \in w \ s
                 /\ phase'[j] \notin Outcomes
      BY <1>2 DEF Outcomes
    <3> QED BY <3>1, <3>2, <3>3, <1>1
  <2> HIDE DEF s
  <2> QED BY <2>1, <1>1 DEF Running, Waiting, Settled, Drainable
<1>4. active' = a + Cardinality(s) /\ activeKeys' = keys \cup ({KeyOf[j] : j \in s} \ {NoKey})
  BY DEF Drain
<1>5. \/ s = {} /\ (a < Limit => \A j \in w : ~KeyFree(j, keys))
      \/ /\ a < Limit
         /\ \E x \in Startable(w, tk, keys) :
              /\ s = {x}
              /\ \A j \in w : KeyFree(j, keys) => tk[x] <= tk[j]
  <2>1. CASE a = Limit
    <3>1. IsFiniteSet(w)
      BY DEF Drainable
    <3>2. s = {}
      BY <2>1, <3>1, NoSlot
    <3> QED BY <2>1, <3>2, <1>0
  <2>2. CASE a < Limit
    <3>1. Limit - a = 1 \/ \A i, j \in Startable(w, tk, keys) : i = j
      BY <2>2, <1>0 DEF Drainable
    <3>2. IsFiniteSet(w) /\ \A i, j \in w : tk[i] = tk[j] => i = j
      BY DEF Drainable
    <3>3. \/ s = {} /\ (\A j \in w : ~KeyFree(j, keys))
          \/ \E x \in Startable(w, tk, keys) :
               /\ s = {x}
               /\ \A j \in w : KeyFree(j, keys) => tk[x] <= tk[j]
      <4> HIDE DEF s
      <4> QED BY <3>1, <3>2, <2>2, <1>0, OneStart DEF s
    <3> HIDE DEF s
    <3> QED BY <3>3, <2>2
  <2>3. a = Limit \/ a < Limit
    BY <1>0
  <2> HIDE DEF s
  <2> QED BY <2>1, <2>2, <2>3
<1>6. IsFiniteSet(Waiting')
  <2>1. IsFiniteSet(w) /\ w \ s \in SUBSET w
    BY DEF Drainable
  <2>2. IsFiniteSet(w \ s)
    BY <2>1, FS_Subset
  <2> QED BY <2>2, <1>3
<1> HIDE DEF s
<1>7. CASE s = {} /\ (a < Limit => \A j \in w : ~KeyFree(j, keys))
  <2>1. Running' = r /\ Waiting' = w /\ active' = a /\ activeKeys' = keys
    BY <1>3, <1>4, <1>7, <1>0, FS_EmptySet
  <2>2. SlotsAccounted' /\ SessionExclusive'
    BY <2>1 DEF SlotsAccounted, SessionExclusive, Drainable
  <2>3. FifoPerKey'
    BY <2>1, <1>3 DEF FifoPerKey, Drainable
  <2>4. WorkConserving'
    BY <2>1, <1>7 DEF WorkConserving, KeyFree
  <2> QED BY <2>1, <2>2, <2>3, <2>4, <1>0, <1>1, <1>2, <1>6 DEF Drained
<1>8. ASSUME a < Limit,
             NEW x \in Startable(w, tk, keys), s = {x},
             \A j \in w : KeyFree(j, keys) => tk[x] <= tk[j]
      PROVE  Drained'
  <2>1. /\ x \in w /\ KeyFree(x, keys)
        /\ \A i \in w : (KeyOf[i] = KeyOf[x] /\ KeyOf[x] # NoKey) => tk[x] <= tk[i]
    BY DEF Startable
  <2>2. Running' = r \cup {x} /\ x \notin r /\ Waiting' = w \ {x}
    BY <1>3, <1>8, <2>1 DEF Drainable
  <2>3. active' = a + 1 /\ activeKeys' = keys \cup ({KeyOf[x]} \ {NoKey})
    BY <1>4, <1>8, FS_Singleton
  <2>4. SlotsAccounted'
    <3>1. IsFiniteSet(r \cup {x}) /\ Cardinality(r \cup {x}) = Cardinality(r) + 1
      BY <2>2, FS_AddElement DEF Drainable
    <3> QED BY <3>1, <2>2, <2>3, <1>0, <1>8 DEF SlotsAccounted, Drainable
  <2>5. SessionExclusive'
    <3>1. activeKeys' = {KeyOf[j] : j \in Running'} \ {NoKey}
      BY <2>2, <2>3 DEF Drainable
    <3>2. \A j \in r : KeyOf[j] = KeyOf[x] => KeyOf[x] = NoKey
      BY <2>1 DEF Drainable, KeyFree
    <3> QED BY <3>1, <3>2, <2>2 DEF SessionExclusive, Drainable
  <2>6. FifoPerKey'
    <3>1. ASSUME NEW i \in w \ {x}, KeyOf[i] = KeyOf[x]
          PROVE  tk[x] < tk[i]
      <4>1. tk[x] <= tk[i]
        BY <3>1, <2>1, <1>8 DEF KeyFree
      <4>2. tk[x] # tk[i]
        BY <3>1, <2>1 DEF Drainable
      <4> QED BY <4>1, <4>2, <2>1, <1>0
    <3> QED BY <3>1, <2>2, <1>3 DEF FifoPerKey, Drainable
  <2>7. WorkConserving'
    <3>1. CASE Limit - a <= 1
      BY <3>1, <2>3, <1>0, <1>8 DEF WorkConserving
    <3>2. CASE \A i, j \in Startable(w, tk, keys) : i = j
      <4> SUFFICES ASSUME NEW j \in w \ {x}, KeyFree(j, activeKeys')  PROVE FALSE
        BY <2>2 DEF WorkConserving, KeyFree
      <4>1. KeyFree(j, keys)
        BY <2>3 DEF KeyFree
      <4>2. KeyOf[j] # NoKey => KeyOf[j] # KeyOf[x]
        BY <2>3 DEF KeyFree
      <4> DEFINE S == {i \in w : KeyOf[i] = KeyOf[j]}
      <4>3. PICK y \in S : \A z \in S : tk[y] <= tk[z]
        <5>1. S # {} /\ \A i \in S : tk[i] \in Nat
          BY <1>0
        <5> HIDE DEF S
        <5> QED BY <5>1, FirstTicket
      <4>4. CASE KeyOf[j] = NoKey
        <5>1. j \in Startable(w, tk, keys)
          BY <4>4 DEF Startable, KeyFree
        <5> QED BY <5>1, <3>2
      <4>5. CASE KeyOf[j] # NoKey
        <5>1. y \in Startable(w, tk, keys)
          BY <4>1, <4>3, <4>5 DEF Startable, KeyFree
        <5>2. y = x
          BY <5>1, <3>2
        <5> QED BY <5>2, <4>2, <4>3, <4>5
      <4> QED BY <4>4, <4>5
    <3> QED BY <3>1, <3>2 DEF Drainable
  <2>8. active' \in Nat /\ activeKeys' \subseteq Keys
    BY <2>1, <2>3, <1>0, KeyAssumption DEF Drainable
  <2> QED BY <2>4, <2>5, <2>6, <2>7, <2>8, <1>2, <1>6 DEF Drained
<1>9. Drained'
  BY <1>5, <1>7, <1>8
<1>10. \A j \in w : phase'[j] \in {"waiting", "running"}
  BY <1>2
<1> QED BY <1>2, <1>9, <1>10

-----------------------------------------------------------------------------
\* The initial state satisfies the inductive invariant.
LEMMA InitInv == Init => IndInv
<1> SUFFICES ASSUME Init PROVE IndInv
  OBVIOUS
<1>1. Running = {} /\ Waiting = {} /\ Settled = {}
  BY DEF Init, Running, Waiting, Settled, Outcomes
<1>2. TypeOK
  BY DEF Init, TypeOK, Phases
<1>3. SlotsAccounted /\ SessionExclusive
  BY <1>1, FS_EmptySet, LimitAssumption DEF SlotsAccounted, SessionExclusive, Init
<1>4. FifoPerKey /\ WorkConserving /\ TicketsOrdered /\ OneChildPerPermit
  BY <1>1, FS_EmptySet
  DEF Init, FifoPerKey, WorkConserving, TicketsOrdered, OneChildPerPermit
<1> QED BY <1>2, <1>3, <1>4 DEF IndInv

\* Submitting a job: only the job itself can be startable, for WorkConserving
\* says that every other one waits for its session or that no slot is free.
LEMMA RunInv ==
  ASSUME IndInv, NEW j \in Jobs, Run(j)
  PROVE  IndInv'
<1> DEFINE w == Waiting \cup {j}
<1>0. /\ TypeOK /\ TicketsOrdered /\ SlotsAccounted /\ SessionExclusive
      /\ FifoPerKey /\ WorkConserving /\ OneChildPerPermit
  BY DEF IndInv
<1>1. /\ phase[j] = "new" /\ ticket[j] = 0
      /\ pushes' = pushes + 1 /\ pushes \in Nat
      /\ ticket' = [ticket EXCEPT ![j] = pushes + 1]
      /\ ticket' \in [Jobs -> Nat]
      /\ \A i \in Jobs \ {j} : ticket'[i] = ticket[i]
      /\ ticket'[j] = pushes + 1
      /\ UNCHANGED <<childActive, children, refused>>
  BY <1>0 DEF Run, TypeOK, TicketsOrdered, permits
<1>2. Drain(w, ticket', active, activeKeys, phase)
  BY DEF Run
<1>3. Drainable(w, Running, Settled, ticket', active, activeKeys, phase)
  <2>1. /\ w \subseteq Jobs /\ Running \subseteq Jobs /\ Settled \subseteq Jobs
        /\ w \cap Running = {} /\ w \cap Settled = {} /\ Running \cap Settled = {}
    BY <1>1 DEF Waiting, Running, Settled, Outcomes
  <2>2. IsFiniteSet(w) /\ IsFiniteSet(Running)
    BY <1>0, FS_AddElement DEF TicketsOrdered, SlotsAccounted
  <2>3. \A i, k \in w : ticket'[i] = ticket'[k] => i = k
    <3>1. \A i \in Waiting : i # j /\ ticket[i] # 0 /\ ticket[i] <= pushes /\ ticket[i] \in Nat
      BY <1>0, <1>1 DEF Waiting, TicketsOrdered, TypeOK
    <3>2. \A i, k \in Waiting : ticket[i] = ticket[k] => i = k
      BY <1>0, <3>1 DEF Waiting, TicketsOrdered
    <3> QED BY <3>1, <3>2, <1>1 DEF Waiting
  <2>4. /\ active = Cardinality(Running) /\ active <= Limit
        /\ activeKeys = {KeyOf[i] : i \in Running} \ {NoKey}
        /\ \A i, k \in Running : (KeyOf[i] = KeyOf[k] /\ KeyOf[i] # NoKey) => i = k
    BY <1>0 DEF SlotsAccounted, SessionExclusive
  <2>5. \A i \in w, k \in Running \cup Settled :
           KeyOf[i] = KeyOf[k] => ticket'[k] < ticket'[i]
    <3>1. \A k \in Running \cup Settled : k # j /\ k \in Jobs
      BY <1>1 DEF Running, Settled, Outcomes
    <3>2. \A k \in Jobs : ticket[k] <= pushes /\ ticket[k] \in Nat
      BY <1>0 DEF TicketsOrdered, TypeOK
    <3>3. \A i \in Waiting : i # j /\ i \in Jobs
      BY <1>1 DEF Waiting
    <3>4. ASSUME NEW k \in Running \cup Settled  PROVE ticket'[k] < ticket'[j]
      BY <3>1, <3>2, <1>1
    <3>5. ASSUME NEW i \in Waiting, NEW k \in Running \cup Settled, KeyOf[i] = KeyOf[k]
          PROVE  ticket'[k] < ticket'[i]
      BY <3>1, <3>3, <3>5, <1>0, <1>1 DEF FifoPerKey
    <3> QED BY <3>4, <3>5
  <2>6. /\ phase \in [Jobs -> Phases]
        /\ \A i \in Jobs \ w :
             /\ phase[i] = "running" <=> i \in Running
             /\ phase[i] \in Outcomes <=> i \in Settled
             /\ phase[i] # "waiting"
    BY <1>0 DEF TypeOK, Waiting, Running, Settled
  <2>7. \/ Limit - active <= 1
        \/ \A i, k \in Startable(w, ticket', activeKeys) : i = k
    <3>1. active \in Nat /\ Limit \in Nat
      BY <1>0, LimitAssumption DEF TypeOK
    <3>2. CASE active < Limit
      <4>1. ASSUME NEW i \in Startable(w, ticket', activeKeys)  PROVE i = j
        BY <3>2, <1>0 DEF WorkConserving, Startable
      <4> QED BY <4>1
    <3>3. CASE ~(active < Limit)
      BY <3>1, <3>3
    <3> QED BY <3>2, <3>3
  <2> QED BY <2>1, <2>2, <2>3, <2>4, <2>5, <2>6, <2>7, <1>1 DEF Drainable
<1>4. /\ Drained'
      /\ \A i \in Jobs \ w : phase'[i] = phase[i]
      /\ \A i \in w : phase'[i] \in {"waiting", "running"}
  <2> HIDE DEF w
  <2> QED BY <1>2, <1>3, DrainRestores
<1>5. TypeOK'
  <2>1. queued' \subseteq Jobs
    BY <1>0 DEF Run, TypeOK
  <2> QED BY <2>1, <1>0, <1>1, <1>4 DEF TypeOK, Drained
<1>6. TicketsOrdered'
  <2>1. \A i \in Jobs : phase'[i] = "new" <=> ticket'[i] = 0
    <3>1. ASSUME NEW i \in w  PROVE phase'[i] # "new" /\ ticket'[i] # 0
      BY <1>0, <1>1, <1>4 DEF Waiting, TicketsOrdered, TypeOK
    <3>2. ASSUME NEW i \in Jobs \ w  PROVE phase'[i] = "new" <=> ticket'[i] = 0
      BY <1>0, <1>1, <1>4 DEF TicketsOrdered
    <3> QED BY <3>1, <3>2
  <2>2. \A i \in Jobs : ticket[i] <= pushes /\ ticket[i] \in Nat
    BY <1>0 DEF TicketsOrdered, TypeOK
  <2>3. \A i \in Jobs : ticket'[i] <= pushes'
    BY <2>2, <1>1
  <2>4. \A i, k \in Jobs : ticket'[i] = ticket'[k] /\ ticket'[i] # 0 => i = k
    <3>1. ASSUME NEW i \in Jobs \ {j}, NEW k \in Jobs \ {j}, ticket'[i] = ticket'[k], ticket'[i] # 0
          PROVE  i = k
      BY <3>1, <1>0, <1>1 DEF TicketsOrdered
    <3>2. ASSUME NEW i \in Jobs \ {j}  PROVE ticket'[i] # ticket'[j]
      BY <2>2, <1>1
    <3> QED BY <3>1, <3>2
  <2> QED BY <2>1, <2>3, <2>4, <1>4 DEF TicketsOrdered, Drained
<1>7. OneChildPerPermit'
  BY <1>0, <1>1, <1>4 DEF OneChildPerPermit, Running, Waiting, Drained, TypeOK
<1> QED BY <1>4, <1>5, <1>6, <1>7 DEF IndInv, Drained

\* A settled task frees a slot and its key.  If the slots were full, one job
\* may take the free one; if they were not, every waiting job waits for its
\* session, so only the turns of the freed session can start.
LEMMA CompleteInv ==
  ASSUME IndInv, NEW j \in Jobs, NEW outcome \in Outcomes, Complete(j, outcome)
  PROVE  IndInv'
<1> DEFINE r == Running \ {j}
           d == Settled \cup {j}
           keys == activeKeys \ {KeyOf[j]}
           ph == [phase EXCEPT ![j] = outcome]
<1>0. /\ TypeOK /\ TicketsOrdered /\ SlotsAccounted /\ SessionExclusive
      /\ FifoPerKey /\ WorkConserving /\ OneChildPerPermit
  BY DEF IndInv
<1>1. /\ phase[j] = "running" /\ j \in Running /\ children[j] = 0
      /\ ticket' = ticket /\ pushes' = pushes /\ queued' = queued
      /\ UNCHANGED <<childActive, children, refused>>
  BY DEF Complete, permits, Running
<1>2. Drain(Waiting, ticket, active - 1, keys, ph)
  BY DEF Complete
<1>3. Drainable(Waiting, r, d, ticket, active - 1, keys, ph)
  <2>1. /\ Waiting \subseteq Jobs /\ r \subseteq Jobs /\ d \subseteq Jobs
        /\ Waiting \cap r = {} /\ Waiting \cap d = {} /\ r \cap d = {}
    BY <1>1 DEF Waiting, Running, Settled, Outcomes
  <2>2. IsFiniteSet(Waiting) /\ IsFiniteSet(r) /\ active - 1 = Cardinality(r)
    BY <1>0, <1>1, FS_RemoveElement DEF TicketsOrdered, SlotsAccounted
  <2>3. /\ active - 1 <= Limit
        /\ ticket \in [Jobs -> Nat]
    BY <1>0, LimitAssumption DEF SlotsAccounted, TypeOK
  <2>4. \A i, k \in Waiting : ticket[i] = ticket[k] => i = k
    BY <1>0 DEF TicketsOrdered, Waiting
  <2>5. /\ keys = {KeyOf[i] : i \in r} \ {NoKey}
        /\ \A i, k \in r : (KeyOf[i] = KeyOf[k] /\ KeyOf[i] # NoKey) => i = k
    BY <1>0, <1>1 DEF SessionExclusive
  <2>6. \A i \in Waiting, k \in r \cup d : KeyOf[i] = KeyOf[k] => ticket[k] < ticket[i]
    BY <1>0, <1>1 DEF FifoPerKey
  <2>7. /\ ph \in [Jobs -> Phases]
        /\ \A i \in Jobs \ Waiting :
             /\ ph[i] = "running" <=> i \in r
             /\ ph[i] \in Outcomes <=> i \in d
             /\ ph[i] # "waiting"
    BY <1>0, <1>1 DEF TypeOK, Phases, Outcomes, Waiting, Running, Settled
  <2>8. \/ Limit - (active - 1) <= 1
        \/ \A i, k \in Startable(Waiting, ticket, keys) : i = k
    <3>1. active \in Nat /\ Limit \in Nat
      BY <1>0, LimitAssumption DEF TypeOK
    <3>2. CASE active < Limit
      <4>1. ASSUME NEW i \in Startable(Waiting, ticket, keys)
            PROVE  /\ i \in Waiting /\ KeyOf[i] = KeyOf[j] /\ KeyOf[i] # NoKey
                   /\ \A k \in Waiting : KeyOf[k] = KeyOf[i] => ticket[i] <= ticket[k]
        <5>1. i \in Waiting /\ KeyFree(i, keys) /\ ~KeyFree(i, activeKeys)
          BY <3>2, <1>0 DEF WorkConserving, Startable
        <5>2. KeyOf[i] # NoKey /\ KeyOf[i] = KeyOf[j]
          BY <5>1 DEF KeyFree
        <5> QED BY <5>1, <5>2 DEF Startable
      <4>2. ASSUME NEW i \in Startable(Waiting, ticket, keys),
                   NEW k \in Startable(Waiting, ticket, keys)
            PROVE  i = k
        <5>1. ticket[i] <= ticket[k] /\ ticket[k] <= ticket[i]
          BY <4>1
        <5>2. i \in Jobs /\ k \in Jobs /\ ticket[i] \in Nat /\ ticket[k] \in Nat
          BY <4>1, <2>3 DEF Waiting
        <5> QED BY <5>1, <5>2, <4>1, <2>4
      <4> QED BY <4>2
    <3>3. CASE ~(active < Limit)
      BY <3>1, <3>3
    <3> QED BY <3>2, <3>3
  <2> QED BY <2>1, <2>2, <2>3, <2>4, <2>5, <2>6, <2>7, <2>8 DEF Drainable
<1>4. /\ Drained'
      /\ \A i \in Jobs \ Waiting : phase'[i] = ph[i]
      /\ \A i \in Waiting : phase'[i] \in {"waiting", "running"}
  <2> HIDE DEF r, d, keys, ph
  <2> QED BY <1>1, <1>2, <1>3, DrainRestores
<1>5. TypeOK'
  BY <1>0, <1>1, <1>4 DEF TypeOK, Drained
<1>6. TicketsOrdered'
  <2>1. \A i \in Jobs : phase'[i] = "new" <=> phase[i] = "new"
    <3>1. ASSUME NEW i \in Waiting  PROVE phase'[i] # "new" /\ phase[i] # "new"
      BY <1>4 DEF Waiting
    <3>2. ASSUME NEW i \in Jobs \ Waiting  PROVE phase'[i] = "new" <=> phase[i] = "new"
      BY <1>0, <1>1, <1>4 DEF Outcomes, TypeOK
    <3> QED BY <3>1, <3>2
  <2> QED BY <2>1, <1>0, <1>1, <1>4 DEF TicketsOrdered, Drained
<1>7. OneChildPerPermit'
  <2>1. ASSUME NEW i \in Jobs, children[i] = 1  PROVE phase'[i] = "running"
    BY <2>1, <1>0, <1>1, <1>4 DEF OneChildPerPermit, Running, Waiting, TypeOK
  <2> QED BY <2>1, <1>0, <1>1 DEF OneChildPerPermit, Running
<1> QED BY <1>4, <1>5, <1>6, <1>7 DEF IndInv, Drained

\* Lending a permit, refusing a nested child and returning the permit leave
\* the queue and the slots alone.
LEMMA ChildInv ==
  ASSUME IndInv, NEW j \in Jobs, RunChild(j) \/ RefuseNested(j) \/ ChildDone(j)
  PROVE  IndInv'
<1>1. UNCHANGED <<phase, ticket, pushes, active, activeKeys, queued>>
  BY DEF RunChild, RefuseNested, ChildDone
<1>2. /\ Running' = Running /\ Waiting' = Waiting /\ Settled' = Settled
      /\ \A i \in Jobs : KeyFree(i, activeKeys)' = KeyFree(i, activeKeys)
  BY <1>1 DEF Running, Waiting, Settled, KeyFree
<1>3. TypeOK /\ OneChildPerPermit
  BY DEF IndInv
<1>4. TypeOK'
  BY <1>1, <1>3 DEF TypeOK, RunChild, RefuseNested, ChildDone
<1>5. OneChildPerPermit'
  BY <1>2, <1>3 DEF OneChildPerPermit, TypeOK, RunChild, RefuseNested, ChildDone, Running
<1>6. (TicketsOrdered /\ SlotsAccounted /\ SessionExclusive /\ FifoPerKey)'
  BY <1>1, <1>2 DEF IndInv, TicketsOrdered, SlotsAccounted, SessionExclusive, FifoPerKey
<1>7. WorkConserving'
  BY <1>1, <1>2 DEF IndInv, WorkConserving
<1> QED BY <1>4, <1>5, <1>6, <1>7 DEF IndInv

\* A stuttering step changes nothing.
LEMMA StutterInv == ASSUME IndInv, UNCHANGED vars PROVE IndInv'
BY DEF IndInv, vars, permits, TypeOK, TicketsOrdered, SlotsAccounted, SessionExclusive,
       FifoPerKey, WorkConserving, OneChildPerPermit, Running, Waiting, Settled, KeyFree

LEMMA NextInv == IndInv /\ [Next]_vars => IndInv'
<1> SUFFICES ASSUME IndInv, [Next]_vars PROVE IndInv'
  OBVIOUS
<1>1. CASE \E j \in Jobs : Run(j)
  BY <1>1, RunInv
<1>2. CASE \E j \in Jobs, outcome \in Outcomes : Complete(j, outcome)
  BY <1>2, CompleteInv
<1>3. CASE \E j \in Jobs : RunChild(j) \/ RefuseNested(j) \/ ChildDone(j)
  BY <1>3, ChildInv
<1>4. CASE UNCHANGED vars
  BY <1>4, StutterInv
<1> QED BY <1>1, <1>2, <1>3, <1>4 DEF Next, Idle

-----------------------------------------------------------------------------
\* The scheduler's accounts, order and liveness of its queue, for any jobs,
\* keys and limit: no interleaving of submissions, completions, failures and
\* lent permits takes a slot too many, overlaps two turns of a session,
\* reorders them or leaves a startable job waiting.
THEOREM Invariance == Spec => []IndInv
<1>1. Init => IndInv
  BY InitInv
<1>2. IndInv /\ [Next]_vars => IndInv'
  BY NextInv
<1> QED BY <1>1, <1>2, PTL DEF Spec

\* Every variable keeps its type.
THEOREM Typing == Spec => []TypeOK
<1>1. IndInv => TypeOK
  BY DEF IndInv
<1> QED BY <1>1, Invariance, PTL

\* At most Limit tasks run, and the counter of slots never drifts.
THEOREM Slots == Spec => []SlotsAccounted
<1>1. IndInv => SlotsAccounted
  BY DEF IndInv
<1> QED BY <1>1, Invariance, PTL

\* Two turns of one persistent session never overlap.
THEOREM Exclusion == Spec => []SessionExclusive
<1>1. IndInv => SessionExclusive
  BY DEF IndInv
<1> QED BY <1>1, Invariance, PTL

\* The turns of a session start in the order of their submission.
THEOREM Order == Spec => []FifoPerKey
<1>1. IndInv => FifoPerKey
  BY DEF IndInv
<1> QED BY <1>1, Invariance, PTL

\* No slot is idle while a job could take it.
THEOREM Conservation == Spec => []WorkConserving
<1>1. IndInv => WorkConserving
  BY DEF IndInv
<1> QED BY <1>1, Invariance, PTL

\* A permit carries at most one child, and only while its parent runs.
THEOREM OneChild == Spec => []OneChildPerPermit
<1>1. IndInv => OneChildPerPermit
  BY DEF IndInv
<1> QED BY <1>1, Invariance, PTL

\* drain moves jobs of the queue only, and only to a slot.
LEMMA DrainMoves ==
  ASSUME NEW w, NEW tk, NEW a, NEW keys, NEW ph,
         Drain(w, tk, a, keys, ph), w \subseteq Jobs
  PROVE  /\ \A j \in w : phase'[j] \in {"waiting", "running"}
         /\ \A j \in Jobs \ w : phase'[j] = ph[j]
<1>1. Started(w, tk, a, keys) \subseteq w
  BY DEF Started, Startable
<1> QED BY <1>1 DEF Drain

\* A promise is settled at most once, and a queued job is never dropped.
THEOREM Settlement == Spec => SettleOnce
<1> DEFINE Once == \A j \in Jobs :
             /\ phase[j] \in Outcomes => phase'[j] = phase[j]
             /\ phase[j] = "waiting" => phase'[j] \in {"waiting", "running"}
             /\ phase[j] = "running" => phase'[j] # "waiting"
<1>1. ASSUME IndInv, Next  PROVE Once
  <2>0. TypeOK
    BY <1>1 DEF IndInv
  <2>1. ASSUME NEW i \in Jobs, Run(i)  PROVE Once
    <3>1. /\ \A j \in Waiting \cup {i} : phase'[j] \in {"waiting", "running"}
          /\ \A j \in Jobs \ (Waiting \cup {i}) : phase'[j] = phase[j]
      BY <2>1, DrainMoves DEF Run, Waiting
    <3> QED BY <3>1, <2>1 DEF Run, Waiting, Outcomes
  <2>2. ASSUME NEW i \in Jobs, NEW outcome \in Outcomes, Complete(i, outcome)  PROVE Once
    <3> DEFINE ph == [phase EXCEPT ![i] = outcome]
    <3>1. Drain(Waiting, ticket, active - 1, activeKeys \ {KeyOf[i]}, ph)
      BY <2>2 DEF Complete
    <3>2. Waiting \subseteq Jobs
      BY DEF Waiting
    <3>3. /\ \A j \in Waiting : phase'[j] \in {"waiting", "running"}
          /\ \A j \in Jobs \ Waiting : phase'[j] = ph[j]
      <4> HIDE DEF ph
      <4> QED BY <3>1, <3>2, DrainMoves
    <3> QED BY <2>0, <2>2, <3>3 DEF Complete, Waiting, Outcomes, TypeOK
  <2>3. ASSUME UNCHANGED phase  PROVE Once
    BY <2>3
  <2> QED BY <1>1, <2>1, <2>2, <2>3 DEF Next, RunChild, RefuseNested, ChildDone, Idle, vars
<1>2. IndInv /\ [Next]_vars => [Once]_vars
  BY <1>1
<1> QED BY <1>2, Invariance, PTL DEF Spec, SettleOnce

-----------------------------------------------------------------------------
(* The refinement of SessionLanes.                                           *)

\* Jobs in lanes, one by one.
LEMMA InLane ==
  ASSUME NEW i \in Jobs, NEW j \in Jobs
  PROVE  i \in Lane[j] <=> i = j \/ (KeyOf[i] = KeyOf[j] /\ KeyOf[j] # NoKey)
BY DEF Lane

\* The tasks that run are the heads of their lanes, and when a slot is free all
\* heads run: FifoPerKey keeps the others behind them, and WorkConserving leaves
\* no head waiting.
Filled ==
  /\ Running \subseteq Promise!Heads
  /\ Cardinality(Running) <= Limit
  /\ Cardinality(Running) = Limit \/ Running = Promise!Heads

LEMMA HeadsRun == IndInv => Filled
<1> SUFFICES ASSUME IndInv PROVE Filled
  OBVIOUS
<1>0. /\ TypeOK /\ SlotsAccounted /\ SessionExclusive /\ FifoPerKey /\ WorkConserving
      /\ \A i \in Jobs : ticket[i] \in Nat
      /\ active \in Nat /\ Limit \in Nat
  BY LimitAssumption DEF IndInv, TypeOK
<1>1. ASSUME NEW j \in Running PROVE Ahead[j] = {}
  <2>1. ASSUME NEW i \in Standing, i \in Lane[j], ticket[i] < ticket[j] PROVE FALSE
    <3>1. i \in Jobs /\ j \in Jobs
      BY DEF Standing, Waiting, Running
    <3>2. i # j /\ KeyOf[i] = KeyOf[j] /\ KeyOf[j] # NoKey
      BY <2>1, <3>1, <1>0, InLane
    <3>3. i \notin Running
      BY <3>2, <1>0 DEF SessionExclusive
    <3>4. ticket[j] < ticket[i]
      BY <3>2, <3>3, <1>0 DEF Standing, FifoPerKey
    <3> QED BY <2>1, <3>1, <3>4, <1>0
  <2>2. j \in Jobs /\ j \in Standing
    BY DEF Running, Standing
  <2> QED BY <2>1, <2>2 DEF Ahead
<1>2. Running \subseteq Promise!Heads
  BY <1>1 DEF Promise!Heads, Standing
<1>3. ASSUME active < Limit, NEW j \in Waiting PROVE Ahead[j] # {}
  <2>1. ~KeyFree(j, activeKeys) /\ j \in Jobs /\ j \in Standing
    BY <1>0, <1>3 DEF WorkConserving, Waiting, Standing
  <2>2. KeyOf[j] # NoKey /\ KeyOf[j] \in activeKeys
    BY <2>1 DEF KeyFree
  <2>3. PICK i \in Running : KeyOf[i] = KeyOf[j]
    BY <2>2, <1>0 DEF SessionExclusive
  <2>4. i \in Jobs /\ i \in Standing /\ i \in Lane[j] /\ ticket[i] < ticket[j]
    BY <1>0, <2>1, <2>2, <2>3, InLane DEF Running, Standing, FifoPerKey
  <2> QED BY <2>1, <2>4 DEF Ahead
<1>4. active = Cardinality(Running) /\ active <= Limit
  BY <1>0 DEF SlotsAccounted
<1>5. active < Limit => Promise!Heads \subseteq Running
  BY <1>3 DEF Promise!Heads, Standing
<1> QED BY <1>0, <1>2, <1>4, <1>5 DEF Filled

\* Filling the slots keeps what runs.
LEMMA Fills ==
  ASSUME IndInv', NEW r, r \subseteq Running' PROVE Promise!Fill(r)
<1>1. Filled'
  <2>1. IndInv' => Filled'
    BY HeadsRun, PTL
  <2> QED BY <2>1
<1> DEFINE s == Running' \ r
<1>2. s \in SUBSET (Promise!Heads' \ r) /\ Running' = r \cup s
  BY <1>1 DEF Filled
<1>3. Cardinality(Running') <= Limit /\ (Cardinality(Running') = Limit \/ Running' = Promise!Heads')
  BY <1>1 DEF Filled
<1> HIDE DEF s
<1> QED BY <1>2, <1>3 DEF Promise!Fill, Promise!Cardinality, Cardinality

\* Submitting a job is an arrival: it lines up behind the standing jobs of its
\* lane, which have all been pushed before it, and what ran goes on.
LEMMA RunArrives ==
  ASSUME IndInv, IndInv', NEW j \in Jobs, Run(j)
  PROVE  Promise!Arrive(j)
<1>1. /\ phase[j] = "new"
      /\ pushes \in Nat
      /\ \A i \in Jobs : ticket[i] \in Nat /\ ticket[i] <= pushes
      /\ ticket'[j] = pushes + 1
      /\ \A i \in Jobs \ {j} : ticket'[i] = ticket[i]
  BY DEF Run, IndInv, TypeOK, TicketsOrdered
<1>2. /\ \A i \in Waiting \cup {j} : phase'[i] \in {"waiting", "running"}
      /\ \A i \in Jobs \ (Waiting \cup {j}) : phase'[i] = phase[i]
  BY DrainMoves DEF Run, Waiting
<1>3. j \notin Standing /\ Standing' = Standing \cup {j}
  BY <1>1, <1>2 DEF Standing, Waiting, Running
<1>4. Running \subseteq Running'
  BY <1>1, <1>2 DEF Running, Waiting
<1>5. Ahead' = [Ahead EXCEPT ![j] = Standing \cap Lane[j]]
  <2>1. Ahead'[j] = Standing \cap Lane[j]
    <3>1. Ahead'[j] = {i \in Standing' \cap Lane[j] : ticket'[i] < ticket'[j]}
      BY <1>3 DEF Ahead, Lane
    <3>2. \A i \in Standing : i \in Jobs /\ i # j /\ ticket'[i] < ticket'[j]
      BY <1>1, <1>3 DEF Standing, Waiting, Running
    <3>3. ~(ticket'[j] < ticket'[j])
      BY <1>1
    <3> QED BY <3>1, <3>2, <3>3, <1>3
  <2>2. ASSUME NEW k \in Jobs \ {j} PROVE Ahead'[k] = Ahead[k]
    <3>1. CASE k \in Standing
      <4>1. /\ Ahead'[k] = {i \in Standing' \cap Lane[k] : ticket'[i] < ticket'[k]}
            /\ Ahead[k] = {i \in Standing \cap Lane[k] : ticket[i] < ticket[k]}
        BY <1>3, <3>1 DEF Ahead, Lane
      <4>2. ~(ticket'[j] < ticket'[k])
        BY <1>1
      <4>3. \A i \in Standing : ticket'[i] < ticket'[k] <=> ticket[i] < ticket[k]
        BY <1>1, <1>3 DEF Standing, Waiting, Running
      <4> QED BY <4>1, <4>2, <4>3, <1>3
    <3>2. CASE k \notin Standing
      BY <3>2, <1>3 DEF Ahead
    <3> QED BY <3>1, <3>2
  <2>3. \A k \in Jobs : Ahead'[k] = [Ahead EXCEPT ![j] = Standing \cap Lane[j]][k]
    BY <2>1, <2>2 DEF Ahead
  <2> QED BY <2>3 DEF Ahead
<1>6. Promise!Fill(Running)
  BY <1>4, Fills
<1> QED BY <1>3, <1>5, <1>6 DEF Promise!Arrive

\* A settled task is a departure: it leaves the lane it was the head of, and
\* the others keep their places.
LEMMA CompleteLeaves ==
  ASSUME IndInv, IndInv', NEW j \in Jobs, NEW outcome \in Outcomes, Complete(j, outcome)
  PROVE  Promise!Leave(j)
<1>1. j \in Running /\ ticket' = ticket /\ TypeOK
  BY DEF Complete, Running, IndInv
<1> DEFINE ph == [phase EXCEPT ![j] = outcome]
<1>2. /\ \A i \in Waiting : phase'[i] \in {"waiting", "running"}
      /\ \A i \in Jobs \ Waiting : phase'[i] = ph[i]
  <2>1. Drain(Waiting, ticket, active - 1, activeKeys \ {KeyOf[j]}, ph) /\ Waiting \subseteq Jobs
    BY DEF Complete, Waiting
  <2> HIDE DEF ph
  <2> QED BY <2>1, DrainMoves
<1>3. /\ phase'[j] = outcome
      /\ \A i \in Jobs \ (Waiting \cup {j}) : phase'[i] = phase[i]
  BY <1>1, <1>2 DEF Running, Waiting, TypeOK
<1>4. Standing' = Standing \ {j}
  BY <1>1, <1>2, <1>3 DEF Standing, Waiting, Running, Outcomes
<1>5. Running \ {j} \subseteq Running'
  BY <1>3 DEF Running, Waiting
<1>6. Ahead' = [k \in Jobs |-> Ahead[k] \ {j}]
  <2>1. ASSUME NEW k \in Jobs PROVE Ahead'[k] = Ahead[k] \ {j}
    <3>1. CASE k \in Standing \ {j}
      BY <3>1, <1>1, <1>4 DEF Ahead, Lane
    <3>2. CASE k \notin Standing
      BY <3>2, <1>4 DEF Ahead
    <3>3. CASE k = j
      <4>1. Ahead[j] = {}
        BY <1>1, HeadsRun DEF Filled, Promise!Heads
      <4>2. Ahead'[j] = {}
        BY <1>4 DEF Ahead
      <4> QED BY <4>1, <4>2, <3>3
    <3> QED BY <3>1, <3>2, <3>3
  <2>2. Ahead' = [k \in Jobs |-> Ahead'[k]]
    BY DEF Ahead
  <2> QED BY <2>1, <2>2
<1>7. Promise!Fill(Running \ {j})
  BY <1>5, Fills
<1> QED BY <1>1, <1>4, <1>6, <1>7 DEF Promise!Leave

\* The scheduler implements the lanes: whatever the interleaving, each session
\* is served in the order of its submissions, one turn at a time, at most Limit
\* jobs run, and the head of no lane waits beside an idle slot.
THEOREM Lanes == Spec => ImplementsLanes
<1>1. Init => Promise!Init
  <2>1. Init => Standing = {} /\ Running = {}
    BY DEF Init, Standing, Waiting, Running
  <2> QED BY <2>1 DEF Promise!Init, Ahead
<1>2. IndInv /\ IndInv' /\ [Next]_vars => [Promise!Next]_(Promise!vars)
  <2> SUFFICES ASSUME IndInv, IndInv', [Next]_vars
               PROVE  Promise!Next \/ UNCHANGED Promise!vars
    OBVIOUS
  <2>1. CASE \E j \in Jobs : Run(j)
    BY <2>1, RunArrives DEF Promise!Next
  <2>2. CASE \E j \in Jobs, outcome \in Outcomes : Complete(j, outcome)
    BY <2>2, CompleteLeaves DEF Promise!Next
  <2>3. ASSUME UNCHANGED <<phase, ticket>> PROVE UNCHANGED Promise!vars
    <3>1. Waiting' = Waiting /\ Running' = Running /\ Standing' = Standing
      BY <2>3 DEF Waiting, Running, Standing
    <3>2. Ahead' = Ahead
      BY <3>1, <2>3 DEF Ahead
    <3> QED BY <3>1, <3>2 DEF Promise!vars
  <2>4. CASE \E j \in Jobs : RunChild(j) \/ RefuseNested(j) \/ ChildDone(j)
    BY <2>3, <2>4 DEF RunChild, RefuseNested, ChildDone
  <2>5. CASE UNCHANGED vars
    BY <2>3, <2>5 DEF vars
  <2> QED BY <2>1, <2>2, <2>4, <2>5 DEF Next, Idle
<1> QED BY <1>1, <1>2, Invariance, PTL DEF Spec, ImplementsLanes, Promise!Spec

-----------------------------------------------------------------------------
\* THE LOOP OF DRAIN, one turn at a time (scheduler.ts:64).  While there is a
\* slot, it starts the first waiting job whose key is free and goes on with the
\* rest of the queue; it stops when no slot or no such job is left.  Started,
\* which names what it starts in one go, obeys the same three rules.
THEOREM LoopOfDrain ==
  ASSUME NEW w, IsFiniteSet(w),
         NEW tk, \A j \in w : tk[j] \in Nat,
         \A i, j \in w : tk[i] = tk[j] => i = j,
         NEW a \in Nat, a <= Limit, NEW keys
  PROVE  /\ a = Limit => Started(w, tk, a, keys) = {}
         /\ (\A j \in w : ~KeyFree(j, keys)) => Started(w, tk, a, keys) = {}
         /\ \A first \in w :
              /\ a < Limit
              /\ KeyFree(first, keys)
              /\ \A j \in w : KeyFree(j, keys) => tk[first] <= tk[j]
              => Started(w, tk, a, keys) =
                   {first} \cup Started(w \ {first}, tk, a + 1,
                                        keys \cup ({KeyOf[first]} \ {NoKey}))
<1>1. a = Limit => Started(w, tk, a, keys) = {}
  BY NoSlot
<1>2. (\A j \in w : ~KeyFree(j, keys)) => Started(w, tk, a, keys) = {}
  BY DEF Started, Startable
<1>3. ASSUME NEW first \in w, a < Limit, KeyFree(first, keys),
             \A j \in w : KeyFree(j, keys) => tk[first] <= tk[j]
      PROVE  Started(w, tk, a, keys) =
               {first} \cup Started(w \ {first}, tk, a + 1,
                                    keys \cup ({KeyOf[first]} \ {NoKey}))
  <2> DEFINE rest == keys \cup ({KeyOf[first]} \ {NoKey})
             C == Startable(w, tk, keys)
             D == Startable(w \ {first}, tk, rest)
  <2>1. first \in C /\ C \subseteq w /\ IsFiniteSet(C)
    <3>1. C \subseteq w
      BY DEF Startable
    <3>2. first \in C
      BY <1>3 DEF Startable, KeyFree
    <3> QED BY <3>1, <3>2, FS_Subset
  <2>2. \A j \in C \ {first} : tk[first] < tk[j]
    BY <1>3, <2>1 DEF Startable
  <2>3. D = C \ {first}
    <3>1. ASSUME NEW j \in C \ {first} PROVE j \in D
      <4>1. KeyOf[j] # NoKey => KeyOf[j] # KeyOf[first]
        BY <2>1, <2>2 DEF Startable
      <4> QED BY <4>1 DEF Startable, KeyFree
    <3>2. ASSUME NEW j \in D PROVE j \in C \ {first}
      BY DEF Startable, KeyFree
    <3> QED BY <3>1, <3>2
  <2> DEFINE Before(S, j) == Cardinality({i \in S : tk[i] < tk[j]})
  <2>4. Before(C, first) = 0
    <3>1. {i \in C : tk[i] < tk[first]} = {}
      BY <2>1, <2>2
    <3> QED BY <3>1, FS_EmptySet
  <2>5. ASSUME NEW j \in C \ {first}
        PROVE  Before(D, j) \in Nat /\ Before(C, j) = Before(D, j) + 1
    <3> DEFINE B == {i \in D : tk[i] < tk[j]}
    <3>1. {i \in C : tk[i] < tk[j]} = B \cup {first}
      BY <2>1, <2>2, <2>3
    <3>2. IsFiniteSet(B) /\ first \notin B
      BY <2>1, <2>3, FS_Subset
    <3> QED BY <3>1, <3>2, FS_AddElement, FS_CardinalityType
  <2>6. Started(w, tk, a, keys) = {j \in C : Before(C, j) < Limit - a}
    BY DEF Started
  <2>7. Started(w \ {first}, tk, a + 1, rest) = {j \in D : Before(D, j) < Limit - (a + 1)}
    BY DEF Started
  <2>8. first \in Started(w, tk, a, keys)
    BY <1>3, <2>1, <2>4, <2>6, LimitAssumption
  <2>9. \A j \in C \ {first} : Before(C, j) < Limit - a <=> Before(D, j) < Limit - (a + 1)
    <3> HIDE DEF C, D, Before
    <3> QED BY <2>5, LimitAssumption
  <2> HIDE DEF C, D, Before, rest
  <2>10. Started(w, tk, a, keys) = {first} \cup Started(w \ {first}, tk, a + 1, rest)
    BY <2>1, <2>3, <2>6, <2>7, <2>8, <2>9
  <2> QED BY <2>10 DEF rest
<1> QED BY <1>1, <1>2, <1>3
=============================================================================
