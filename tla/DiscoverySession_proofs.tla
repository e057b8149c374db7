------------------------- MODULE DiscoverySession_proofs -------------------------
(***************************************************************************)
(* Proofs about DiscoverySession, for every set of turns, selections,        *)
(* efforts and limits, and any number of restarts and clients that leave.    *)
(*                                                                         *)
(* A turn acts on what it read of the row long before.  What it shows the    *)
(* model is sound because the row, the copies of it and the live sessions    *)
(* are each of one selection (OneSelection), and because none of them holds  *)
(* a turn that has yet to be put to the model (EachOnce); neither depends on *)
(* how the scheduler orders the turns, only on its starting each once.       *)
(***************************************************************************)
EXTENDS DiscoverySession, FiniteSetTheorems, TLAPS

Asked == {"new", "read", "submitted", "loading"}

\* A sequence gets one more element.
LEMMA Appended ==
  ASSUME NEW T, NEW q \in Seq(T), NEW x \in T
  PROVE  /\ Append(q, x) \in Seq(T)
         /\ Append(q, x) # <<>>
         /\ Last(Append(q, x)) = x
         /\ ToSet(Append(q, x)) = ToSet(q) \cup {x}
         /\ IsInjective(q) /\ x \notin ToSet(q) => IsInjective(Append(q, x))
<1>1. /\ Append(q, x) \in Seq(T) /\ Len(q) \in Nat
      /\ Len(Append(q, x)) = Len(q) + 1
      /\ DOMAIN q = 1..Len(q) /\ DOMAIN Append(q, x) = 1..(Len(q) + 1)
      /\ \A i \in 1..Len(q) : Append(q, x)[i] = q[i]
      /\ Append(q, x)[Len(q) + 1] = x
  OBVIOUS
<1>2. \A i \in 1..(Len(q) + 1) : i \in 1..Len(q) \/ i = Len(q) + 1
  BY <1>1
<1>3. ToSet(Append(q, x)) = ToSet(q) \cup {x}
  <2>1. ASSUME NEW y \in ToSet(Append(q, x))  PROVE y \in ToSet(q) \cup {x}
    BY <1>1, <1>2 DEF ToSet
  <2>2. ASSUME NEW y \in ToSet(q) \cup {x}  PROVE y \in ToSet(Append(q, x))
    <3>1. CASE y = x
      BY <1>1, <3>1 DEF ToSet
    <3>2. CASE y \in ToSet(q)
      <4>1. PICK i \in 1..Len(q) : y = q[i]
        BY <1>1, <3>2 DEF ToSet
      <4>2. i \in DOMAIN Append(q, x) /\ Append(q, x)[i] = y
        BY <1>1, <4>1
      <4> QED BY <4>2 DEF ToSet
    <3> QED BY <2>2, <3>1, <3>2
  <2> QED BY <2>1, <2>2
<1>4. Last(Append(q, x)) = x /\ Append(q, x) # <<>>
  BY <1>1 DEF Last
<1>5. ASSUME IsInjective(q), x \notin ToSet(q)  PROVE IsInjective(Append(q, x))
  <2>1. \A i \in 1..Len(q) : q[i] # x
    BY <1>1, <1>5 DEF ToSet
  <2> QED BY <1>1, <1>2, <1>5, <2>1 DEF IsInjective
<1> QED BY <1>1, <1>3, <1>4, <1>5

\* The empty conversation.
LEMMA Empty == ToSet(<<>>) = {} /\ IsInjective(<<>>)
  BY DEF ToSet, IsInjective

\* The turns of a key are of one selection.
LEMMA KeyFacts ==
  /\ \A j \in Jobs : KeyOf[j] \in Keys
  /\ \A k \in Keys : \E j \in Jobs : KeyOf[j] = k
  /\ \A i, j \in Jobs : KeyOf[i] = KeyOf[j] => Fingerprint[i] = Fingerprint[j]
  BY DEF KeyOf, Keys

\* The first state satisfies the first part of the invariant.
LEMMA TurnsInitInv == Init => TurnsInv
<1> SUFFICES ASSUME Init PROVE TurnsInv
  OBVIOUS
<1>1. TypeOK
  BY LiveAssumption, BoundAssumption
  DEF Init, TypeOK, Stages, Scheduler!Init, Scheduler!Phases
<1>2. /\ \A j \in Jobs : history[j] = <<>> /\ live[KeyOf[j]] = <<>> /\ context[j] = <<>>
      /\ row.turns = <<>>
      /\ \A j \in Jobs : phase[j] = "new"
  BY KeyFacts DEF Init, Scheduler!Init
<1> QED BY <1>1, <1>2, Empty DEF TurnsInv, OneSelection, EachOnce, NeverStale, TurnsOnce

-----------------------------------------------------------------------------
\* Who waits after a drain waited before it, and so did who has started.
LEMMA DrainPhases ==
  ASSUME NEW w, w \subseteq Jobs, NEW tk, NEW a, NEW keys,
         NEW ph \in [Jobs -> Scheduler!Phases], \A j \in Jobs : ph[j] = "waiting" => j \in w,
         Scheduler!Drain(w, tk, a, keys, ph)
  PROVE  /\ phase' \in [Jobs -> Scheduler!Phases]
         /\ \A j \in Jobs : phase'[j] = "waiting" => j \in w
         /\ \A j \in Jobs : phase'[j] = "running" => j \in w \/ ph[j] = "running"
<1> DEFINE s == Scheduler!Started(w, tk, a, keys)
<1>1. s \subseteq w
  BY DEF Scheduler!Started, Scheduler!Startable
<1>2. phase' = [j \in Jobs |-> CASE j \in s -> "running"
                                 [] j \in w \ s -> "waiting"
                                 [] OTHER -> ph[j]]
  BY DEF Scheduler!Drain
<1> HIDE DEF s
<1> QED BY <1>1, <1>2 DEF Scheduler!Phases

\* The tasks of the turns s begin.
LEMMA StartTasksInv ==
  ASSUME TurnsInv, NEW s, s \subseteq Jobs, NEW stages \in [Jobs -> Stages],
         \A j \in s : stage[j] \in Asked /\ stages[j] = "submitted",
         \A j \in Jobs : stage[j] = "saved" => stages[j] = "saved",
         \A j \in Jobs : stage[j] \notin Asked => stages[j] \notin Asked,
         StartTasks(s, stages), UNCHANGED <<history, row>>
  PROVE  /\ stage' \in [Jobs -> Stages] /\ context' \in [Jobs -> Seq(Jobs)]
         /\ live' \in [Keys -> Seq(Jobs)]
         /\ \A j \in Jobs \ s : stage'[j] = stages[j]
         /\ OneSelection' /\ EachOnce' /\ NeverStale' /\ TurnsOnce'
<1> DEFINE run == {j \in s : j \notin aborted}
           cached == {j \in run : Contains(order, KeyOf[j])}
           prompt(j) == Append(live[KeyOf[j]], j)
<1>1. /\ stage' = [j \in Jobs |-> CASE j \in s \ run -> "finished"
                                    [] j \in cached -> "prompting"
                                    [] j \in run \ cached -> "loading"
                                    [] OTHER -> stages[j]]
      /\ context' = [j \in Jobs |-> IF j \in cached THEN prompt(j) ELSE context[j]]
      /\ live' = [k \in Keys |->
           IF \E j \in cached : KeyOf[j] = k
           THEN prompt(CHOOSE j \in cached : KeyOf[j] = k) ELSE live[k]]
  BY DEF StartTasks
<1>2. cached \subseteq run /\ run \subseteq s
  OBVIOUS
<1>3. /\ stage \in [Jobs -> Stages] /\ history \in [Jobs -> Seq(Jobs)]
      /\ context \in [Jobs -> Seq(Jobs)] /\ live \in [Keys -> Seq(Jobs)]
      /\ row.turns \in Seq(Jobs)
  BY DEF TurnsInv, TypeOK
<1>4. ASSUME NEW j \in cached
      PROVE  /\ prompt(j) \in Seq(Jobs) /\ prompt(j) # <<>> /\ Last(prompt(j)) = j
             /\ ToSet(prompt(j)) = ToSet(live[KeyOf[j]]) \cup {j}
             /\ IsInjective(prompt(j))
             /\ \A i \in ToSet(prompt(j)) : Fingerprint[i] = Fingerprint[j]
  <2>1. j \in Jobs /\ live[KeyOf[j]] \in Seq(Jobs)
    BY <1>2, <1>3, KeyFacts
  <2>2. j \notin ToSet(live[KeyOf[j]]) /\ IsInjective(live[KeyOf[j]])
    BY <1>2, <2>1 DEF TurnsInv, EachOnce, Asked
  <2>3. \A i \in ToSet(live[KeyOf[j]]) : Fingerprint[i] = Fingerprint[j]
    BY <2>1 DEF TurnsInv, OneSelection
  <2> QED BY <2>1, <2>2, <2>3, Appended
<1> HIDE DEF cached, run, prompt
<1>5. /\ stage' \in [Jobs -> Stages]
      /\ \A j \in Jobs \ s : stage'[j] = stages[j]
      /\ \A j \in cached : stage'[j] = "prompting"
  BY <1>1, <1>2 DEF Stages, run
<1>6. context' \in [Jobs -> Seq(Jobs)]
  BY <1>1, <1>3, <1>4
<1>7. ASSUME NEW k \in Keys
      PROVE  \/ live'[k] = live[k]
             \/ \E j \in cached : KeyOf[j] = k /\ live'[k] = prompt(j)
  BY <1>1
<1>8. live' \in [Keys -> Seq(Jobs)]
  <2>1. ASSUME NEW k \in Keys  PROVE live'[k] \in Seq(Jobs)
    <3>1. CASE live'[k] = live[k]
      BY <1>3, <3>1
    <3>2. CASE \E j \in cached : live'[k] = prompt(j)
      BY <1>4, <3>2
    <3> QED BY <1>7, <3>1, <3>2
  <2>2. live' = [k \in Keys |-> live'[k]]
    BY <1>1
  <2> QED BY <2>1, <2>2
<1>9. /\ \A i \in Jobs : stage[i] = "saved" => stage'[i] = "saved"
      /\ \A i \in Jobs : stage[i] \notin Asked => stage'[i] \notin Asked
  BY <1>2, <1>5 DEF Asked
<1>10. OneSelection'
  <2>1. ASSUME NEW j \in Jobs, NEW i \in ToSet(live'[KeyOf[j]])
        PROVE  Fingerprint[i] = Fingerprint[j]
    <3>1. CASE live'[KeyOf[j]] = live[KeyOf[j]]
      BY <2>1, <3>1 DEF TurnsInv, OneSelection
    <3>2. CASE \E c \in cached : KeyOf[c] = KeyOf[j] /\ live'[KeyOf[j]] = prompt(c)
      BY <1>2, <1>4, <2>1, <3>2, KeyFacts
    <3> QED BY <1>7, <3>1, <3>2, KeyFacts
  <2> QED BY <2>1 DEF TurnsInv, OneSelection
<1>11. EachOnce'
  <2>1. ASSUME NEW j \in Jobs
        PROVE  IsInjective(live'[KeyOf[j]]) /\ \A i \in ToSet(live'[KeyOf[j]]) : stage'[i] \notin Asked
    <3>1. CASE live'[KeyOf[j]] = live[KeyOf[j]]
      <4>1. ToSet(live[KeyOf[j]]) \subseteq Jobs
        BY <1>3, KeyFacts DEF ToSet
      <4> QED BY <1>9, <3>1, <4>1 DEF TurnsInv, EachOnce, Asked
    <3>2. CASE \E c \in cached : KeyOf[c] = KeyOf[j] /\ live'[KeyOf[j]] = prompt(c)
      <4>1. PICK c \in cached : KeyOf[c] = KeyOf[j] /\ live'[KeyOf[j]] = prompt(c)
        BY <3>2
      <4>2. ToSet(live[KeyOf[j]]) \subseteq Jobs
        BY <1>3, KeyFacts DEF ToSet
      <4>3. \A i \in ToSet(live[KeyOf[j]]) : stage'[i] \notin Asked
        BY <1>9, <4>2 DEF TurnsInv, EachOnce, Asked
      <4>4. stage'[c] \notin Asked
        BY <1>5 DEF Asked
      <4> QED BY <1>4, <4>1, <4>3, <4>4
    <3> QED BY <1>7, <3>1, <3>2, KeyFacts
  <2>2. ToSet(row.turns) \subseteq Jobs /\ \A j \in Jobs : ToSet(history[j]) \subseteq Jobs
    BY <1>3 DEF ToSet
  <2> QED BY <1>9, <2>1, <2>2 DEF TurnsInv, EachOnce, Asked
<1>12. NeverStale' /\ TurnsOnce'
  <2>1. ASSUME NEW j \in Jobs
        PROVE  \/ context'[j] = context[j]
               \/ j \in cached /\ context'[j] = prompt(j)
    BY <1>1
  <2> QED BY <1>4, <2>1 DEF TurnsInv, NeverStale, TurnsOnce
<1> QED BY <1>5, <1>6, <1>8, <1>10, <1>11, <1>12

-----------------------------------------------------------------------------
\* The row is read: the turns of another selection are not used.
LEMMA ReadInv == ASSUME TurnsInv, NEW j \in Jobs, Read(j) PROVE TurnsInv'
<1>1. /\ stage' = [stage EXCEPT ![j] = "read"] /\ stage[j] = "new"
      /\ \A i \in Jobs \ {j} : history'[i] = history[i]
      /\ \/ history'[j] = row.turns /\ row.fingerprint = Fingerprint[j]
         \/ history'[j] = <<>>
      /\ history' \in [Jobs -> Seq(Jobs)]
      /\ UNCHANGED <<schedulerVars, row, cache, context, report, aborted, crashes>>
  BY DEF Read, TurnsInv, TypeOK
<1>2. /\ ToSet(row.turns) \subseteq Jobs
      /\ \A i \in Jobs : ToSet(history[i]) \subseteq Jobs /\ ToSet(live[KeyOf[i]]) \subseteq Jobs
  BY KeyFacts DEF TurnsInv, TypeOK, ToSet
<1>3. TypeOK' /\ \A i \in Jobs : phase'[i] = "waiting" => stage'[i] = "submitted"
  BY <1>1 DEF TurnsInv, TypeOK, Stages, schedulerVars, cache
<1>4. OneSelection'
  BY <1>1, Empty DEF TurnsInv, OneSelection, cache
<1>5. /\ \A i \in Jobs : stage[i] = "saved" => stage'[i] = "saved"
      /\ \A i \in Jobs : stage[i] \notin Asked => stage'[i] \notin Asked
  BY <1>1 DEF TurnsInv, TypeOK, Asked
<1>6. EachOnce'
  BY <1>1, <1>2, <1>5, Empty DEF TurnsInv, EachOnce, cache, Asked
<1>7. NeverStale' /\ TurnsOnce'
  BY <1>1 DEF TurnsInv, NeverStale, TurnsOnce
<1> QED BY <1>3, <1>4, <1>6, <1>7 DEF TurnsInv

\* A step that only moves turns on.
LEMMA MoveInv ==
  ASSUME TurnsInv, stage' \in [Jobs -> Stages],
         \A i \in Jobs : stage[i] = "saved" => stage'[i] = "saved",
         \A i \in Jobs : stage[i] \notin Asked => stage'[i] \notin Asked,
         \A i \in Jobs : phase'[i] = "waiting" => stage'[i] = "submitted",
         phase' \in [Jobs -> Scheduler!Phases],
         report' \subseteq Jobs, aborted' \subseteq Jobs, crashes' \in 0..MaxCrashes,
         UNCHANGED <<history, row, cache, context>>
  PROVE  TurnsInv'
<1>1. /\ ToSet(row.turns) \subseteq Jobs
      /\ \A i \in Jobs : ToSet(history[i]) \subseteq Jobs /\ ToSet(live[KeyOf[i]]) \subseteq Jobs
  BY KeyFacts DEF TurnsInv, TypeOK, ToSet
<1>2. TypeOK'
  BY DEF TurnsInv, TypeOK, cache
<1>3. OneSelection' /\ NeverStale' /\ TurnsOnce'
  BY DEF TurnsInv, OneSelection, NeverStale, TurnsOnce, cache
<1>4. EachOnce'
  BY <1>1 DEF TurnsInv, EachOnce, cache, Asked
<1> QED BY <1>2, <1>3, <1>4 DEF TurnsInv

\* Loading fails, a prompt returns, a child starts or ends, a client leaves.
LEMMA SmallStepInv ==
  ASSUME TurnsInv, NEW j \in Jobs,
         LoadFails(j) \/ PromptReturns(j) \/ RunChild(j) \/ ChildDone(j) \/ Abort(j)
  PROVE  TurnsInv'
<1>1. CASE LoadFails(j)
  BY <1>1, MoveInv DEF LoadFails, TurnsInv, TypeOK, Stages, Asked, schedulerVars
<1>2. CASE PromptReturns(j)
  BY <1>2, MoveInv DEF PromptReturns, PromptEnds, TurnsInv, TypeOK, Stages, Asked, schedulerVars
<1>3. CASE RunChild(j)
  BY <1>3, MoveInv DEF RunChild, Scheduler!RunChild, TurnsInv, TypeOK, turnVars
<1>4. CASE ChildDone(j)
  BY <1>4, MoveInv DEF ChildDone, Scheduler!ChildDone, TurnsInv, TypeOK, turnVars
<1>5. CASE Abort(j)
  BY <1>5, MoveInv DEF Abort, TurnsInv, TypeOK, turnVars, schedulerVars
<1> QED BY <1>1, <1>2, <1>3, <1>4, <1>5

\* A turn is submitted, and those that can start do.
LEMMA SubmitInv == ASSUME TurnsInv, NEW j \in Jobs, Submit(j) PROVE TurnsInv'
<1> DEFINE stages == [stage EXCEPT ![j] = "submitted"]
           w == Scheduler!Waiting \cup {j}
<1>1. /\ stage[j] = "read" /\ stage \in [Jobs -> Stages] /\ phase \in [Jobs -> Scheduler!Phases]
      /\ stages \in [Jobs -> Stages] /\ \A i \in Jobs \ {j} : stages[i] = stage[i]
      /\ stages[j] = "submitted"
      /\ UNCHANGED <<history, row, order, report, aborted, crashes>>
  BY DEF Submit, TurnsInv, TypeOK, Stages
<1>2. w \subseteq Jobs /\ \A i \in Jobs : i \in w <=> phase[i] = "waiting" \/ i = j
  BY DEF Scheduler!Waiting
<1>3. /\ phase' \in [Jobs -> Scheduler!Phases]
      /\ \A i \in Jobs : phase'[i] = "waiting" => i \in w
      /\ \A i \in Jobs : phase'[i] = "running" => i \in w \/ phase[i] = "running"
  <2>1. Scheduler!Drain(w, ticket', active, activeKeys, phase)
    BY DEF Submit, Scheduler!Run
  <2> HIDE DEF w
  <2> QED BY <1>1, <1>2, <2>1, DrainPhases
<1>4. \A i \in Begun : i \in Jobs /\ i \in w /\ phase'[i] = "running"
  BY <1>3 DEF Begun
<1>5. \A i \in w : stages[i] = "submitted" /\ stage[i] \in Asked
  BY <1>1, <1>2 DEF TurnsInv, Asked
<1> HIDE DEF w
<1>6. /\ \A i \in Jobs : stage[i] = "saved" => stages[i] = "saved"
      /\ \A i \in Jobs : stage[i] \notin Asked => stages[i] \notin Asked
      /\ Begun \subseteq Jobs /\ \A i \in Begun : stage[i] \in Asked /\ stages[i] = "submitted"
  BY <1>1, <1>4, <1>5 DEF Asked
<1>7. StartTasks(Begun, stages)
  BY DEF Submit
<1> HIDE DEF stages
<1>8. /\ stage' \in [Jobs -> Stages] /\ context' \in [Jobs -> Seq(Jobs)]
      /\ live' \in [Keys -> Seq(Jobs)]
      /\ \A i \in Jobs \ Begun : stage'[i] = stages[i]
      /\ OneSelection' /\ EachOnce' /\ NeverStale' /\ TurnsOnce'
  BY <1>1, <1>6, <1>7, StartTasksInv
<1>9. TypeOK'
  BY <1>1, <1>3, <1>8 DEF TurnsInv, TypeOK
<1>10. \A i \in Jobs : phase'[i] = "waiting" => stage'[i] = "submitted"
  BY <1>3, <1>4, <1>5, <1>8
<1> QED BY <1>8, <1>9, <1>10 DEF TurnsInv

\* A turn settles, and those that can start do.
LEMMA SettleInv == ASSUME TurnsInv, NEW j \in Jobs, Settle(j) PROVE TurnsInv'
<1> DEFINE stages == [stage EXCEPT ![j] = IF j \in report THEN "finished" ELSE "ended"]
           w == Scheduler!Waiting
           outcome == IF stage[j] = "failed" THEN "rejected" ELSE "resolved"
           ph == [phase EXCEPT ![j] = outcome]
<1>1. /\ stage[j] \in {"finished", "failed"} /\ stage \in [Jobs -> Stages]
      /\ phase \in [Jobs -> Scheduler!Phases] /\ phase[j] = "running"
      /\ stages \in [Jobs -> Stages] /\ \A i \in Jobs \ {j} : stages[i] = stage[i]
      /\ stages[j] \in {"finished", "ended"}
      /\ UNCHANGED <<history, row, order, report, aborted, crashes>>
  BY DEF Settle, Scheduler!Complete, TurnsInv, TypeOK, Stages
<1>2. w \subseteq Jobs /\ \A i \in Jobs : i \in w <=> phase[i] = "waiting"
  BY DEF Scheduler!Waiting
<1>3. /\ ph \in [Jobs -> Scheduler!Phases]
      /\ \A i \in Jobs : ph[i] = "waiting" => i \in w
      /\ \A i \in Jobs : ph[i] = "running" => phase[i] = "running"
  BY <1>1, <1>2 DEF Scheduler!Phases
<1>4. /\ phase' \in [Jobs -> Scheduler!Phases]
      /\ \A i \in Jobs : phase'[i] = "waiting" => i \in w
      /\ \A i \in Jobs : phase'[i] = "running" => i \in w \/ phase[i] = "running"
  <2>1. Scheduler!Drain(w, ticket, active - 1, activeKeys \ {KeyOf[j]}, ph)
    BY DEF Settle, Scheduler!Complete
  <2> HIDE DEF w, ph
  <2> QED BY <1>2, <1>3, <2>1, DrainPhases
<1>5. \A i \in Begun : i \in Jobs /\ i \in w /\ phase'[i] = "running"
  BY <1>4 DEF Begun
<1>6. \A i \in w : stages[i] = "submitted" /\ stage[i] \in Asked
  BY <1>1, <1>2 DEF TurnsInv, Asked
<1> HIDE DEF w, ph, outcome
<1>7. /\ \A i \in Jobs : stage[i] = "saved" => stages[i] = "saved"
      /\ \A i \in Jobs : stage[i] \notin Asked => stages[i] \notin Asked
      /\ Begun \subseteq Jobs /\ \A i \in Begun : stage[i] \in Asked /\ stages[i] = "submitted"
  BY <1>1, <1>5, <1>6 DEF Asked
<1>8. StartTasks(Begun, stages)
  BY DEF Settle
<1> HIDE DEF stages
<1>9. /\ stage' \in [Jobs -> Stages] /\ context' \in [Jobs -> Seq(Jobs)]
      /\ live' \in [Keys -> Seq(Jobs)]
      /\ \A i \in Jobs \ Begun : stage'[i] = stages[i]
      /\ OneSelection' /\ EachOnce' /\ NeverStale' /\ TurnsOnce'
  BY <1>1, <1>7, <1>8, StartTasksInv
<1>10. TypeOK'
  BY <1>1, <1>4, <1>9 DEF TurnsInv, TypeOK
<1>11. \A i \in Jobs : phase'[i] = "waiting" => stage'[i] = "submitted"
  BY <1>4, <1>5, <1>6, <1>9
<1> QED BY <1>9, <1>10, <1>11 DEF TurnsInv

\* A session is created, kept, and prompted with the durable conversation.
LEMMA SessionCreatedInv == ASSUME TurnsInv, NEW j \in Jobs, SessionCreated(j) PROVE TurnsInv'
<1> DEFINE conversation == Append(history[j], j)
<1>1. /\ stage[j] = "loading" /\ stage' = [stage EXCEPT ![j] = "prompting"]
      /\ live' = [live EXCEPT ![KeyOf[j]] = conversation]
      /\ order' = Evict(Append(order, KeyOf[j]))
      /\ context' = [context EXCEPT ![j] = conversation]
      /\ UNCHANGED <<schedulerVars, history, row, report, aborted, crashes>>
  BY DEF SessionCreated
<1>2. /\ conversation \in Seq(Jobs) /\ Last(conversation) = j
      /\ ToSet(conversation) = ToSet(history[j]) \cup {j}
      /\ IsInjective(conversation)
      /\ \A i \in ToSet(conversation) : Fingerprint[i] = Fingerprint[j]
  <2>1. history[j] \in Seq(Jobs)
    BY DEF TurnsInv, TypeOK
  <2>2. j \notin ToSet(history[j]) /\ IsInjective(history[j])
    BY <1>1 DEF TurnsInv, EachOnce
  <2> QED BY <2>1, <2>2, Appended DEF TurnsInv, OneSelection
<1> HIDE DEF conversation
<1>3. order' \in Seq(Keys) /\ Len(order') <= MaxLive
  <2>1. order \in Seq(Keys) /\ Len(order) \in Nat /\ Len(order) <= MaxLive /\ KeyOf[j] \in Keys
    BY KeyFacts DEF TurnsInv, TypeOK
  <2>2. /\ Append(order, KeyOf[j]) \in Seq(Keys)
        /\ Len(Append(order, KeyOf[j])) = Len(order) + 1
    BY <2>1
  <2>3. /\ Tail(Append(order, KeyOf[j])) \in Seq(Keys)
        /\ Len(Tail(Append(order, KeyOf[j]))) = Len(order)
    BY <2>1, <2>2
  <2> QED BY <1>1, <2>1, <2>2, <2>3, LiveAssumption DEF Evict
<1>4. TypeOK' /\ \A i \in Jobs : phase'[i] = "waiting" => stage'[i] = "submitted"
  BY <1>1, <1>2, <1>3 DEF TurnsInv, TypeOK, Stages, schedulerVars
<1>5. \A i \in Jobs : \/ live'[KeyOf[i]] = live[KeyOf[i]]
                      \/ KeyOf[i] = KeyOf[j] /\ live'[KeyOf[i]] = conversation
  BY <1>1, KeyFacts DEF TurnsInv, TypeOK
<1>6. OneSelection'
  BY <1>1, <1>2, <1>5, KeyFacts DEF TurnsInv, OneSelection
<1>7. /\ \A i \in Jobs : stage[i] = "saved" => stage'[i] = "saved"
      /\ \A i \in Jobs : stage[i] \notin Asked => stage'[i] \notin Asked
      /\ stage'[j] \notin Asked
      /\ ToSet(row.turns) \subseteq Jobs
      /\ \A i \in Jobs : ToSet(history[i]) \subseteq Jobs /\ ToSet(live[KeyOf[i]]) \subseteq Jobs
  <2>1. \A q \in Seq(Jobs) : ToSet(q) \subseteq Jobs
    BY DEF ToSet
  <2>2. /\ row.turns \in Seq(Jobs)
        /\ \A i \in Jobs : history[i] \in Seq(Jobs) /\ live[KeyOf[i]] \in Seq(Jobs)
    BY KeyFacts DEF TurnsInv, TypeOK
  <2>3. /\ \A i \in Jobs : stage[i] = "saved" => stage'[i] = "saved"
        /\ \A i \in Jobs : stage[i] \notin Asked => stage'[i] \notin Asked
        /\ stage'[j] \notin Asked
    BY <1>1 DEF TurnsInv, TypeOK, Asked
  <2> QED BY <2>1, <2>2, <2>3
<1>8. \A i \in ToSet(conversation) : stage'[i] \notin Asked
  <2>1. \A i \in ToSet(history[j]) : stage'[i] = "saved"
    BY <1>7 DEF TurnsInv, EachOnce
  <2> QED BY <1>2, <1>7, <2>1 DEF Asked
<1>9. EachOnce'
  BY <1>1, <1>2, <1>5, <1>7, <1>8 DEF TurnsInv, EachOnce, Asked
<1>10. NeverStale' /\ TurnsOnce'
  <2>1. \A i \in Jobs : context'[i] = IF i = j THEN conversation ELSE context[i]
    BY <1>1 DEF TurnsInv, TypeOK
  <2> QED BY <1>2, <2>1 DEF TurnsInv, NeverStale, TurnsOnce
<1> QED BY <1>4, <1>6, <1>9, <1>10 DEF TurnsInv

\* The row becomes the turns the request had read, and its own.
LEMMA SaveInv == ASSUME TurnsInv, NEW j \in Jobs, Save(j) PROVE TurnsInv'
<1> DEFINE turns == Append(history[j], j)
<1>1. /\ stage[j] = "finished" /\ stage' = [stage EXCEPT ![j] = "saved"]
      /\ row' = [fingerprint |-> Fingerprint[j], turns |-> turns]
      /\ UNCHANGED <<schedulerVars, history, cache, context, report, aborted, crashes>>
  BY DEF Save
<1>2. /\ turns \in Seq(Jobs) /\ ToSet(turns) = ToSet(history[j]) \cup {j}
      /\ IsInjective(turns)
      /\ \A i \in ToSet(turns) : Fingerprint[i] = Fingerprint[j]
  <2>1. history[j] \in Seq(Jobs)
    BY DEF TurnsInv, TypeOK
  <2>2. j \notin ToSet(history[j]) /\ IsInjective(history[j])
    BY <1>1 DEF TurnsInv, EachOnce
  <2> QED BY <2>1, <2>2, Appended DEF TurnsInv, OneSelection
<1> HIDE DEF turns
<1>3. TypeOK' /\ \A i \in Jobs : phase'[i] = "waiting" => stage'[i] = "submitted"
  BY <1>1, <1>2 DEF TurnsInv, TypeOK, Stages, schedulerVars, cache
<1>4. OneSelection' /\ NeverStale' /\ TurnsOnce'
  BY <1>1, <1>2 DEF TurnsInv, OneSelection, NeverStale, TurnsOnce, cache
<1>5. /\ \A i \in Jobs : stage[i] = "saved" => stage'[i] = "saved"
      /\ \A i \in Jobs : stage[i] \notin Asked => stage'[i] \notin Asked
      /\ stage'[j] = "saved"
      /\ \A i \in Jobs : ToSet(history[i]) \subseteq Jobs /\ ToSet(live[KeyOf[i]]) \subseteq Jobs
  BY <1>1, KeyFacts DEF TurnsInv, TypeOK, Asked, ToSet
<1>6. EachOnce'
  BY <1>1, <1>2, <1>5 DEF TurnsInv, EachOnce, cache, Asked
<1> QED BY <1>3, <1>4, <1>6 DEF TurnsInv

\* A restart: no turn waits, no session lives, and the row is what it was.
LEMMA CrashInv == ASSUME TurnsInv, Crash PROVE TurnsInv'
<1>1. /\ stage' = [j \in Jobs |-> IF stage[j] \in Unfinished THEN "ended" ELSE stage[j]]
      /\ phase' = [j \in Jobs |-> IF phase[j] \in {"waiting", "running"} THEN "rejected"
                                 ELSE phase[j]]
      /\ live' = [k \in Keys |-> <<>>] /\ order' = <<>>
      /\ crashes < MaxCrashes /\ crashes' = crashes + 1
      /\ UNCHANGED <<history, row, context, report, aborted>>
  BY DEF Crash
<1>2. \A j \in Jobs : stage[j] = "saved" => stage'[j] = "saved"
  BY <1>1 DEF Unfinished
<1>3. TypeOK' /\ \A j \in Jobs : phase'[j] = "waiting" => stage'[j] = "submitted"
  BY <1>1, LiveAssumption, BoundAssumption DEF TurnsInv, TypeOK, Stages, Scheduler!Phases
<1>4. \A j \in Jobs : live'[KeyOf[j]] = <<>>
  BY <1>1, KeyFacts
<1>5. OneSelection' /\ NeverStale' /\ TurnsOnce'
  BY <1>1, <1>4, Empty DEF TurnsInv, OneSelection, NeverStale, TurnsOnce
<1>6. ToSet(row.turns) \subseteq Jobs /\ \A j \in Jobs : ToSet(history[j]) \subseteq Jobs
  <2>1. row.turns \in Seq(Jobs) /\ \A j \in Jobs : history[j] \in Seq(Jobs)
    BY DEF TurnsInv, TypeOK
  <2>2. \A q \in Seq(Jobs) : ToSet(q) \subseteq Jobs
    BY DEF ToSet
  <2> QED BY <2>1, <2>2
<1>7. EachOnce'
  <2>1. EachOnce
    BY DEF TurnsInv
  <2>2. IsInjective(row.turns) /\ \A i \in ToSet(row.turns) : stage'[i] = "saved"
    BY <2>1, <1>2, <1>6 DEF EachOnce
  <2>3. \A j \in Jobs : /\ IsInjective(history[j])
                        /\ \A i \in ToSet(history[j]) : stage'[i] = "saved"
    BY <2>1, <1>2, <1>6 DEF EachOnce
  <2>4. IsInjective(<<>>) /\ ToSet(<<>>) = {}
    BY Empty
  <2> QED BY <1>1, <1>4, <2>2, <2>3, <2>4 DEF EachOnce
<1> QED BY <1>3, <1>5, <1>7 DEF TurnsInv

\* Every step, a stutter included, keeps the first part.
LEMMA TurnsNextInv == ASSUME TurnsInv, [Next]_vars PROVE TurnsInv'
<1>1. CASE UNCHANGED vars
  BY <1>1 DEF vars, turnVars, schedulerVars, cache, TurnsInv, TypeOK, OneSelection, EachOnce,
              NeverStale, TurnsOnce
<1>2. ASSUME NEW j \in Jobs,
             Read(j) \/ Answer(j) \/ PromptReturns(j) \/ RunChild(j) \/ Abort(j)
      PROVE  TurnsInv'
  BY <1>2, ReadInv, SubmitInv, SessionCreatedInv, SettleInv, SaveInv, SmallStepInv DEF Answer
<1> QED BY <1>1, <1>2, CrashInv DEF Next, Quiet

-----------------------------------------------------------------------------
(* The scheduler under the turns.  Proved has the theorems of                *)
(* RunScheduler_proofs, whose assumptions are met here; its definitions are  *)
(* those of Scheduler.                                                       *)

Proved == INSTANCE RunScheduler_proofs

LEMMA ItsAssumptions ==
  Limit \in Nat \ {0} /\ NoKey \notin Keys /\ KeyOf \in [Jobs -> Keys \cup {NoKey}]
BY SchedulerAssumption DEF KeyOf, Keys

\* The sets and counts of the two instances,
LEMMA SameSets ==
  /\ \A S : Scheduler!Cardinality(S) = Proved!Cardinality(S)
  /\ \A S : Scheduler!IsFiniteSet(S) <=> Proved!IsFiniteSet(S)
  /\ Scheduler!Waiting = Proved!Waiting
  /\ Scheduler!Running = Proved!Running
  /\ Scheduler!Settled = Proved!Settled
  /\ Scheduler!Phases = Proved!Phases
  /\ \A j, keys : Scheduler!KeyFree(j, keys) <=> Proved!KeyFree(j, keys)
BY DEF Scheduler!Cardinality, Proved!Cardinality, Scheduler!IsFiniteSet, Proved!IsFiniteSet,
       Scheduler!Waiting, Proved!Waiting, Scheduler!Running, Proved!Running,
       Scheduler!Settled, Proved!Settled, Scheduler!Outcomes, Proved!Outcomes,
       Scheduler!Phases, Proved!Phases, Scheduler!KeyFree, Proved!KeyFree

\* their invariants,
LEMMA SameInv == Scheduler!IndInv <=> Proved!IndInv
BY SameSets
DEF Scheduler!IndInv, Proved!IndInv, Scheduler!TypeOK, Proved!TypeOK,
    Scheduler!TicketsOrdered, Proved!TicketsOrdered,
    Scheduler!SlotsAccounted, Proved!SlotsAccounted,
    Scheduler!SessionExclusive, Proved!SessionExclusive,
    Scheduler!FifoPerKey, Proved!FifoPerKey,
    Scheduler!WorkConserving, Proved!WorkConserving,
    Scheduler!OneChildPerPermit, Proved!OneChildPerPermit

\* and their actions are the same.
LEMMA SameDrain ==
  ASSUME NEW w, NEW tk, NEW a, NEW keys, NEW ph
  PROVE  Scheduler!Drain(w, tk, a, keys, ph) <=> Proved!Drain(w, tk, a, keys, ph)
<1>1. Scheduler!Started(w, tk, a, keys) = Proved!Started(w, tk, a, keys)
  BY DEF Scheduler!Started, Proved!Started, Scheduler!Startable, Proved!Startable,
         Scheduler!KeyFree, Proved!KeyFree, Scheduler!Cardinality, Proved!Cardinality
<1> QED BY <1>1 DEF Scheduler!Drain, Proved!Drain, Scheduler!Cardinality, Proved!Cardinality

LEMMA SameActions ==
  ASSUME NEW j \in Jobs, NEW outcome \in Scheduler!Outcomes
  PROVE  /\ Scheduler!Run(j) => Proved!Run(j)
         /\ Scheduler!Complete(j, outcome) => Proved!Complete(j, outcome)
         /\ Scheduler!RunChild(j) => Proved!RunChild(j)
         /\ Scheduler!ChildDone(j) => Proved!ChildDone(j)
<1>1. Scheduler!Run(j) => Proved!Run(j)
  BY SameSets, SameDrain
  DEF Scheduler!Run, Proved!Run, Scheduler!CanStartNow, Proved!CanStartNow,
      Scheduler!permits, Proved!permits
<1>2. Scheduler!Complete(j, outcome) => Proved!Complete(j, outcome)
  BY SameSets, SameDrain
  DEF Scheduler!Complete, Proved!Complete, Scheduler!permits, Proved!permits
<1>3. /\ Scheduler!RunChild(j) => Proved!RunChild(j)
      /\ Scheduler!ChildDone(j) => Proved!ChildDone(j)
  BY DEF Scheduler!RunChild, Proved!RunChild, Scheduler!ChildDone, Proved!ChildDone
<1> QED BY <1>1, <1>2, <1>3

\* A step of the scheduler keeps what it promises,
LEMMA SchedulerInv ==
  ASSUME Scheduler!IndInv, NEW j \in Jobs, NEW outcome \in Scheduler!Outcomes,
         \/ Scheduler!Run(j) \/ Scheduler!Complete(j, outcome)
         \/ Scheduler!RunChild(j) \/ Scheduler!ChildDone(j)
  PROVE  Scheduler!IndInv'
<1>1. Proved!IndInv /\ outcome \in Proved!Outcomes
  BY SameInv DEF Scheduler!Outcomes, Proved!Outcomes
<1>2. Proved!IndInv'
  <2>1. CASE Proved!Run(j)
    BY <1>1, <2>1, ItsAssumptions, Proved!RunInv
  <2>2. CASE Proved!Complete(j, outcome)
    BY <1>1, <2>2, ItsAssumptions, Proved!CompleteInv
  <2>3. CASE Proved!RunChild(j) \/ Proved!ChildDone(j)
    BY <1>1, <2>3, ItsAssumptions, Proved!ChildInv
  <2> QED BY <2>1, <2>2, <2>3, SameActions
<1>3. Scheduler!IndInv' <=> Proved!IndInv'
  BY SameInv, PTL
<1> QED BY <1>2, <1>3

\* and so does what leaves it alone.
LEMMA SchedulerRests ==
  ASSUME Scheduler!IndInv, UNCHANGED schedulerVars
  PROVE  Scheduler!IndInv'
<1>1. Proved!IndInv /\ UNCHANGED Proved!vars
  BY SameInv DEF schedulerVars, Proved!vars
<1>2. Proved!IndInv'
  BY <1>1, ItsAssumptions, Proved!StutterInv
<1>3. Scheduler!IndInv' <=> Proved!IndInv'
  BY SameInv, PTL
<1> QED BY <1>2, <1>3

\* A restart forgets the jobs, and what the scheduler kept of them.
LEMMA ForgetInv ==
  ASSUME TypeOK, Scheduler!IndInv, Crash
  PROVE  Scheduler!IndInv'
<1>1. /\ \A j \in Jobs : phase'[j] \notin {"waiting", "running"}
      /\ \A j \in Jobs : phase'[j] = "new" <=> phase[j] = "new"
      /\ phase' \in [Jobs -> Scheduler!Phases]
      /\ active' = 0 /\ activeKeys' = {} /\ childActive' = {}
      /\ children' = [j \in Jobs |-> 0]
      /\ UNCHANGED <<ticket, pushes, queued, refused>>
  BY DEF Crash, TypeOK, Scheduler!Phases
<1>2. Scheduler!Waiting' = {} /\ Scheduler!Running' = {}
  BY <1>1 DEF Scheduler!Waiting, Scheduler!Running
<1>3. Scheduler!IsFiniteSet({}) /\ Scheduler!Cardinality({}) = 0
  <2>1. IsFiniteSet({}) /\ Cardinality({}) = 0
    BY FS_EmptySet
  <2> QED BY <2>1 DEF IsFiniteSet, Cardinality, Scheduler!IsFiniteSet, Scheduler!Cardinality
<1>4. Scheduler!TypeOK' /\ Scheduler!TicketsOrdered'
  BY <1>1, <1>2, <1>3 DEF Scheduler!IndInv, Scheduler!TypeOK, Scheduler!TicketsOrdered
<1>5. Scheduler!SlotsAccounted' /\ Scheduler!SessionExclusive'
  BY <1>1, <1>2, <1>3, SchedulerAssumption
  DEF Scheduler!SlotsAccounted, Scheduler!SessionExclusive
<1>6. Scheduler!FifoPerKey' /\ Scheduler!WorkConserving' /\ Scheduler!OneChildPerPermit'
  BY <1>1, <1>2 DEF Scheduler!FifoPerKey, Scheduler!WorkConserving, Scheduler!OneChildPerPermit
<1> QED BY <1>4, <1>5, <1>6 DEF Scheduler!IndInv

\* Who ran goes on, but for the job that settles; who begins runs.
LEMMA StillRunning ==
  ASSUME NEW w, w \subseteq Jobs, NEW tk, NEW a, NEW keys, NEW ph,
         Scheduler!Drain(w, tk, a, keys, ph)
  PROVE  \A j \in Jobs \ w : phase'[j] = ph[j]
<1>1. Scheduler!Started(w, tk, a, keys) \subseteq w
  BY DEF Scheduler!Started, Scheduler!Startable
<1> QED BY <1>1 DEF Scheduler!Drain

\* When turns begin, the other turns but the one that was submitted or settles
\* stay where they are.
LEMMA Begins ==
  ASSUME TypeOK, NEW j \in Jobs, Submit(j) \/ Settle(j), NEW i \in Jobs
  PROVE  /\ i \in Begun => stage'[i] \in AtWork \cup {"finished"}
         /\ i \notin Begun /\ i # j => stage'[i] = stage[i]
         /\ j \notin Begun => stage'[j] \in {"submitted", "finished", "ended"}
<1>1. PICK place \in {"submitted", "finished", "ended"} :
        StartTasks(Begun, [stage EXCEPT ![j] = place])
  BY DEF Submit, Settle
<1> DEFINE stages == [stage EXCEPT ![j] = place]
<1>2. stages[j] = place /\ \A k \in Jobs \ {j} : stages[k] = stage[k]
  BY DEF TypeOK
<1> HIDE DEF stages
<1>3. StartTasks(Begun, stages)
  BY <1>1 DEF stages
<1>4. \A k \in Jobs \ Begun : stage'[k] = stages[k]
  BY <1>3 DEF StartTasks
<1>5. i \in Begun => stage'[i] \in AtWork \cup {"finished"}
  BY <1>3 DEF StartTasks, AtWork
<1> QED BY <1>1, <1>2, <1>4, <1>5

\* The job of a turn that was submitted had not run, that of a turn that settles
\* does not run on, and a permit is not touched.
LEMMA OwnJob ==
  ASSUME TypeOK, NEW j \in Jobs, Submit(j) \/ Settle(j)
  PROVE  /\ j \notin Begun => phase'[j] # "running"
         /\ \A i \in Jobs \ {j} : phase[i] = "running" => phase'[i] = "running"
         /\ stage[j] # "prompting" /\ stage[j] \notin AtWork
         /\ children' = children
<1>1. stage[j] # "prompting" /\ stage[j] \notin AtWork /\ children' = children
  BY DEF Submit, Settle, Scheduler!Run, Scheduler!Complete, Scheduler!permits, AtWork
<1>2. CASE Submit(j)
  <2>1. /\ phase[j] = "new" /\ Scheduler!Waiting \cup {j} \subseteq Jobs
        /\ Scheduler!Drain(Scheduler!Waiting \cup {j}, ticket', active, activeKeys, phase)
    BY <1>2 DEF Submit, Scheduler!Run, Scheduler!Waiting
  <2>2. \A i \in Jobs \ {j} : phase[i] = "running" => phase'[i] = "running"
    BY <2>1, StillRunning DEF Scheduler!Waiting
  <2> QED BY <1>1, <2>1, <2>2 DEF Begun
<1>3. CASE Settle(j)
  <2> DEFINE outcome == IF stage[j] = "failed" THEN "rejected" ELSE "resolved"
             ph == [phase EXCEPT ![j] = outcome]
  <2>1. /\ Scheduler!Drain(Scheduler!Waiting, ticket, active - 1, activeKeys \ {KeyOf[j]}, ph)
        /\ phase[j] = "running" /\ Scheduler!Waiting \subseteq Jobs
    BY <1>3 DEF Settle, Scheduler!Complete, Scheduler!Waiting
  <2>2. ph[j] # "running" /\ \A i \in Jobs \ {j} : ph[i] = phase[i]
    BY DEF TypeOK
  <2> HIDE DEF ph
  <2>3. \A i \in Jobs \ Scheduler!Waiting : phase'[i] = ph[i]
    BY <2>1, StillRunning
  <2> QED BY <1>1, <2>1, <2>2, <2>3 DEF Scheduler!Waiting
<1> QED BY <1>2, <1>3

\* A turn is at work only while its job runs, and the job runs no longer: it begins
\* with the job, and has finished when the job settles.
LEMMA WorkInv ==
  ASSUME TypeOK, Engaged, NEW j \in Jobs, Submit(j) \/ Settle(j), NEW i \in Jobs
  PROVE  /\ stage'[i] \in AtWork => phase'[i] = "running"
         /\ phase'[i] = "running" => stage'[i] \in AtWork \cup {"finished", "failed"}
         /\ children'[i] > 0 => stage'[i] = "prompting"
<1>1. /\ stage[i] \in AtWork => phase[i] = "running"
      /\ phase[i] = "running" => stage[i] \in AtWork \cup {"finished", "failed"}
      /\ children[i] > 0 => stage[i] = "prompting"
  BY DEF Engaged
<1>2. CASE i \in Begun
  <2>1. phase[i] # "running" /\ phase'[i] = "running"
    BY <1>2 DEF Begun
  <2>2. ~(children[i] > 0)
    BY <1>1, <2>1 DEF AtWork
  <2> QED BY <1>2, <2>1, <2>2, Begins, OwnJob
<1>3. CASE i \notin Begun /\ i = j
  <2>1. phase'[i] # "running" /\ stage'[i] \notin AtWork
    BY <1>3, Begins, OwnJob DEF AtWork
  <2>2. ~(children'[i] > 0)
    BY <1>1, <1>3, OwnJob
  <2> QED BY <2>1, <2>2
<1>4. CASE i \notin Begun /\ i # j
  <2>1. stage'[i] = stage[i] /\ children' = children
    BY <1>4, Begins, OwnJob
  <2>2. phase'[i] = "running" <=> phase[i] = "running"
    BY <1>4, OwnJob DEF Begun
  <2> QED BY <1>1, <2>1, <2>2
<1> QED BY <1>2, <1>3, <1>4

\* Every step keeps the second part of the invariant.
LEMMA EngagedNextInv == ASSUME TypeOK, Engaged, [Next]_vars PROVE Engaged'
<1> DEFINE Bound(i) == /\ stage[i] \in AtWork => phase[i] = "running"
                       /\ phase[i] = "running" => stage[i] \in AtWork \cup {"finished", "failed"}
                       /\ children[i] > 0 => stage[i] = "prompting"
<1>0. Scheduler!IndInv /\ \A i \in Jobs : Bound(i)
  BY DEF Engaged
<1>1. ASSUME NEW j \in Jobs, Submit(j) \/ Settle(j) PROVE Engaged'
  <2>1. PICK outcome \in Scheduler!Outcomes :
          Scheduler!Run(j) \/ Scheduler!Complete(j, outcome)
    BY <1>1 DEF Submit, Settle, Scheduler!Outcomes
  <2>2. Scheduler!IndInv'
    BY <1>0, <2>1, SchedulerInv
  <2> QED BY <1>1, <2>2, WorkInv DEF Engaged
<1>2. ASSUME NEW j \in Jobs,
             \/ Read(j) \/ LoadFails(j) \/ SessionCreated(j) \/ Save(j) \/ PromptReturns(j)
             \/ Abort(j)
      PROVE  Engaged'
  <2>1. UNCHANGED schedulerVars /\ phase' = phase /\ children' = children
    BY <1>2 DEF Read, LoadFails, SessionCreated, Save, PromptReturns, PromptEnds, Abort,
                schedulerVars
  <2>2. /\ \A i \in Jobs \ {j} : stage'[i] = stage[i]
        /\ \/ stage'[j] = stage[j]
           \/ stage[j] = "new" /\ stage'[j] = "read"
           \/ stage[j] = "loading" /\ stage'[j] \in {"failed", "prompting"}
           \/ stage[j] = "prompting" /\ children[j] = 0 /\ stage'[j] = "finished"
           \/ stage[j] = "finished" /\ phase[j] = "resolved" /\ stage'[j] = "saved"
    BY <1>2 DEF Read, LoadFails, SessionCreated, Save, PromptReturns, PromptEnds, Abort,
                turnVars, TypeOK
  <2>3. \A i \in Jobs : Bound(i)'
    BY <1>0, <2>1, <2>2 DEF AtWork
  <2> QED BY <1>0, <2>1, <2>3, SchedulerRests DEF Engaged
<1>3. ASSUME NEW j \in Jobs, RunChild(j) \/ ChildDone(j) PROVE Engaged'
  <2>1. Scheduler!RunChild(j) \/ Scheduler!ChildDone(j)
    BY <1>3 DEF RunChild, ChildDone
  <2>2. "resolved" \in Scheduler!Outcomes /\ children \in [Jobs -> Nat]
    BY <1>0 DEF Scheduler!Outcomes, Scheduler!IndInv, Scheduler!TypeOK
  <2>3. phase' = phase /\ stage' = stage
    BY <1>3 DEF RunChild, ChildDone, Scheduler!RunChild, Scheduler!ChildDone, turnVars
  <2>4. \A i \in Jobs : children'[i] > 0 => children[i] > 0 \/ stage[i] = "prompting"
    BY <1>3, <2>2 DEF RunChild, ChildDone, Scheduler!RunChild, Scheduler!ChildDone
  <2>5. \A i \in Jobs : Bound(i)'
    BY <1>0, <2>3, <2>4
  <2> QED BY <1>0, <2>1, <2>2, <2>5, SchedulerInv DEF Engaged
<1>4. CASE Crash
  <2>1. \A i \in Jobs : /\ stage'[i] \notin AtWork /\ phase'[i] # "running"
                        /\ ~(children'[i] > 0)
    BY <1>4 DEF Crash, Unfinished, AtWork, Stages
  <2> QED BY <1>0, <1>4, <2>1, ForgetInv DEF Engaged
<1>5. CASE UNCHANGED vars
  <2>1. UNCHANGED <<schedulerVars, phase, children, stage>>
    BY <1>5 DEF vars, turnVars, schedulerVars
  <2> QED BY <1>0, <2>1, SchedulerRests DEF Engaged
<1> QED BY <1>1, <1>2, <1>3, <1>4, <1>5 DEF Next, Answer, Quiet

\* Who begins had waited, or is the turn that was submitted.
LEMMA BegunWaited ==
  ASSUME TurnsInv, NEW j \in Jobs, Submit(j) \/ Settle(j), NEW i \in Begun
  PROVE  stage[i] \in {"read", "submitted"}
<1>1. i \in Jobs /\ phase[i] # "running" /\ phase'[i] = "running"
  BY DEF Begun
<1>2. phase[i] = "waiting" => stage[i] = "submitted"
  BY <1>1 DEF TurnsInv
<1>3. CASE Submit(j)
  <2>1. /\ stage[j] = "read" /\ Scheduler!Waiting \cup {j} \subseteq Jobs
        /\ Scheduler!Drain(Scheduler!Waiting \cup {j}, ticket', active, activeKeys, phase)
    BY <1>3 DEF Submit, Scheduler!Run, Scheduler!Waiting
  <2>2. i \in Scheduler!Waiting \cup {j}
    BY <1>1, <2>1, StillRunning
  <2> QED BY <1>2, <2>1, <2>2 DEF Scheduler!Waiting
<1>4. CASE Settle(j)
  <2> DEFINE outcome == IF stage[j] = "failed" THEN "rejected" ELSE "resolved"
             ph == [phase EXCEPT ![j] = outcome]
  <2>1. /\ Scheduler!Drain(Scheduler!Waiting, ticket, active - 1, activeKeys \ {KeyOf[j]}, ph)
        /\ Scheduler!Waiting \subseteq Jobs
    BY <1>4 DEF Settle, Scheduler!Complete, Scheduler!Waiting
  <2>2. ph[i] # "running"
    BY <1>1 DEF TurnsInv, TypeOK
  <2> HIDE DEF ph
  <2>3. i \in Scheduler!Waiting
    BY <1>1, <2>1, <2>2, StillRunning
  <2> QED BY <1>2, <2>3 DEF Scheduler!Waiting
<1> QED BY <1>3, <1>4

\* A turn that settles ends, unless there is a report to save.
LEMMA Settles ==
  ASSUME TypeOK, NEW j \in Jobs, Settle(j)
  PROVE  stage'[j] = IF j \in report THEN "finished" ELSE "ended"
<1> DEFINE stages == [stage EXCEPT ![j] = IF j \in report THEN "finished" ELSE "ended"]
<1>1. j \notin Begun
  BY DEF Settle, Scheduler!Complete, Begun
<1>2. StartTasks(Begun, stages)
  BY DEF Settle
<1>3. stages[j] = IF j \in report THEN "finished" ELSE "ended"
  BY DEF TypeOK
<1> HIDE DEF stages
<1> QED BY <1>1, <1>2, <1>3 DEF StartTasks

\* A report is of a turn that was put to the model.
LEMMA ReportsNextInv == ASSUME TurnsInv, ReportsFit, [Next]_vars PROVE ReportsFit'
<1>0. TypeOK /\ stage \in [Jobs -> Stages] /\ report \subseteq Jobs
  BY DEF TurnsInv, TypeOK
<1>1. ASSUME NEW j \in Jobs, Submit(j) \/ Settle(j) PROVE ReportsFit'
  <2> SUFFICES ASSUME NEW i \in report PROVE stage'[i] \in {"finished", "saved", "ended"}
    BY <1>1 DEF ReportsFit, Submit, Settle
  <2>1. i \in Jobs /\ stage[i] \in {"finished", "saved", "ended"} /\ i \notin Begun
    BY <1>0, <1>1, BegunWaited DEF ReportsFit
  <2>2. CASE i # j
    BY <1>0, <1>1, <2>1, <2>2, Begins
  <2>3. CASE i = j
    BY <1>0, <1>1, <2>1, <2>3, Settles DEF Submit
  <2> QED BY <2>2, <2>3
<1>2. ASSUME NEW j \in Jobs,
             \/ Read(j) \/ LoadFails(j) \/ SessionCreated(j) \/ ChildDone(j) \/ Save(j)
             \/ PromptReturns(j) \/ RunChild(j) \/ Abort(j)
      PROVE  ReportsFit'
  BY <1>0, <1>2
  DEF ReportsFit, Read, LoadFails, SessionCreated, ChildDone, Save, PromptReturns, PromptEnds,
      RunChild, Abort, turnVars
<1>3. CASE Crash
  BY <1>0, <1>3 DEF ReportsFit, Crash, Unfinished
<1>4. CASE UNCHANGED vars
  BY <1>4 DEF ReportsFit, vars, turnVars
<1> QED BY <1>1, <1>2, <1>3, <1>4 DEF Next, Answer, Quiet

\* Two turns of one session are never at work together, nor more than Limit.
LEMMA Apart == Engaged => OneTurnPerSession
<1> SUFFICES ASSUME Engaged PROVE OneTurnPerSession
  OBVIOUS
<1>1. {j \in Jobs : stage[j] \in AtWork} \subseteq Scheduler!Running
  BY DEF Engaged, Scheduler!Running
<1>2. IsFiniteSet(Scheduler!Running) /\ Cardinality(Scheduler!Running) <= Limit
  BY DEF Engaged, Scheduler!IndInv, Scheduler!SlotsAccounted, IsFiniteSet, Cardinality,
         Scheduler!IsFiniteSet, Scheduler!Cardinality
<1>3. Cardinality({j \in Jobs : stage[j] \in AtWork}) <= Limit
  BY <1>1, <1>2, FS_Subset, FS_CardinalityType, SchedulerAssumption
<1>4. \A i, j \in Jobs : {stage[i], stage[j]} \subseteq AtWork /\ KeyOf[i] = KeyOf[j] => i = j
  BY <1>1, KeyFacts, SchedulerAssumption DEF Engaged, Scheduler!IndInv, Scheduler!SessionExclusive
<1> QED BY <1>3, <1>4 DEF OneTurnPerSession

\* A turn waits for one that can move.  While a slot is free it is its session that
\* is busy, and while none is, Limit turns run.
LEMMA SomeoneMoves == Engaged => WaitsForTurn
<1>0. ASSUME Engaged, NEW i \in Scheduler!Running
      PROVE  /\ i \in Jobs /\ phase[i] = "running"
             /\ stage[i] \in AtWork \cup {"finished", "failed"}
             /\ children[i] > 0 => stage[i] = "prompting" /\ i \in childActive
  <2>1. i \in Jobs /\ phase[i] = "running"
    BY DEF Scheduler!Running
  <2>2. children[i] \in Nat
    BY <1>0, <2>1 DEF Engaged, Scheduler!IndInv, Scheduler!TypeOK
  <2>3. children[i] <= 1 /\ (children[i] = 1 => i \in childActive)
    BY <1>0, <2>1 DEF Engaged, Scheduler!IndInv, Scheduler!OneChildPerPermit
  <2>4. /\ stage[i] \in AtWork \cup {"finished", "failed"}
        /\ children[i] > 0 => stage[i] = "prompting"
    BY <1>0, <2>1 DEF Engaged
  <2>5. children[i] > 0 => children[i] = 1
    BY <2>2, <2>3
  <2> QED BY <2>1, <2>3, <2>4, <2>5
<1> SUFFICES ASSUME Engaged, NEW j \in Jobs, phase[j] = "waiting"
             PROVE  \E i \in Scheduler!Running : KeyOf[i] = KeyOf[j] \/ active = Limit
  BY <1>0 DEF WaitsForTurn
<1>1. /\ active = Cardinality(Scheduler!Running) /\ active \in Nat /\ active <= Limit
      /\ activeKeys = {KeyOf[i] : i \in Scheduler!Running} \ {NoKey}
      /\ active < Limit => \A i \in Scheduler!Waiting : ~Scheduler!KeyFree(i, activeKeys)
  BY DEF Engaged, Scheduler!IndInv, Scheduler!TypeOK, Scheduler!SlotsAccounted, Cardinality,
         Scheduler!Cardinality, Scheduler!SessionExclusive, Scheduler!WorkConserving
<1>2. CASE active < Limit
  <2>1. j \in Scheduler!Waiting
    BY DEF Scheduler!Waiting
  <2>2. KeyOf[j] \in {KeyOf[i] : i \in Scheduler!Running}
    BY <1>1, <1>2, <2>1 DEF Scheduler!KeyFree
  <2> QED BY <2>2
<1>3. CASE active = Limit
  <2>1. Scheduler!Running # {}
    BY <1>1, <1>3, SchedulerAssumption, FS_EmptySet
  <2> QED BY <1>3, <2>1
<1> QED BY <1>1, <1>2, <1>3, SchedulerAssumption

\* Every step, a stutter included, keeps the invariant.
LEMMA NextInv == ASSUME IndInv, [Next]_vars PROVE IndInv'
<1>1. TurnsInv' /\ ReportsFit'
  BY TurnsNextInv, ReportsNextInv DEF IndInv
<1>2. Engaged'
  BY EngagedNextInv DEF IndInv, TurnsInv
<1>3. Engaged' => OneTurnPerSession' /\ WaitsForTurn'
  BY Apart, SomeoneMoves, PTL
<1> QED BY <1>1, <1>2, <1>3 DEF IndInv

\* The first state satisfies the inductive invariant.
LEMMA InitInv == Init => IndInv
<1> SUFFICES ASSUME Init PROVE IndInv
  OBVIOUS
<1>1. Proved!Init
  BY DEF Init, Scheduler!Init, Proved!Init
<1>2. Proved!IndInv
  BY <1>1, ItsAssumptions, Proved!InitInv
<1>3. Engaged
  BY <1>2, SameInv DEF Engaged, Init, Scheduler!Init, AtWork
<1>4. ReportsFit
  BY DEF Init, ReportsFit
<1> QED BY <1>3, <1>4, TurnsInitInv, Apart, SomeoneMoves DEF IndInv

-----------------------------------------------------------------------------
\* The inductive invariant holds in every reachable state.
THEOREM Invariance == Spec => []IndInv
<1>1. Init => IndInv
  BY InitInv
<1>2. IndInv /\ [Next]_vars => IndInv'
  BY NextInv
<1> QED BY <1>1, <1>2, PTL DEF Spec

\* The model is shown turns of one selection only (runner.ts:202, server.ts:368).
THEOREM Selected == Spec => []NeverStale
<1>1. IndInv => NeverStale
  BY DEF IndInv, TurnsInv
<1> QED BY <1>1, Invariance, PTL

\* And each of them once, the one it is asked last (runner.ts:384).
THEOREM NoTurnTwice == Spec => []TurnsOnce
<1>1. IndInv => TurnsOnce
  BY DEF IndInv, TurnsInv
<1> QED BY <1>1, Invariance, PTL

-----------------------------------------------------------------------------
(* A turn whose client left in the queue.  It is skipped when the scheduler  *)
(* comes to it, much later, and the row, the copies of the row and the live  *)
(* sessions change in between: that none of them ever holds it takes that it *)
(* is in none of them, and has no report, when its client leaves.            *)

GivenUp(j) ==
  /\ j \in aborted /\ j \notin report
  /\ \/ stage[j] \in {"submitted", "ended"}
     \/ stage[j] = "finished" /\ phase[j] = "running"
  /\ j \notin ToSet(row.turns)
  /\ \A i \in Jobs : j \notin ToSet(history[i])
  /\ \A k \in Keys : j \notin ToSet(live[k])

\* Turns begin: a turn that was given up returns at once, and its question is put
\* to no session.
LEMMA SkippedAtOnce ==
  ASSUME TypeOK, NEW j \in Jobs, Submit(j) \/ Settle(j), NEW i \in aborted
  PROVE  /\ i \in Begun => stage'[i] = "finished"
         /\ \A k \in Keys : i \notin ToSet(live[k]) => i \notin ToSet(live'[k])
<1>1. PICK stages : StartTasks(Begun, stages)
  BY DEF Submit, Settle
<1> DEFINE run == {c \in Begun : c \notin aborted}
           cached == {c \in run : Contains(order, KeyOf[c])}
           prompt(c) == Append(live[KeyOf[c]], c)
<1>2. /\ stage' = [c \in Jobs |-> CASE c \in Begun \ run -> "finished"
                                    [] c \in cached -> "prompting"
                                    [] c \in run \ cached -> "loading"
                                    [] OTHER -> stages[c]]
      /\ live' = [k \in Keys |->
           IF \E c \in cached : KeyOf[c] = k
           THEN prompt(CHOOSE c \in cached : KeyOf[c] = k) ELSE live[k]]
  BY <1>1 DEF StartTasks
<1>3. cached \subseteq run /\ (i \in Begun => i \in Jobs /\ i \in Begun \ run)
  BY DEF Begun
<1>4. \A c \in cached : c \in Jobs /\ c # i
  BY DEF Begun
<1>5. live \in [Keys -> Seq(Jobs)]
  BY DEF TypeOK
<1> HIDE DEF run, cached
<1>6. ASSUME NEW k \in Keys, i \notin ToSet(live[k]) PROVE i \notin ToSet(live'[k])
  <2>1. CASE live'[k] = live[k]
    BY <1>6, <2>1
  <2>2. CASE \E c \in cached : KeyOf[c] = k /\ live'[k] = prompt(c)
    <3>1. PICK c \in cached : KeyOf[c] = k /\ live'[k] = Append(live[k], c)
      BY <2>2
    <3>2. ToSet(live'[k]) = ToSet(live[k]) \cup {c}
      BY <1>4, <1>5, <3>1, Appended
    <3> QED BY <1>4, <1>6, <3>1, <3>2
  <2> QED BY <1>2, <2>1, <2>2
<1> QED BY <1>2, <1>3, <1>6

\* Every step keeps a turn that was given up so.
LEMMA StaysGivenUp ==
  ASSUME TurnsInv, [Next]_vars, NEW j \in Jobs, GivenUp(j)
  PROVE  GivenUp(j)'
<1>0. /\ TypeOK /\ stage \in [Jobs -> Stages] /\ phase \in [Jobs -> Scheduler!Phases]
      /\ history \in [Jobs -> Seq(Jobs)] /\ live \in [Keys -> Seq(Jobs)]
  BY DEF TurnsInv, TypeOK
<1>1. ASSUME NEW i \in Jobs, Submit(i) \/ Settle(i) PROVE GivenUp(j)'
  <2>1. UNCHANGED <<history, row, report, aborted>>
    BY <1>1 DEF Submit, Settle
  <2>2. \A k \in Keys : j \notin ToSet(live'[k])
    BY <1>0, <1>1, SkippedAtOnce DEF GivenUp
  <2>3. \/ stage'[j] \in {"submitted", "ended"}
        \/ stage'[j] = "finished" /\ phase'[j] = "running"
    <3>1. CASE j \in Begun
      BY <1>0, <1>1, <3>1, SkippedAtOnce DEF GivenUp, Begun
    <3>2. CASE j \notin Begun /\ j # i
      BY <1>0, <1>1, <3>2, Begins, OwnJob DEF GivenUp
    <3>3. CASE j = i
      BY <1>0, <1>1, <3>3, Settles DEF GivenUp, Submit
    <3> QED BY <3>1, <3>2, <3>3
  <2> QED BY <2>1, <2>2, <2>3 DEF GivenUp
<1>2. ASSUME NEW i \in Jobs, Read(i) PROVE GivenUp(j)'
  <2>1. /\ i # j /\ stage' = [stage EXCEPT ![i] = "read"]
        /\ \A c \in Jobs : history'[c] \in {history[c], row.turns, <<>>}
        /\ UNCHANGED <<phase, row, live, report, aborted>>
    BY <1>0, <1>2 DEF Read, GivenUp, schedulerVars, cache
  <2>2. \A c \in Jobs : j \notin ToSet(history'[c])
    BY <2>1, Empty DEF GivenUp
  <2> QED BY <1>0, <2>1, <2>2 DEF GivenUp
<1>3. ASSUME NEW i \in Jobs, SessionCreated(i) PROVE GivenUp(j)'
  <2>1. /\ i # j /\ stage' = [stage EXCEPT ![i] = "prompting"]
        /\ live' = [live EXCEPT ![KeyOf[i]] = Append(history[i], i)]
        /\ UNCHANGED <<phase, history, row, report, aborted>>
    BY <1>3 DEF SessionCreated, GivenUp, schedulerVars
  <2>2. ToSet(Append(history[i], i)) = ToSet(history[i]) \cup {i}
    BY <1>0, Appended
  <2>3. \A k \in Keys : j \notin ToSet(live'[k])
    BY <1>0, <2>1, <2>2 DEF GivenUp
  <2> QED BY <1>0, <2>1, <2>3 DEF GivenUp
<1>4. ASSUME NEW i \in Jobs, Save(i) PROVE GivenUp(j)'
  <2>1. /\ i # j /\ stage' = [stage EXCEPT ![i] = "saved"]
        /\ row'.turns = Append(history[i], i)
        /\ UNCHANGED <<phase, history, live, report, aborted>>
    BY <1>4 DEF Save, GivenUp, schedulerVars, cache
  <2>2. j \notin ToSet(row'.turns)
    BY <1>0, <2>1, Appended DEF GivenUp
  <2> QED BY <1>0, <2>1, <2>2 DEF GivenUp
<1>5. ASSUME NEW i \in Jobs,
             \/ LoadFails(i) \/ PromptReturns(i) \/ RunChild(i) \/ ChildDone(i) \/ Abort(i)
      PROVE  GivenUp(j)'
  <2>1. UNCHANGED <<phase, history, row, live>>
    BY <1>5 DEF LoadFails, PromptReturns, PromptEnds, RunChild, ChildDone, Abort,
                Scheduler!RunChild, Scheduler!ChildDone, schedulerVars, cache
  <2>2. stage'[j] = stage[j] /\ j \in aborted' /\ j \notin report'
    BY <1>0, <1>5 DEF LoadFails, PromptReturns, PromptEnds, RunChild, ChildDone, Abort,
                      turnVars, GivenUp
  <2> QED BY <2>1, <2>2 DEF GivenUp
<1>6. CASE Crash
  <2>1. /\ stage'[j] = "ended" /\ \A k \in Keys : live'[k] = <<>>
        /\ UNCHANGED <<history, row, report, aborted>>
    BY <1>6 DEF Crash, GivenUp, Unfinished, Stages
  <2> QED BY <2>1, Empty DEF GivenUp
<1>7. CASE UNCHANGED vars
  BY <1>7 DEF GivenUp, vars, turnVars, schedulerVars, cache
<1> QED BY <1>1, <1>2, <1>3, <1>4, <1>5, <1>6, <1>7 DEF Next, Answer, Quiet

\* A turn whose client left in the queue never starts, is never saved, and is in no
\* conversation that a later turn goes on with, restarts included (runner.ts:177).
THEOREM LeftSkipped == Spec => LeftIsSkipped
<1> SUFFICES ASSUME NEW j \in Jobs
             PROVE  Spec => [](j \in aborted /\ stage[j] = "submitted" => []Untold(j))
  BY DEF LeftIsSkipped
<1>1. IndInv /\ j \in aborted /\ stage[j] = "submitted" => GivenUp(j)
  <2> SUFFICES ASSUME IndInv, j \in aborted, stage[j] = "submitted" PROVE GivenUp(j)
    OBVIOUS
  <2>1. EachOnce /\ j \notin report
    BY DEF IndInv, TurnsInv, ReportsFit
  <2>2. \A k \in Keys : j \notin ToSet(live[k])
    BY <2>1, KeyFacts DEF EachOnce
  <2> QED BY <2>1, <2>2 DEF GivenUp, EachOnce
<1>2. IndInv /\ GivenUp(j) /\ [Next]_vars => GivenUp(j)'
  BY StaysGivenUp DEF IndInv
<1>3. GivenUp(j) => Untold(j)
  BY DEF GivenUp, Untold, AtWork
<1> QED BY <1>1, <1>2, <1>3, Invariance, PTL DEF Spec

-----------------------------------------------------------------------------
\* The scheduler keeps its promises under the turns of a conversation, and over
\* restarts: order, exclusion, slots, permits.
THEOREM SchedulerKept == Spec => []Scheduler!IndInv
<1>1. IndInv => Scheduler!IndInv
  BY DEF IndInv, Engaged
<1> QED BY <1>1, Invariance, PTL

\* No live session is put to work by two turns at once, and the provider never has
\* more than Limit turns, whatever is aborted, evicted or restarted.
THEOREM SessionsApart == Spec => []OneTurnPerSession
<1>1. IndInv => OneTurnPerSession
  BY DEF IndInv
<1> QED BY <1>1, Invariance, PTL

\* A turn that waits waits for one that can move, and that holds its session or one
\* of the Limit slots: no circle of turns, and no slot lost to a turn that has left,
\* failed or was refused a child, keeps the queue standing.
THEOREM NobodyStuck == Spec => []WaitsForTurn
<1>1. IndInv => WaitsForTurn
  BY DEF IndInv
<1> QED BY <1>1, Invariance, PTL

-----------------------------------------------------------------------------
(* The lanes under the turns: a step of the scheduler is a step of its       *)
(* lanes, whoever takes it, and a restart is a new beginning.                *)

\* The lanes of the two instances are the same.
LEMMA SameLanes ==
  /\ Lanes!vars = Proved!Promise!vars
  /\ \A j \in Jobs : /\ Proved!Promise!Arrive(j) => Lanes!Arrive(j)
                     /\ Proved!Promise!Leave(j) => Lanes!Leave(j)
<1>1. /\ Scheduler!Standing = Proved!Standing /\ Scheduler!Running = Proved!Running
      /\ Scheduler!Lane = Proved!Lane
  BY SameSets DEF Scheduler!Standing, Proved!Standing, Scheduler!Lane, Proved!Lane
<1>2. Scheduler!Ahead = Proved!Ahead
  BY <1>1 DEF Scheduler!Ahead, Proved!Ahead
<1>3. /\ Scheduler!Standing' = Proved!Standing' /\ Scheduler!Running' = Proved!Running'
      /\ Scheduler!Ahead' = Proved!Ahead'
  BY DEF Scheduler!Standing, Proved!Standing, Scheduler!Lane, Proved!Lane, Scheduler!Ahead,
         Proved!Ahead, Scheduler!Running, Proved!Running, Scheduler!Waiting, Proved!Waiting
<1>4. ASSUME NEW r PROVE Proved!Promise!Fill(r) => Lanes!Fill(r)
  BY <1>1, <1>2, <1>3
  DEF Proved!Promise!Fill, Lanes!Fill, Proved!Promise!Heads, Lanes!Heads,
      Proved!Promise!Cardinality, Lanes!Cardinality
<1> QED BY <1>1, <1>2, <1>3, <1>4
        DEF Lanes!vars, Proved!Promise!vars, Lanes!Arrive, Proved!Promise!Arrive,
            Lanes!Leave, Proved!Promise!Leave

\* Each session is served in the order of its submissions, one turn at a time, beside
\* at most Limit others and no idle slot, until a restart empties the lanes.
THEOREM TurnsInLanes == Spec => KeepsLanes
<1>1. ASSUME Scheduler!Waiting = {}, Scheduler!Running = {} PROVE Lanes!Init
  BY <1>1 DEF Lanes!Init, Scheduler!Standing, Scheduler!Ahead
<1>2. Init => Lanes!Init
  BY <1>1 DEF Init, Scheduler!Init, Scheduler!Waiting, Scheduler!Running
<1>3. ASSUME IndInv, IndInv', [Next]_vars
      PROVE  Lanes!Next \/ Lanes!Init' \/ UNCHANGED Lanes!vars
  <2>0. Proved!IndInv /\ Proved!IndInv'
    <3>1. Scheduler!IndInv' <=> Proved!IndInv'
      BY SameInv, PTL
    <3> QED BY <1>3, <3>1, SameInv DEF IndInv, Engaged
  <2>1. ASSUME NEW j \in Jobs, Submit(j) PROVE Lanes!Next
    <3>1. "resolved" \in Scheduler!Outcomes /\ Scheduler!Run(j)
      BY <2>1 DEF Submit, Scheduler!Outcomes
    <3>2. Proved!Run(j)
      BY <3>1, SameActions
    <3>3. Proved!Promise!Arrive(j)
      BY <2>0, <3>2, ItsAssumptions, Proved!RunArrives
    <3> QED BY <3>3, SameLanes DEF Lanes!Next
  <2>2. ASSUME NEW j \in Jobs, Settle(j) PROVE Lanes!Next
    <3>1. PICK outcome \in Scheduler!Outcomes : Scheduler!Complete(j, outcome)
      BY <2>2 DEF Settle, Scheduler!Outcomes
    <3>2. Proved!Complete(j, outcome) /\ outcome \in Proved!Outcomes
      BY <3>1, SameActions DEF Scheduler!Outcomes, Proved!Outcomes
    <3>3. Proved!Promise!Leave(j)
      BY <2>0, <3>2, ItsAssumptions, Proved!CompleteLeaves
    <3> QED BY <3>3, SameLanes DEF Lanes!Next
  <2>3. ASSUME UNCHANGED <<phase, ticket>> PROVE UNCHANGED Lanes!vars
    <3>1. /\ Scheduler!Waiting' = Scheduler!Waiting /\ Scheduler!Running' = Scheduler!Running
          /\ Scheduler!Standing' = Scheduler!Standing
      BY <2>3 DEF Scheduler!Waiting, Scheduler!Running, Scheduler!Standing
    <3>2. Scheduler!Ahead' = Scheduler!Ahead
      BY <3>1, <2>3 DEF Scheduler!Ahead
    <3> QED BY <3>1, <3>2 DEF Lanes!vars
  <2>4. ASSUME NEW j \in Jobs,
               \/ Read(j) \/ LoadFails(j) \/ SessionCreated(j) \/ ChildDone(j) \/ Save(j)
               \/ PromptReturns(j) \/ RunChild(j) \/ Abort(j)
        PROVE  UNCHANGED <<phase, ticket>>
    BY <2>4 DEF Read, LoadFails, SessionCreated, ChildDone, Save, PromptReturns, PromptEnds,
                RunChild, Abort, schedulerVars, Scheduler!RunChild, Scheduler!ChildDone
  <2>5. CASE Crash
    <3>1. \A j \in Jobs : phase'[j] \notin {"waiting", "running"}
      BY <2>5 DEF Crash
    <3>2. Scheduler!Standing' = {} /\ Scheduler!Running' = {}
      BY <3>1 DEF Scheduler!Standing, Scheduler!Waiting, Scheduler!Running
    <3> QED BY <3>2 DEF Lanes!Init, Scheduler!Ahead
  <2>6. CASE UNCHANGED vars
    <3>1. UNCHANGED <<phase, ticket>>
      BY <2>6 DEF vars, schedulerVars
    <3> QED BY <2>3, <3>1
  <2> QED BY <1>3, <2>1, <2>2, <2>3, <2>4, <2>5, <2>6 DEF Next, Answer, Quiet
<1> QED BY <1>2, <1>3, Invariance, PTL DEF Spec, KeepsLanes
=============================================================================
