----------------------------- MODULE Inspector_proofs -----------------------------
(***************************************************************************)
(* Proofs about Inspector, for every set of callers, blocks and bounds.      *)
(*                                                                         *)
(* A request looks at the database before it looks at the map.  What makes   *)
(* that sound is that the map is complete: the owner of a block is in it     *)
(* from the start of its work to the end of its promise (OneOwnerPerBlock,   *)
(* MapFits), and success is read off the work, which commits before it is    *)
(* done.  That facts are stored once needs more: no work without its owner   *)
(* (Punctual), which is true only of blocks no request for which timed out.  *)
(***************************************************************************)
EXTENDS Inspector, FiniteSetTheorems, TLAPS

\* The first state satisfies the inductive invariant.
LEMMA InitInv == Init => IndInv
  BY CallerAssumption, BoundAssumption, FS_EmptySet
  DEF Init, IndInv, TypeOK, QueueIsChain, BackgroundSerial, MapFits, OneOwnerPerBlock,
      OwnersWork, OkMeansInspected, Punctual, Requests, Works, Active, AtWork, InTransaction

-----------------------------------------------------------------------------
(* The queue.                                                              *)

\* A request that joins the queue waits behind the others.
LEMMA Enqueue ==
  ASSUME IndInv, NEW c \in Background, pc[c] \notin Active \cup {"queued"},
         chain' = Append(chain, c), pc' = [pc EXCEPT ![c] = "queued"]
  PROVE  chain' \in Seq(Background) /\ QueueIsChain' /\ BackgroundSerial'
<1>1. /\ chain \in Seq(Background) /\ Len(chain) \in Nat
      /\ c \in Callers /\ pc \in [Callers -> Requests]
      /\ \A i \in 1..Len(chain) : chain[i] \in Background /\ chain[i] \in Callers
  BY CallerAssumption DEF IndInv, TypeOK
<1>2. /\ chain' \in Seq(Background) /\ Len(chain') = Len(chain) + 1
      /\ \A i \in 1..Len(chain) : chain'[i] = chain[i]
      /\ chain'[Len(chain) + 1] = c
  BY <1>1
<1>3. \A i \in 1..Len(chain) : chain[i] # c
  BY DEF IndInv, QueueIsChain
<1>4. \A i \in 1..Len(chain') : i \in 1..Len(chain) \/ i = Len(chain) + 1
  BY <1>1, <1>2
<1>5. \A i, k \in 1..Len(chain') : chain'[i] = chain'[k] => i = k
  BY <1>2, <1>3, <1>4 DEF IndInv, QueueIsChain
<1>6. \A i \in 1..Len(chain') : pc'[chain'[i]] \in Active \cup {"queued"}
  BY <1>1, <1>2, <1>3, <1>4 DEF IndInv, QueueIsChain
<1>7. ASSUME NEW d \in Background, pc'[d] \in Active \cup {"queued"}
      PROVE  \E i \in 1..Len(chain') : chain'[i] = d
  <2>1. CASE d = c
    BY <2>1, <1>1, <1>2
  <2>2. CASE d # c
    <3>1. PICK i \in 1..Len(chain) : chain[i] = d
      BY <2>2, <1>1, <1>7, CallerAssumption DEF IndInv, QueueIsChain
    <3> QED BY <3>1, <1>1, <1>2
  <2> QED BY <2>1, <2>2
<1>8. \A d \in Callers : pc'[d] = "queued" => d \in Background
  BY <1>1 DEF IndInv, QueueIsChain
<1>9. QueueIsChain'
  BY <1>5, <1>6, <1>7, <1>8 DEF QueueIsChain
<1>10. ASSUME NEW d \in Background, pc'[d] \in Active
       PROVE  chain' # <<>> /\ Head(chain') = d
  <2>1. d # c /\ pc'[d] = pc[d]
    BY <1>1, <1>10, CallerAssumption DEF Active
  <2>2. chain # <<>> /\ Head(chain) = d
    BY <2>1, <1>10 DEF IndInv, BackgroundSerial
  <2> QED BY <2>2, <1>1, <1>2
<1> QED BY <1>2, <1>9, <1>10 DEF BackgroundSerial

\* Requests past the queue that are answered leave it, and the next may begin.
LEMMA SettleQueue ==
  ASSUME IndInv, NEW s, s \subseteq Callers, \A d \in s : pc[d] \in Active,
         NEW a \in Answered, Settle(s, a)
  PROVE  /\ pc' \in [Callers -> Requests] /\ joined' \in [Callers -> Callers \cup {None}]
         /\ chain' \in Seq(Background) /\ QueueIsChain' /\ BackgroundSerial'
<1>1. /\ chain \in Seq(Background) /\ Len(chain) \in Nat
      /\ pc \in [Callers -> Requests] /\ Background \subseteq Callers
      /\ \A i \in 1..Len(chain) : chain[i] \in Background
  BY CallerAssumption DEF IndInv, TypeOK
<1>2. /\ pc' = [d \in Callers |-> IF d \in s THEN a ELSE pc[d]]
      /\ pc' \in [Callers -> Requests] /\ joined' \in [Callers -> Callers \cup {None}]
  BY <1>1 DEF IndInv, TypeOK, Settle, Answered, Requests
<1>3. a \notin Active \cup {"queued"}
  BY DEF Answered, Active
<1>4. \A d \in Callers : /\ pc'[d] \in Active \cup {"queued"} => d \notin s /\ pc'[d] = pc[d]
                         /\ d \notin s => pc'[d] = pc[d]
  BY <1>2, <1>3
<1>5. CASE chain # <<>> /\ Head(chain) \in s
  <2>1. /\ chain' = Tail(chain) /\ Len(chain) > 0 /\ chain[1] \in s
        /\ chain' \in Seq(Background) /\ Len(chain') = Len(chain) - 1
        /\ \A i \in 1..Len(chain') : i + 1 \in 1..Len(chain) /\ chain'[i] = chain[i + 1]
    BY <1>1, <1>5 DEF Settle
  <2>2. \A d \in s : d \in Background => d = chain[1]
    BY <1>1, <2>1 DEF IndInv, BackgroundSerial
  <2>3. ASSUME NEW i \in 1..Len(chain')  PROVE chain'[i] \in Background \ s
    <3>1. chain[i + 1] # chain[1]
      BY <2>1 DEF IndInv, QueueIsChain
    <3> QED BY <3>1, <2>1, <2>2, <1>1
  <2>4. \A i, k \in 1..Len(chain') : chain'[i] = chain'[k] => i = k
    BY <2>1 DEF IndInv, QueueIsChain
  <2>5. ASSUME NEW i \in 1..Len(chain')  PROVE pc'[chain'[i]] \in Active \cup {"queued"}
    <3>1. pc'[chain'[i]] = pc[chain[i + 1]]
      BY <1>1, <1>4, <2>1, <2>3
    <3> QED BY <3>1, <2>1 DEF IndInv, QueueIsChain
  <2>6. ASSUME NEW d \in Background, pc'[d] \in Active \cup {"queued"}
        PROVE  \E i \in 1..Len(chain') : chain'[i] = d
    <3>1. pc[d] \in Active \cup {"queued"} /\ d \notin s
      BY <2>6, <1>1, <1>4
    <3>2. PICK k \in 1..Len(chain) : chain[k] = d
      BY <3>1 DEF IndInv, QueueIsChain
    <3>3. k # 1
      BY <3>1, <3>2, <2>1
    <3>4. k - 1 \in 1..Len(chain') /\ chain'[k - 1] = d
      BY <3>2, <3>3, <2>1, <1>1
    <3> QED BY <3>4
  <2>7. \A d \in Callers : pc'[d] = "queued" => d \in Background
    BY <1>4 DEF IndInv, QueueIsChain
  <2>8. ASSUME NEW d \in Background  PROVE pc'[d] \notin Active
    BY <1>1, <1>4, <2>1, <2>8 DEF IndInv, BackgroundSerial
  <2> QED BY <1>2, <2>1, <2>4, <2>5, <2>6, <2>7, <2>8 DEF QueueIsChain, BackgroundSerial
<1>6. CASE ~(chain # <<>> /\ Head(chain) \in s)
  <2>1. chain' = chain
    BY <1>6 DEF Settle
  <2>2. s \cap Background = {}
    BY <1>6 DEF IndInv, BackgroundSerial
  <2> QED BY <1>1, <1>2, <1>4, <2>1, <2>2 DEF IndInv, QueueIsChain, BackgroundSerial
<1> QED BY <1>5, <1>6

-----------------------------------------------------------------------------
(* The requests.                                                           *)

\* A request is made.
LEMMA RequestInv == ASSUME IndInv, NEW c \in Callers, Request(c) PROVE IndInv'
<1>1. /\ pc[c] \notin Active \cup {"queued"} /\ pc[c] \in {"idle", "ok", "failed"}
      /\ work' = [work EXCEPT ![c] = "none"] /\ work[c] \notin AtWork
      /\ UNCHANGED <<seen, joined, inFlight, doomed, database, failures, crashes, late>>
  BY DEF Request, Answered, Active, WorkEnded
<1>2. \/ /\ c \in Background
         /\ chain' = Append(chain, c) /\ pc' = [pc EXCEPT ![c] = "queued"]
      \/ /\ c \notin Background
         /\ chain' = chain /\ pc' = [pc EXCEPT ![c] = "checking"]
  BY DEF Request
<1>3. chain' \in Seq(Background) /\ QueueIsChain' /\ BackgroundSerial'
  <2>1. CASE c \in Background
    BY <2>1, <1>1, <1>2, Enqueue
  <2>2. CASE c \notin Background
    BY <2>2, <1>1, <1>2, CallerAssumption
    DEF IndInv, TypeOK, QueueIsChain, BackgroundSerial
  <2> QED BY <2>1, <2>2
<1>4. TypeOK'
  BY <1>1, <1>2, <1>3 DEF IndInv, TypeOK, Requests, Works, database
<1>5. MapFits' /\ OneOwnerPerBlock' /\ OwnersWork'
  BY <1>1, <1>2 DEF IndInv, TypeOK, MapFits, OneOwnerPerBlock, OwnersWork
<1>6. OkMeansInspected'
  BY <1>1, <1>2 DEF IndInv, TypeOK, OkMeansInspected, database
<1>7. Punctual'
  BY <1>1, <1>2 DEF IndInv, TypeOK, Punctual, AtWork, InTransaction, database
<1> QED BY <1>3, <1>4, <1>5, <1>6, <1>7 DEF IndInv

\* A request that is not answered moves on: its place in the queue stays.
LEMMA StaysQueued ==
  ASSUME IndInv, NEW c \in Callers, NEW p \in Active, pc[c] \in Active,
         pc' = [pc EXCEPT ![c] = p], chain' = chain
  PROVE  QueueIsChain' /\ BackgroundSerial'
  BY CallerAssumption DEF IndInv, TypeOK, QueueIsChain, BackgroundSerial, Active

\* Its turn has come.
LEMMA BeginInv == ASSUME IndInv, NEW c \in Callers, Begin(c) PROVE IndInv'
  BY CallerAssumption
  DEF Begin, IndInv, TypeOK, QueueIsChain, BackgroundSerial, MapFits, OneOwnerPerBlock,
      OwnersWork, OkMeansInspected, Punctual, Requests, Active, AtWork, InTransaction, database

\* The answer of isInspected is true when it is given.
LEMMA CheckInv == ASSUME IndInv, NEW c \in Callers, Check(c) PROVE IndInv'
<1>1. QueueIsChain' /\ BackgroundSerial'
  BY StaysQueued DEF Check, Active
<1>2. TypeOK'
  BY DEF Check, IndInv, TypeOK, Requests, database
<1>3. MapFits' /\ OneOwnerPerBlock' /\ OwnersWork'
  BY DEF Check, IndInv, TypeOK, MapFits, OneOwnerPerBlock, OwnersWork
<1>4. OkMeansInspected'
  BY DEF Check, IndInv, TypeOK, OkMeansInspected, database
<1>5. Punctual'
  BY DEF Check, IndInv, TypeOK, Punctual, AtWork, database
<1> QED BY <1>1, <1>2, <1>3, <1>4, <1>5 DEF IndInv

\* Who is found in the map owns the block.
LEMMA JoinInv == ASSUME IndInv, NEW c \in Callers, Join(c) PROVE IndInv'
<1>1. QueueIsChain' /\ BackgroundSerial'
  BY StaysQueued DEF Join, Active
<1>2. /\ inFlight[BlockOf[c]] \in Callers
      /\ BlockOf[inFlight[BlockOf[c]]] = BlockOf[c]
      /\ pc[inFlight[BlockOf[c]]] = "owner"
  <2>1. /\ inFlight[BlockOf[c]] \in Callers
        /\ BlockOf[inFlight[BlockOf[c]]] = BlockOf[c]
    BY CallerAssumption DEF Join, IndInv, TypeOK, MapFits
  <2> QED BY <2>1 DEF IndInv, OneOwnerPerBlock
<1>3. TypeOK'
  BY <1>2 DEF Join, IndInv, TypeOK, Requests, database
<1>4. MapFits' /\ OneOwnerPerBlock' /\ OwnersWork'
  BY <1>2 DEF Join, IndInv, TypeOK, MapFits, OneOwnerPerBlock, OwnersWork
<1>5. OkMeansInspected'
  BY DEF Join, IndInv, TypeOK, OkMeansInspected, database
<1>6. Punctual'
  BY DEF Join, IndInv, TypeOK, Punctual, AtWork, database
<1> QED BY <1>1, <1>3, <1>4, <1>5, <1>6 DEF IndInv

\* Who finds nobody becomes the owner.
LEMMA OwnInv == ASSUME IndInv, NEW c \in Callers, Own(c) PROVE IndInv'
<1>1. QueueIsChain' /\ BackgroundSerial'
  BY StaysQueued DEF Own, Active
<1>2. BlockOf[c] \in Blocks /\ c # None
  BY CallerAssumption
<1>3. TypeOK'
  BY <1>2 DEF Own, IndInv, TypeOK, Requests, Works, database
<1>4. MapFits' /\ OneOwnerPerBlock' /\ OwnersWork'
  BY <1>2, CallerAssumption DEF Own, IndInv, TypeOK, MapFits, OneOwnerPerBlock, OwnersWork
<1>5. OkMeansInspected'
  BY DEF Own, IndInv, TypeOK, OkMeansInspected, database
<1>6. Punctual'
  BY DEF Own, IndInv, TypeOK, Punctual, AtWork, InTransaction, database
<1> QED BY <1>1, <1>3, <1>4, <1>5, <1>6 DEF IndInv

\* A request that has not reached the map is answered.
LEMMA AnswerInv ==
  ASSUME IndInv, NEW c \in Callers, pc[c] \in {"checking", "checked"},
         NEW a \in Answered, Settle({c}, a),
         a = "ok" => BlockOf[c] \in inspected,
         UNCHANGED <<seen, inFlight, work, doomed, database, crashes, late>>,
         failures' \in 0..MaxFailures
  PROVE  IndInv'
<1>1. /\ pc' \in [Callers -> Requests] /\ joined' \in [Callers -> Callers \cup {None}]
      /\ chain' \in Seq(Background) /\ QueueIsChain' /\ BackgroundSerial'
  BY SettleQueue DEF Active
<1>2. /\ \A d \in Callers : pc'[d] = IF d = c THEN a ELSE pc[d]
      /\ \A d \in Callers : joined'[d] = IF d = c THEN None ELSE joined[d]
      /\ a \in {"ok", "failed"}
  BY DEF Settle, Answered
<1>3. TypeOK'
  BY <1>1 DEF IndInv, TypeOK, database
<1>4. MapFits' /\ OneOwnerPerBlock' /\ OwnersWork'
  BY <1>2 DEF IndInv, MapFits, OneOwnerPerBlock, OwnersWork
<1>5. OkMeansInspected'
  BY <1>2 DEF IndInv, OkMeansInspected, database
<1>6. Punctual'
  BY <1>2 DEF IndInv, Punctual, AtWork, database
<1> QED BY <1>1, <1>3, <1>4, <1>5, <1>6 DEF IndInv

\* The query fails.
LEMMA CheckFailsInv == ASSUME IndInv, NEW c \in Callers, CheckFails(c) PROVE IndInv'
<1>1. failures' \in 0..MaxFailures
  BY BoundAssumption DEF CheckFails, IndInv, TypeOK
<1> QED BY <1>1, AnswerInv DEF CheckFails, Answered

\* The block is there.
LEMMA AlreadyInspectedInv ==
  ASSUME IndInv, NEW c \in Callers, AlreadyInspected(c) PROVE IndInv'
<1>1. BlockOf[c] \in inspected /\ failures' \in 0..MaxFailures
  BY DEF AlreadyInspected, IndInv, TypeOK, OkMeansInspected
<1> QED BY <1>1, AnswerInv DEF AlreadyInspected, Answered

\* The promise of an owner settles, and with it all that share it.
LEMMA PromiseInv ==
  ASSUME IndInv, NEW c \in Callers, pc[c] = "owner",
         NEW a \in Answered, Settle(Sharing(c), a),
         a = "ok" => BlockOf[c] \in inspected,
         late' = IF work[c] \in AtWork THEN late \cup {BlockOf[c]} ELSE late,
         inFlight' = [inFlight EXCEPT ![BlockOf[c]] = None],
         UNCHANGED <<seen, work, doomed, database, failures, crashes>>
  PROVE  IndInv'
<1> DEFINE S == Sharing(c)
<1>1. /\ S \subseteq Callers /\ c \in S
      /\ \A d \in S : d = c \/ (pc[d] = "joined" /\ joined[d] = c)
      /\ \A d \in S : BlockOf[d] = BlockOf[c] /\ pc[d] \in Active
      /\ \A d \in Callers : pc[d] = "joined" /\ joined[d] = c => d \in S
  BY DEF IndInv, OneOwnerPerBlock, Sharing, Active
<1>2. /\ \A d \in Callers : pc'[d] = IF d \in S THEN a ELSE pc[d]
      /\ \A d \in Callers : joined'[d] = IF d \in S THEN None ELSE joined[d]
      /\ a \in {"ok", "failed"}
  BY DEF Settle, Answered
<1> HIDE DEF S
<1>3. /\ pc' \in [Callers -> Requests] /\ joined' \in [Callers -> Callers \cup {None}]
      /\ chain' \in Seq(Background) /\ QueueIsChain' /\ BackgroundSerial'
  BY <1>1, SettleQueue DEF S
<1>4. TypeOK'
  BY <1>3, CallerAssumption DEF IndInv, TypeOK, database
<1>5. /\ BlockOf \in [Callers -> Blocks] /\ None \notin Callers
      /\ inFlight \in [Blocks -> Callers \cup {None}]
      /\ inFlight[BlockOf[c]] = c
  BY CallerAssumption DEF IndInv, TypeOK, OneOwnerPerBlock
<1>6. MapFits'
  BY <1>5 DEF IndInv, MapFits
<1>7. ASSUME NEW d \in Callers
      PROVE  (pc'[d] = "owner") <=> (inFlight'[BlockOf[d]] = d)
  <2>1. CASE d = c
    BY <2>1, <1>1, <1>2, <1>5
  <2>2. CASE d # c
    <3>1. pc'[d] = "owner" <=> pc[d] = "owner"
      BY <2>2, <1>1, <1>2
    <3>2. inFlight'[BlockOf[d]] = d <=> inFlight[BlockOf[d]] = d
      BY <2>2, <1>5
    <3> QED BY <3>1, <3>2 DEF IndInv, OneOwnerPerBlock
  <2> QED BY <2>1, <2>2
<1>8. ASSUME NEW d \in Callers, pc'[d] = "joined"
      PROVE  /\ joined'[d] \in Callers /\ pc'[joined'[d]] = "owner"
             /\ BlockOf[joined'[d]] = BlockOf[d]
  <2>1. d \notin S /\ pc[d] = "joined" /\ joined'[d] = joined[d]
    BY <1>2, <1>8
  <2>2. joined[d] \in Callers /\ pc[joined[d]] = "owner" /\ BlockOf[joined[d]] = BlockOf[d]
    BY <2>1 DEF IndInv, OneOwnerPerBlock
  <2>3. joined[d] \notin S
    BY <2>1, <2>2, <1>1
  <2> QED BY <2>1, <2>2, <2>3, <1>2
<1>9. OneOwnerPerBlock'
  BY <1>7, <1>8 DEF OneOwnerPerBlock
<1>10. OkMeansInspected' /\ OwnersWork'
  BY <1>1, <1>2 DEF IndInv, OkMeansInspected, OwnersWork, database
<1>11. Punctual'
  <2> SUFFICES ASSUME NEW b \in Blocks \ late'
               PROVE  \A d \in Callers : BlockOf[d] = b /\ work[d] \in AtWork => pc'[d] = "owner"
    BY DEF IndInv, Punctual, database
  <2>1. b \notin late /\ (work[c] \in AtWork => BlockOf[c] # b)
    OBVIOUS
  <2>2. ASSUME NEW d \in Callers, BlockOf[d] = b, work[d] \in AtWork  PROVE pc'[d] = "owner"
    BY <2>1, <2>2, <1>1, <1>2 DEF IndInv, Punctual
  <2> QED BY <2>2
<1> QED BY <1>3, <1>4, <1>6, <1>9, <1>10, <1>11 DEF IndInv

\* The timer wins the race.
LEMMA TimeoutInv == ASSUME IndInv, NEW c \in Callers, Timeout(c) PROVE IndInv'
  BY PromiseInv DEF Timeout, Answered

\* The work wins the race: what it has done is committed.
LEMMA FinishInv == ASSUME IndInv, NEW c \in Callers, Finish(c) PROVE IndInv'
<1>1. CASE work[c] = "done"
  <2>1. BlockOf[c] \in inspected
    BY <1>1 DEF IndInv, OkMeansInspected
  <2> QED BY <1>1, <2>1, PromiseInv DEF Finish, Answered, AtWork
<1>2. CASE work[c] = "failed"
  BY <1>2, PromiseInv DEF Finish, Answered, AtWork
<1> QED BY <1>1, <1>2 DEF Finish

-----------------------------------------------------------------------------
(* The work.                                                               *)

\* The work of one request moves on and the requests do not notice: what is
\* left to show is what it has done to the database.
LEMMA WorkInv ==
  ASSUME IndInv, NEW c \in Callers, NEW w \in Works \ {"none"}, work' = [work EXCEPT ![c] = w],
         work[c] \in AtWork, UNCHANGED <<requestVars, crashes, late>>,
         failures' \in 0..MaxFailures,
         doomed' \in [Callers -> SUBSET Callers], evidence' \subseteq Blocks,
         OkMeansInspected', rows' \in [Blocks -> SUBSET Callers], inspected' \subseteq Blocks,
         Punctual'
  PROVE  IndInv'
<1>1. TypeOK'
  BY DEF IndInv, TypeOK, requestVars
<1>2. QueueIsChain' /\ BackgroundSerial' /\ MapFits' /\ OneOwnerPerBlock'
  BY DEF IndInv, QueueIsChain, BackgroundSerial, MapFits, OneOwnerPerBlock, requestVars
<1>3. OwnersWork'
  BY DEF IndInv, TypeOK, OwnersWork, requestVars
<1> QED BY <1>1, <1>2, <1>3 DEF IndInv

\* A step of the work that commits nothing.
LEMMA WorkStepInv ==
  ASSUME IndInv, NEW c \in Callers, NEW w \in Works \ {"none"}, work' = [work EXCEPT ![c] = w],
         work[c] \in AtWork, w \in {"committed", "done"} => BlockOf[c] \in inspected,
         UNCHANGED <<requestVars, inspected, rows, crashes, late>>,
         failures' \in 0..MaxFailures, evidence' \subseteq Blocks,
         doomed' \in [Callers -> SUBSET Callers],
         \A d \in Callers \ {c} : doomed'[d] = doomed[d],
         w \in {"deleting"} \cup InTransaction =>
           \/ doomed'[c] = rows[BlockOf[c]]
           \/ doomed'[c] = doomed[c] /\ work[c] \in {"deleting"} \cup InTransaction
  PROVE  IndInv'
<1>1. OkMeansInspected'
  BY DEF IndInv, TypeOK, OkMeansInspected, requestVars
<1>2. Punctual'
  BY DEF IndInv, TypeOK, Punctual, requestVars
<1>3. rows' \in [Blocks -> SUBSET Callers] /\ inspected' \subseteq Blocks
  BY DEF IndInv, TypeOK
<1> QED BY <1>1, <1>2, <1>3, WorkInv

\* The steps that commit nothing.
LEMMA InspectInv ==
  ASSUME IndInv, NEW c \in Callers,
         Fetch(c) \/ Delete(c) \/ DeleteReturns(c) \/ Upsert(c) \/ WriteEvidence(c) \/ WorkFails(c)
  PROVE  IndInv'
<1>1. BlockOf[c] \in Blocks /\ work[c] \in Works
  BY CallerAssumption DEF IndInv, TypeOK
<1>2. CASE Fetch(c)
  BY <1>2, WorkStepInv
  DEF Fetch, Working, IndInv, TypeOK, Works, AtWork, InTransaction, database
<1>3. CASE Delete(c)
  BY <1>1, <1>3, WorkStepInv
  DEF Delete, Working, IndInv, TypeOK, Works, AtWork, InTransaction, database
<1>4. CASE DeleteReturns(c)
  BY <1>4, WorkStepInv
  DEF DeleteReturns, Working, IndInv, TypeOK, Works, AtWork, InTransaction, database
<1>5. CASE Upsert(c)
  BY <1>5, WorkStepInv
  DEF Upsert, Working, IndInv, TypeOK, Works, AtWork, InTransaction, database
<1>6. CASE WriteEvidence(c)
  <2>1. BlockOf[c] \in inspected
    BY <1>6 DEF WriteEvidence, Working, IndInv, OkMeansInspected
  <2> QED BY <1>1, <1>6, <2>1, WorkStepInv
          DEF WriteEvidence, Working, IndInv, TypeOK, Works, AtWork, InTransaction
<1>7. CASE WorkFails(c)
  <2>1. failures' \in 0..MaxFailures
    BY <1>7, BoundAssumption DEF WorkFails, IndInv, TypeOK
  <2>2. "failed" \in Works \ {"none"} /\ "failed" \notin {"deleting"} \cup InTransaction
    BY DEF Works, InTransaction
  <2> QED BY <1>7, <2>1, <2>2, WorkStepInv DEF WorkFails, IndInv, TypeOK, database
<1> QED BY <1>2, <1>3, <1>4, <1>5, <1>6, <1>7

\* COMMIT: with timers off, the rows it did not delete are its own.
LEMMA CommitInv == ASSUME IndInv, NEW c \in Callers, Commit(c) PROVE IndInv'
<1> DEFINE b == BlockOf[c]
<1>1. /\ b \in Blocks /\ work[c] = "upserted" /\ work' = [work EXCEPT ![c] = "committed"]
      /\ inspected' = inspected \cup {b}
      /\ rows' = [rows EXCEPT ![b] = (rows[b] \ doomed[c]) \cup {c}]
      /\ UNCHANGED <<requestVars, doomed, evidence, failures, crashes, late>>
  BY CallerAssumption DEF Commit, RowsAfter, Working
<1>2. rows' \in [Blocks -> SUBSET Callers] /\ inspected' \subseteq Blocks
  BY <1>1 DEF IndInv, TypeOK
<1>3. /\ \A k \in Blocks : k # b => rows'[k] = rows[k]
      /\ rows'[b] = (rows[b] \ doomed[c]) \cup {c}
  BY <1>1 DEF IndInv, TypeOK
<1>4. OkMeansInspected'
  BY <1>1, <1>3 DEF IndInv, TypeOK, OkMeansInspected, requestVars
<1>5. Punctual'
  <2> SUFFICES ASSUME NEW k \in Blocks \ late
               PROVE  /\ \A d \in Callers : BlockOf[d] = k /\ work'[d] \in AtWork => pc'[d] = "owner"
                      /\ \A d \in Callers :
                           BlockOf[d] = k /\ work'[d] \in {"deleting"} \cup InTransaction =>
                             doomed'[d] = rows'[k]
                      /\ Cardinality(rows'[k]) <= 1
    BY <1>1 DEF Punctual
  <2>1. \A d \in Callers : work'[d] \in AtWork => work[d] \in AtWork /\ pc'[d] = pc[d]
    BY <1>1 DEF IndInv, TypeOK, AtWork, requestVars
  <2>2. \A d \in Callers : BlockOf[d] = k /\ work[d] \in AtWork => pc[d] = "owner"
    BY DEF IndInv, Punctual
  <2>3. ASSUME NEW d \in Callers, BlockOf[d] = k, work'[d] \in {"deleting"} \cup InTransaction
        PROVE  doomed'[d] = rows'[k]
    <3>1. d # c /\ work[d] = work'[d]
      BY <1>1, <2>3 DEF IndInv, TypeOK, InTransaction
    <3>2. ASSUME k = b  PROVE FALSE
      <4>1. inFlight[k] = d /\ inFlight[k] = c
        BY <1>1, <2>2, <2>3, <3>1, <3>2 DEF IndInv, OneOwnerPerBlock, AtWork, InTransaction
      <4> QED BY <4>1, <3>1
    <3> QED BY <1>1, <1>3, <2>3, <3>1, <3>2 DEF IndInv, Punctual
  <2>4. ASSUME k = b  PROVE rows'[k] = {c}
    <3>1. doomed[c] = rows[b]
      BY <1>1, <2>4 DEF IndInv, Punctual, InTransaction
    <3> QED BY <3>1, <1>3, <2>4
  <2>5. Cardinality(rows'[k]) <= 1
    <3>1. CASE k = b
      <4>1. Cardinality({c}) = 1
        BY FS_Singleton
      <4> QED BY <3>1, <2>4, <4>1
    <3>2. CASE k # b
      BY <3>2, <1>3 DEF IndInv, Punctual
    <3> QED BY <3>1, <3>2
  <2> QED BY <2>1, <2>2, <2>3, <2>5
<1> HIDE DEF b
<1>6. "committed" \in Works \ {"none"} /\ work[c] \in AtWork
  BY <1>1 DEF Works, AtWork
<1> QED BY <1>1, <1>2, <1>4, <1>5, <1>6, WorkInv DEF IndInv, TypeOK

\* A restart loses what is in memory, and open transactions.
LEMMA CrashInv == ASSUME IndInv, Crash PROVE IndInv'
<1>1. TypeOK'
  BY BoundAssumption DEF Crash, IndInv, TypeOK, Requests, Works, database
<1>2. QueueIsChain' /\ BackgroundSerial' /\ MapFits' /\ OneOwnerPerBlock' /\ OwnersWork'
  BY CallerAssumption
  DEF Crash, QueueIsChain, BackgroundSerial, MapFits, OneOwnerPerBlock, OwnersWork, Active
<1>3. OkMeansInspected'
  BY DEF Crash, IndInv, OkMeansInspected, database
<1>4. Punctual'
  BY DEF Crash, IndInv, Punctual, AtWork, InTransaction, database
<1> QED BY <1>1, <1>2, <1>3, <1>4 DEF IndInv

\* Every step, a stutter included, keeps the invariant.
LEMMA NextInv == ASSUME IndInv, [Next]_vars PROVE IndInv'
<1>1. CASE UNCHANGED vars
  BY <1>1 DEF vars, requestVars, database, IndInv, TypeOK, QueueIsChain, BackgroundSerial,
              MapFits, OneOwnerPerBlock, OwnersWork, OkMeansInspected, Punctual
<1>2. ASSUME NEW c \in Callers,
             Request(c) \/ Handle(c) \/ Timeout(c) \/ Inspect(c) \/ CheckFails(c) \/ WorkFails(c)
      PROVE  IndInv'
  BY <1>2, RequestInv, BeginInv, CheckInv, AlreadyInspectedInv, JoinInv, OwnInv, FinishInv,
     TimeoutInv, InspectInv, CommitInv, CheckFailsInv DEF Handle, Inspect
<1> QED BY <1>1, <1>2, CrashInv DEF Next

-----------------------------------------------------------------------------
\* The inductive invariant holds in every reachable state.
THEOREM Invariance == Spec => []IndInv
<1>1. Init => IndInv
  BY InitInv
<1>2. IndInv /\ [Next]_vars => IndInv'
  BY NextInv
<1> QED BY <1>1, <1>2, PTL DEF Spec

\* Background requests are served one at a time, in order (inspector.ts:65).
THEOREM Serial == Spec => []BackgroundSerial
<1>1. IndInv => BackgroundSerial
  BY DEF IndInv
<1> QED BY <1>1, Invariance, PTL

\* Requests for a block share one promise (inspector.ts:43).
THEOREM OnePromise == Spec => []OneOwnerPerBlock
<1>1. IndInv => OneOwnerPerBlock
  BY DEF IndInv
<1> QED BY <1>1, Invariance, PTL

\* Nobody waits in a circle or for a settled promise (inspector.ts:24, 43, 65): what
\* an unanswered request waits for has a step of its own to make.
THEOREM NoCircle == Spec => []AnswerComes
<1>1. IndInv => AnswerComes
  <2> SUFFICES ASSUME IndInv, NEW c \in Callers, pc[c] \in Active \cup {"queued"}
               PROVE  LET d == WaitsFor(c)
                      IN  /\ d \in Callers
                          /\ \/ pc[d] = "queued" /\ Head(chain) = d
                             \/ pc[d] \in {"checking", "checked"}
                             \/ pc[d] = "owner" /\ work[d] \in AtWork \cup {"done", "failed"}
    BY DEF AnswerComes
  <2>1. /\ Front(c) \in Callers /\ pc[Front(c)] \in Active \cup {"queued"}
        /\ pc[Front(c)] = "queued" => Head(chain) = Front(c)
    <3>1. CASE pc[c] = "queued"
      <4>1. c \in Background
        BY <3>1 DEF IndInv, QueueIsChain
      <4>2. PICK i \in 1..Len(chain) : chain[i] = c
        BY <3>1, <4>1 DEF IndInv, QueueIsChain
      <4>3. chain \in Seq(Background) /\ 1 \in 1..Len(chain) /\ Head(chain) = chain[1]
        BY <4>2 DEF IndInv, TypeOK
      <4> QED BY <3>1, <4>3, CallerAssumption DEF Front, IndInv, QueueIsChain
    <3>2. CASE pc[c] # "queued"
      BY <3>2 DEF Front
    <3> QED BY <3>1, <3>2
  <2>2. /\ WaitsFor(c) \in Callers
        /\ \/ WaitsFor(c) = Front(c) /\ pc[Front(c)] # "joined"
           \/ pc[WaitsFor(c)] = "owner"
    BY <2>1 DEF WaitsFor, IndInv, OneOwnerPerBlock
  <2>3. \A d \in Callers : pc[d] = "owner" => work[d] \in AtWork \cup {"done", "failed"}
    BY DEF IndInv, TypeOK, OwnersWork, Works, AtWork
  <2> QED BY <2>1, <2>2, <2>3 DEF Active
<1> QED BY <1>1, Invariance, PTL

\* Success means committed facts (inspector.ts:36).
THEOREM Success == Spec => []OkMeansInspected
<1>1. IndInv => OkMeansInspected
  BY DEF IndInv
<1> QED BY <1>1, Invariance, PTL

\* Facts are stored once (writeBlock.ts:10), over failures and restarts, unless
\* a request for their block has timed out.
THEOREM Once == Spec => []FactsOnceInTime
<1>1. IndInv => FactsOnceInTime
  BY DEF IndInv, Punctual, FactsOnceInTime
<1> QED BY <1>1, Invariance, PTL

\* Nor do background inspections meet at the node then (inspector.ts:60).
THEOREM OneAtTheNode == Spec => []OneBackgroundInspection
<1>1. IndInv => OneBackgroundInspection
  BY CallerAssumption
  DEF IndInv, Punctual, BackgroundSerial, OneBackgroundInspection, AtWork, Active
<1> QED BY <1>1, Invariance, PTL

-----------------------------------------------------------------------------
(* Refinement of InspectorPromise.                                         *)

\* The requests that are not answered, and those that were with success.
Asking == {c \in Callers : pc[c] \in Active \cup {"queued"}}
Granted == {c \in Callers : pc[c] = "ok"}

\* A request that moves on, and work that commits nothing, are not seen.
LEMMA Unseen ==
  ASSUME IndInv, NEW c \in Callers,
         \/ Begin(c) \/ Check(c) \/ Join(c) \/ Own(c) \/ WorkFails(c)
         \/ Fetch(c) \/ Delete(c) \/ DeleteReturns(c) \/ Upsert(c) \/ WriteEvidence(c)
  PROVE  Asking' = Asking /\ Granted' = Granted /\ inspected' = inspected
<1>1. CASE Begin(c) \/ Check(c) \/ Join(c) \/ Own(c)
  BY <1>1 DEF Begin, Check, Join, Own, Asking, Granted, Active, IndInv, TypeOK, database
<1>2. CASE ~(Begin(c) \/ Check(c) \/ Join(c) \/ Own(c))
  <2>1. pc' = pc /\ inspected' = inspected
    BY <1>2 DEF WorkFails, Fetch, Delete, DeleteReturns, Upsert, WriteEvidence, requestVars, database
  <2> QED BY <2>1 DEF Asking, Granted
<1> QED BY <1>1, <1>2

\* Requests that settle are answered, with success or without.
LEMMA SettleAnswers ==
  ASSUME IndInv, NEW s, s \subseteq Callers, \A c \in s : pc[c] \in Active,
         NEW a \in Answered, Settle(s, a), inspected' = inspected,
         a = "ok" => {BlockOf[c] : c \in s} \subseteq inspected
  PROVE  Promise!Next
<1>1. \A c \in Callers : pc'[c] = IF c \in s THEN a ELSE pc[c]
  BY DEF Settle
<1>2. s \subseteq Asking /\ s \cap Granted = {} /\ s \in SUBSET Callers
  BY DEF Asking, Granted, Active
<1>3. Asking' = Asking \ s
  BY <1>1 DEF Asking, Answered, Active
<1>4. CASE a = "ok"
  <2>1. Granted' = Granted \cup s
    BY <1>1, <1>4 DEF Granted
  <2>2. Promise!Grant(s)
    BY <1>2, <1>3, <1>4, <2>1 DEF Promise!Grant, Asking, Granted
  <2> QED BY <1>2, <2>2 DEF Promise!Next
<1>5. CASE a = "failed"
  <2>1. Granted' = Granted
    BY <1>1, <1>2, <1>5 DEF Granted
  <2>2. Promise!Refuse(s)
    BY <1>2, <1>3, <2>1 DEF Promise!Refuse, Asking, Granted
  <2> QED BY <1>2, <2>2 DEF Promise!Next
<1> QED BY <1>4, <1>5 DEF Answered

\* Every step is a step of InspectorPromise, or is not seen.
LEMMA StepSimulation ==
  ASSUME IndInv, [Next]_vars
  PROVE  [Promise!Next]_<<Asking, Granted, inspected>>
<1>1. CASE UNCHANGED vars
  BY <1>1 DEF vars, requestVars, database, Asking, Granted
<1>2. ASSUME NEW c \in Callers, Request(c)  PROVE Promise!Next
  <2>1. /\ pc \in [Callers -> Requests] /\ pc[c] \notin Active \cup {"queued"}
        /\ pc' = [pc EXCEPT ![c] = "queued"] \/ pc' = [pc EXCEPT ![c] = "checking"]
        /\ inspected' = inspected
    BY <1>2 DEF Request, Answered, Active, IndInv, TypeOK, database
  <2>2. c \notin Asking /\ Asking' = Asking \cup {c} /\ Granted' = Granted \ {c}
    BY <2>1 DEF Asking, Granted, Active
  <2>3. Promise!Ask(c)
    BY <2>1, <2>2 DEF Promise!Ask, Asking, Granted
  <2> QED BY <2>3 DEF Promise!Next
<1>3. ASSUME NEW c \in Callers, CheckFails(c) \/ AlreadyInspected(c)  PROVE Promise!Next
  <2>1. AlreadyInspected(c) => BlockOf[c] \in inspected
    BY DEF AlreadyInspected, IndInv, OkMeansInspected
  <2>2. pc[c] \in Active /\ inspected' = inspected
    BY <1>3 DEF CheckFails, AlreadyInspected, Active, database
  <2> QED BY <1>3, <2>1, <2>2, SettleAnswers DEF CheckFails, AlreadyInspected, Answered
<1>4. ASSUME NEW c \in Callers, Timeout(c) \/ Finish(c)  PROVE Promise!Next
  <2>1. /\ Sharing(c) \subseteq Callers
        /\ \A d \in Sharing(c) : BlockOf[d] = BlockOf[c] /\ pc[d] \in Active
    BY <1>4 DEF Timeout, Finish, Sharing, IndInv, OneOwnerPerBlock, Active
  <2>2. work[c] = "done" => BlockOf[c] \in inspected
    BY DEF IndInv, OkMeansInspected
  <2>3. inspected' = inspected
    BY <1>4 DEF Timeout, Finish, database
  <2> QED BY <1>4, <2>1, <2>2, <2>3, SettleAnswers DEF Timeout, Finish, Answered
<1>5. ASSUME NEW c \in Callers, Commit(c)
      PROVE  [Promise!Next]_<<Asking, Granted, inspected>>
  <2>1. Asking' = Asking /\ Granted' = Granted /\ inspected' = inspected \cup {BlockOf[c]}
    BY <1>5 DEF Commit, RowsAfter, Asking, Granted, requestVars
  <2>2. CASE BlockOf[c] \in inspected
    BY <2>1, <2>2
  <2>3. CASE BlockOf[c] \notin inspected
    <3>1. Promise!Cover(BlockOf[c])
      BY <2>1, <2>3 DEF Promise!Cover, Asking, Granted
    <3> QED BY <3>1, CallerAssumption DEF Promise!Next
  <2> QED BY <2>2, <2>3
<1>6. ASSUME Crash  PROVE Promise!Next
  <2>1. Asking' = {} /\ Granted' = {} /\ inspected' = inspected
    BY <1>6 DEF Crash, Asking, Granted, Active, database
  <2> QED BY <2>1 DEF Promise!Next, Promise!Forget, Asking, Granted
<1>7. ASSUME NEW c \in Callers,
             \/ Begin(c) \/ Check(c) \/ Join(c) \/ Own(c) \/ WorkFails(c)
             \/ Fetch(c) \/ Delete(c) \/ DeleteReturns(c) \/ Upsert(c) \/ WriteEvidence(c)
      PROVE  [Promise!Next]_<<Asking, Granted, inspected>>
  BY <1>7, Unseen
<1> QED BY <1>1, <1>2, <1>3, <1>4, <1>5, <1>6, <1>7 DEF Next, Handle, Inspect

\* The inspector implements what its callers rely on (inspector.ts:36).
THEOREM Refinement == Spec => KeepsPromise
<1>1. Init => Promise!Init
  BY DEF Init, Promise!Init, Active
<1>2. IndInv /\ [Next]_vars => [Promise!Next]_<<Asking, Granted, inspected>>
  BY StepSimulation
<1>3. IndInv /\ [Next]_vars => [Promise!Next]_(Promise!vars)
  BY <1>2 DEF Promise!vars, Asking, Granted
<1> QED BY <1>1, <1>3, Invariance, PTL DEF Spec, KeepsPromise, Promise!Spec
=============================================================================
