------------------------- MODULE OperationsProofs --------------------------
(***************************************************************************)
(* Proofs about Utilities and Discovery, the clients of model providers    *)
(* and the probes of readiness, and about what an operator and a           *)
(* developer rely on, out of the parts of these modules and of those that  *)
(* PartsProofs is about: for any threads, processes and proxies, tenants,  *)
(* sessions and callers, instances and ports, names and files.             *)
(***************************************************************************)
EXTENDS MCOperations, PartsProofs

----------------------------------------
(* Utilities, the ids.  No id of a generator is beyond its last time and
   sequence, and a process that neither started again nor made two has one
   generator at most. *)
Issuer == [process : IdProcesses, last : Int, sequence : 0..MaxSequence, lock : BOOLEAN]
Ids == [generator : Nat, worker : Nat, time : Int, sequence : 0..MaxSequence]
PastId(id, x) == id.time < x.last \/ (id.time = x.last /\ (x.lock \/ id.sequence <= x.sequence))

IdsIInv ==
  /\ now \in Int /\ generators \in Seq(Issuer) /\ ids \in Seq(Ids)
  /\ current \in [IdProcesses -> Nat]
  /\ \A p \in IdProcesses : current[p] # 0 => current[p] \in DOMAIN generators
  /\ thread \in [IdThreads -> [at : {"idle", "making", "made", "found", "waiting"}, using : Nat]]
  /\ \A t \in IdThreads :
       /\ thread[t].at \in {"found", "waiting"} => thread[t].using \in DOMAIN generators
       /\ thread[t].at = "made" => current[IdProcess[t]] # 0
  /\ \A i \in DOMAIN generators :
       LET p == generators[i].process
       IN  p \notin again \cup twice =>
             current[p] # 0 /\ \A j \in DOMAIN generators : generators[j].process = p => i = j
  /\ \A n \in DOMAIN ids :
       /\ ids[n].generator \in DOMAIN generators
       /\ PastId(ids[n], generators[ids[n].generator])
       /\ \A m \in DOMAIN ids :
            m < n /\ ids[m].generator = ids[n].generator => Later(ids[m], ids[n])

LEMMA InitIds == ASSUME IdsInit PROVE IdsIInv
<1> USE UtilitiesAssumption
<1>1. generators = <<>> /\ ids = <<>> /\ generators \in Seq(Issuer) /\ ids \in Seq(Ids)
  BY DEF IdsInit
<1>2. DOMAIN generators = {} /\ DOMAIN ids = {} BY <1>1
<1> QED BY <1>1, <1>2 DEF IdsInit, IdsIInv

LEMMA IdsThen == ASSUME IdsIInv PROVE IdsUnique
<1> SUFFICES ASSUME NEW m \in DOMAIN ids, NEW n \in DOMAIN ids, m < n
             PROVE  /\ ids[m].generator = ids[n].generator => Later(ids[m], ids[n])
                    /\ ids[m].worker = ids[n].worker /\ ids[m].time = ids[n].time
                       /\ ids[m].sequence = ids[n].sequence =>
                         LET p == generators[ids[m].generator].process
                             q == generators[ids[n].generator].process
                         IN  p # q \/ p \in again \cup twice
  BY Zenon DEF IdsUnique
<1>1. /\ ids[m].generator \in DOMAIN generators /\ ids[n].generator \in DOMAIN generators
      /\ ids[m].generator = ids[n].generator => Later(ids[m], ids[n])
  BY DEF IdsIInv
<1>2. ids[m] \in Ids /\ ids[n] \in Ids BY DEF IdsIInv
<1>3. Later(ids[m], ids[n]) => ~(ids[m].time = ids[n].time /\ ids[m].sequence = ids[n].sequence)
  BY <1>2 DEF Later, Ids
<1>4. LET p == generators[ids[m].generator].process
      IN  p = generators[ids[n].generator].process /\ p \notin again \cup twice =>
            ids[m].generator = ids[n].generator
  BY <1>1 DEF IdsIInv
<1> QED BY <1>1, <1>3, <1>4

(* What holds of the threads stays when one goes on. *)
LEMMA ThreadSteps ==
  ASSUME IdsIInv, NEW t \in IdThreads,
         NEW at \in {"idle", "making", "made", "found", "waiting"}, NEW g \in Nat, Goes(t, at, g),
         UNCHANGED <<generators, ids, current, twice, again>>, now' \in Int,
         at \in {"found", "waiting"} => g \in DOMAIN generators,
         at = "made" => current[IdProcess[t]] # 0
  PROVE  IdsIInv'
<1> DEFINE r == [at |-> at, using |-> g]
<1>1. /\ r \in [at : {"idle", "making", "made", "found", "waiting"}, using : Nat]
      /\ r.at = at /\ r.using = g
  OBVIOUS
<1>2. thread' = [thread EXCEPT ![t] = r] BY DEF Goes
<1> HIDE DEF r
<1>3. thread' \in [IdThreads -> [at : {"idle", "making", "made", "found", "waiting"}, using : Nat]]
  BY <1>1, <1>2 DEF IdsIInv
<1>4. \A u \in IdThreads :
       /\ thread'[u].at \in {"found", "waiting"} => thread'[u].using \in DOMAIN generators
       /\ thread'[u].at = "made" => current[IdProcess[u]] # 0
  BY <1>1, <1>2 DEF IdsIInv
<1> QED BY <1>3, <1>4 DEF IdsIInv

LEMMA TickKeeps == ASSUME IdsIInv, Tick PROVE IdsIInv'
  BY DEF IdsIInv, Tick

LEMMA LookKeeps == ASSUME IdsIInv, NEW t \in IdThreads, Look(t) PROVE IdsIInv'
<1>1. IdProcess[t] \in IdProcesses BY UtilitiesAssumption
<1>2. now' \in Int BY DEF Look, IdsIInv
<1>3. CASE current[IdProcess[t]] = 0
  <2>1. Goes(t, "making", 0) BY <1>3 DEF Look
  <2> QED BY <1>2, <2>1, ThreadSteps DEF Look
<1>4. CASE current[IdProcess[t]] # 0
  <2>1. PICK g \in Nat : g = current[IdProcess[t]] BY <1>1 DEF IdsIInv
  <2>2. g \in DOMAIN generators /\ Goes(t, "found", g) BY <1>1, <1>4, <2>1 DEF IdsIInv, Look
  <2> QED BY <1>2, <2>2, ThreadSteps DEF Look
<1> QED BY <1>3, <1>4

LEMMA TakeKeeps == ASSUME IdsIInv, NEW t \in IdThreads, Take(t) PROVE IdsIInv'
<1>1. IdProcess[t] \in IdProcesses BY UtilitiesAssumption
<1>2. PICK g \in Nat : g = current[IdProcess[t]] BY <1>1 DEF IdsIInv
<1>3. g \in DOMAIN generators /\ Goes(t, "found", g) BY <1>1, <1>2 DEF IdsIInv, Take
<1>4. now' \in Int BY DEF Take, IdsIInv
<1> QED BY <1>3, <1>4, ThreadSteps DEF Take

LEMMA ProcessRestartsKeeps ==
  ASSUME IdsIInv, NEW p \in IdProcesses, ProcessRestarts(p) PROVE IdsIInv'
<1>1. /\ current' \in [IdProcesses -> Nat] /\ current'[p] = 0
      /\ \A q \in IdProcesses : q # p => current'[q] = current[q]
  BY DEF IdsIInv, ProcessRestarts
<1>2. /\ thread' \in [IdThreads -> [at : {"idle", "making", "made", "found", "waiting"}, using : Nat]]
      /\ \A t \in IdThreads : IF IdProcess[t] = p THEN thread'[t].at = "idle" ELSE thread'[t] = thread[t]
  BY DEF IdsIInv, ProcessRestarts
<1>3. UNCHANGED <<now, generators, ids, twice>> /\ again' = again \cup {p} BY DEF ProcessRestarts
<1>4. \A t \in IdThreads :
       /\ thread'[t].at \in {"found", "waiting"} => thread'[t].using \in DOMAIN generators
       /\ thread'[t].at = "made" => current'[IdProcess[t]] # 0
  BY <1>1, <1>2, UtilitiesAssumption DEF IdsIInv
<1>5. \A i \in DOMAIN generators :
       LET q == generators[i].process
       IN  q \notin again' \cup twice =>
             current'[q] # 0 /\ \A j \in DOMAIN generators : generators[j].process = q => i = j
  <2> SUFFICES ASSUME NEW i \in DOMAIN generators, generators[i].process \notin again' \cup twice
               PROVE  /\ current'[generators[i].process] # 0
                      /\ \A j \in DOMAIN generators :
                           generators[j].process = generators[i].process => i = j
    OBVIOUS
  <2>1. generators[i] \in Issuer BY DEF IdsIInv
  <2>2. generators[i].process \in IdProcesses /\ generators[i].process # p BY <1>3, <2>1 DEF Issuer
  <2> QED BY <1>1, <1>3, <2>2 DEF IdsIInv
<1> QED BY <1>1, <1>2, <1>3, <1>4, <1>5 DEF IdsIInv

LEMMA MakeKeeps == ASSUME IdsIInv, NEW t \in IdThreads, Make(t) PROVE IdsIInv'
<1> DEFINE p == IdProcess[t]
           x == [process |-> p, last |-> -1, sequence |-> 0, lock |-> FALSE]
           N == Len(generators)
<1>1. p \in IdProcesses BY UtilitiesAssumption
<1>2. x \in Issuer /\ x.process = p BY <1>1, UtilitiesAssumption DEF Issuer
<1>3. /\ generators' = Append(generators, x) /\ current' = [current EXCEPT ![p] = Len(generators')]
      /\ twice' = (IF current[p] = 0 THEN twice ELSE twice \cup {p})
      /\ thread' = [thread EXCEPT ![t] = [at |-> "made", using |-> 0]]
      /\ UNCHANGED <<now, ids, again>>
  BY DEF Make, Goes
<1>4. generators \in Seq(Issuer) /\ current \in [IdProcesses -> Nat]
      /\ thread \in [IdThreads -> [at : {"idle", "making", "made", "found", "waiting"}, using : Nat]]
  BY DEF IdsIInv
<1> HIDE DEF p, x, N
<1>5. /\ generators' \in Seq(Issuer) /\ Len(generators') = N + 1 /\ N \in Nat
      /\ \A i \in 1..N : generators'[i] = generators[i]
      /\ generators'[N + 1] = x
  BY <1>2, <1>3, <1>4, AppendProperties DEF N
<1>6. DOMAIN generators = 1..N /\ DOMAIN generators' = 1..N + 1 BY <1>4, <1>5 DEF N
<1>7. /\ current' \in [IdProcesses -> Nat] /\ current'[p] = N + 1
      /\ \A q \in IdProcesses : q # p => current'[q] = current[q]
  BY <1>1, <1>3, <1>4, <1>5
<1>8. \A q \in IdProcesses : current'[q] # 0 => current'[q] \in DOMAIN generators'
  <2> SUFFICES ASSUME NEW q \in IdProcesses, current'[q] # 0 PROVE current'[q] \in 1..N + 1 BY <1>6
  <2>1. CASE q = p BY <1>5, <1>7, <2>1
  <2>2. CASE q # p
    <3>1. current[q] \in 1..N BY <1>6, <1>7, <2>2 DEF IdsIInv
    <3> QED BY <1>5, <1>7, <2>2, <3>1
  <2> QED BY <2>1, <2>2
<1>9. /\ thread' \in [IdThreads -> [at : {"idle", "making", "made", "found", "waiting"}, using : Nat]]
      /\ thread'[t].at = "made" /\ \A u \in IdThreads : u # t => thread'[u] = thread[u]
  BY <1>3, <1>4
<1>10. \A u \in IdThreads :
         /\ thread'[u].at \in {"found", "waiting"} => thread'[u].using \in DOMAIN generators'
         /\ thread'[u].at = "made" => current'[IdProcess[u]] # 0
  <2> SUFFICES ASSUME NEW u \in IdThreads
               PROVE  /\ thread'[u].at \in {"found", "waiting"} => thread'[u].using \in DOMAIN generators'
                      /\ thread'[u].at = "made" => current'[IdProcess[u]] # 0
    BY Zenon
  <2>1. IdProcess[u] \in IdProcesses BY UtilitiesAssumption
  <2>2. CASE u = t
    <3>1. IdProcess[u] = p BY <2>2 DEF p
    <3> QED BY <1>5, <1>7, <1>9, <2>2, <3>1
  <2>3. CASE u # t
    <3>1. thread'[u] = thread[u] BY <1>9, <2>3
    <3>2. thread[u].at = "made" => current[IdProcess[u]] # 0 BY DEF IdsIInv
    <3>3. current[IdProcess[u]] # 0 => current'[IdProcess[u]] # 0 BY <1>5, <1>7, <2>1
    <3>4. thread[u].at \in {"found", "waiting"} => thread[u].using \in 1..N BY <1>6 DEF IdsIInv
    <3> QED BY <1>5, <1>6, <3>1, <3>2, <3>3, <3>4
  <2> QED BY <2>2, <2>3
<1>11. \A i \in DOMAIN generators' :
         LET q == generators'[i].process
         IN  q \notin again' \cup twice' =>
               current'[q] # 0 /\ \A j \in DOMAIN generators' : generators'[j].process = q => i = j
  <2> SUFFICES ASSUME NEW i \in 1..N + 1, generators'[i].process \notin again \cup twice'
               PROVE  /\ current'[generators'[i].process] # 0
                      /\ \A j \in 1..N + 1 : generators'[j].process = generators'[i].process => i = j
    BY <1>3, <1>6
  <2>1. \A k \in 1..N : generators[k].process \in IdProcesses
    <3>1. \A k \in 1..N : generators[k] \in Issuer BY <1>4, ElementOfSeq DEF N
    <3> QED BY <3>1 DEF Issuer
  <2>2. p \notin again \cup twice' =>
    /\ p \notin again \cup twice
    /\ \A k \in 1..N : generators[k].process # p
    <3>1. p \notin again \cup twice' => p \notin again \cup twice /\ current[p] = 0 BY <1>3
    <3>2. ASSUME NEW k \in 1..N, generators[k].process = p, p \notin again \cup twice
          PROVE  current[p] # 0
      BY <1>6, <3>2 DEF IdsIInv
    <3> QED BY <3>1, <3>2
  <2>3. CASE i = N + 1
    <3>1. generators'[i].process = p BY <1>2, <1>5, <2>3
    <3>2. \A k \in 1..N : generators'[k].process # p BY <1>5, <2>2, <3>1
    <3>3. \A j \in 1..N + 1 : j \in 1..N \/ j = N + 1 BY <1>5
    <3> QED BY <1>5, <1>7, <2>3, <3>1, <3>2, <3>3
  <2>4. CASE i \in 1..N
    <3>1. generators'[i] = generators[i] /\ generators[i].process \in IdProcesses
      BY <1>5, <2>1, <2>4
    <3>2. generators[i].process \notin again \cup twice /\ generators[i].process # p
      BY <1>3, <2>2, <2>4, <3>1
    <3>3. /\ current[generators[i].process] # 0
          /\ \A j \in 1..N : generators[j].process = generators[i].process => i = j
      BY <1>6, <2>4, <3>2 DEF IdsIInv
    <3>4. generators'[N + 1].process = p /\ \A j \in 1..N : generators'[j] = generators[j]
      BY <1>2, <1>5
    <3>5. \A j \in 1..N + 1 : j \in 1..N \/ j = N + 1 BY <1>5
    <3> QED BY <1>7, <3>1, <3>2, <3>3, <3>4, <3>5
  <2> QED BY <1>5, <2>3, <2>4
<1>12. \A n \in DOMAIN ids' :
         /\ ids'[n].generator \in DOMAIN generators'
         /\ PastId(ids'[n], generators'[ids'[n].generator])
         /\ \A m \in DOMAIN ids' :
              m < n /\ ids'[m].generator = ids'[n].generator => Later(ids'[m], ids'[n])
  <2> SUFFICES ASSUME NEW n \in DOMAIN ids
               PROVE  /\ ids[n].generator \in 1..N + 1
                      /\ PastId(ids[n], generators'[ids[n].generator])
                      /\ \A m \in DOMAIN ids :
                           m < n /\ ids[m].generator = ids[n].generator => Later(ids[m], ids[n])
    BY <1>3, <1>6
  <2>1. ids[n].generator \in 1..N BY <1>6 DEF IdsIInv
  <2>2. generators'[ids[n].generator] = generators[ids[n].generator] BY <1>5, <2>1
  <2> QED BY <1>5, <2>1, <2>2 DEF IdsIInv
<1>13. now' \in Int /\ ids' \in Seq(Ids) BY <1>3 DEF IdsIInv
<1> QED BY <1>5, <1>7, <1>8, <1>9, <1>10, <1>11, <1>12, <1>13 DEF IdsIInv

(* An id beyond all of its generator is issued. *)
LEMMA IssueKeeps ==
  ASSUME IdsIInv, NEW t \in IdThreads, NEW g \in DOMAIN generators,
         NEW time \in Int, NEW sequence \in 0..MaxSequence,
         \/ generators[g].last < time
         \/ /\ generators[g].last = time /\ ~generators[g].lock
            /\ generators[g].sequence < sequence,
         Issue(g, time, sequence), Goes(t, "idle", 0), UNCHANGED <<now, current, twice, again>>
  PROVE  IdsIInv'
<1> USE UtilitiesAssumption
<1>1. PICK old \in Issuer : old = generators[g] BY DEF IdsIInv
<1> DEFINE x == [old EXCEPT !.last = time, !.sequence = sequence, !.lock = FALSE]
           d == [generator |-> g, worker |-> Worker[old.process], time |-> time,
                 sequence |-> sequence]
           N == Len(ids)
<1>2. x \in Issuer /\ x.process = old.process /\ x.last = time /\ x.sequence = sequence
  BY DEF Issuer
<1>3. generators' = [generators EXCEPT ![g] = x] /\ ids' = Append(ids, d) BY <1>1 DEF Issue
<1>4. generators \in Seq(Issuer) /\ ids \in Seq(Ids) /\ g \in Nat BY DEF IdsIInv
<1>5. /\ d \in Ids /\ d.generator = g /\ d.time = time /\ d.sequence = sequence
  <2>1. Worker[old.process] \in Nat BY DEF Issuer
  <2> QED BY <1>4, <2>1 DEF Ids
<1> HIDE DEF x, d, N
<1>6. /\ generators' \in Seq(Issuer) /\ DOMAIN generators' = DOMAIN generators
      /\ generators'[g] = x
      /\ \A i \in DOMAIN generators : i # g => generators'[i] = generators[i]
  BY <1>2, <1>3, <1>4
<1>7. \A i \in DOMAIN generators : generators'[i].process = generators[i].process
  BY <1>1, <1>2, <1>6
<1>8. /\ ids' \in Seq(Ids) /\ Len(ids') = N + 1 /\ N \in Nat
      /\ \A i \in 1..N : ids'[i] = ids[i]
      /\ ids'[N + 1] = d
  BY <1>3, <1>4, <1>5, AppendProperties DEF N
<1>9. DOMAIN ids = 1..N /\ DOMAIN ids' = 1..N + 1 BY <1>4, <1>8 DEF N
<1>10. /\ thread' \in [IdThreads -> [at : {"idle", "making", "made", "found", "waiting"}, using : Nat]]
       /\ \A u \in IdThreads : thread'[u].at = "idle" \/ thread'[u] = thread[u]
  BY DEF Goes, IdsIInv
<1>11. \A i \in 1..N : ids[i] \in Ids BY <1>4, ElementOfSeq DEF N
<1>12. ASSUME NEW i \in 1..N, ids[i].generator = g PROVE Later(ids[i], d) /\ PastId(ids[i], x)
  <2>1. PastId(ids[i], old) BY <1>1, <1>9, <1>12 DEF IdsIInv
  <2>2. ids[i].time \in Int /\ ids[i].sequence \in 0..MaxSequence /\ old.last \in Int
        /\ old.sequence \in 0..MaxSequence
    BY <1>11 DEF Ids, Issuer
  <2>3. CASE old.last < time BY <1>2, <1>5, <2>1, <2>2, <2>3 DEF Later, PastId
  <2>4. CASE old.last = time /\ ~old.lock /\ old.sequence < sequence
    <3>1. ids[i].time < old.last \/ (ids[i].time = old.last /\ ids[i].sequence <= old.sequence)
      BY <2>1, <2>4 DEF PastId
    <3> QED BY <1>2, <1>5, <2>2, <2>4, <3>1 DEF Later, PastId
  <2> QED BY <1>1, <2>3, <2>4
<1>13. PastId(d, x) BY <1>2, <1>5 DEF PastId
<1>14. \A n \in DOMAIN ids' :
         /\ ids'[n].generator \in DOMAIN generators'
         /\ PastId(ids'[n], generators'[ids'[n].generator])
         /\ \A m \in DOMAIN ids' :
              m < n /\ ids'[m].generator = ids'[n].generator => Later(ids'[m], ids'[n])
  <2> SUFFICES ASSUME NEW n \in 1..N + 1
               PROVE  /\ ids'[n].generator \in DOMAIN generators
                      /\ PastId(ids'[n], generators'[ids'[n].generator])
                      /\ \A m \in 1..N + 1 :
                           m < n /\ ids'[m].generator = ids'[n].generator => Later(ids'[m], ids'[n])
    BY <1>6, <1>9
  <2>1. CASE n = N + 1
    <3>1. \A m \in 1..N + 1 : m < n => m \in 1..N BY <1>8, <2>1
    <3> QED BY <1>5, <1>6, <1>8, <1>12, <1>13, <2>1, <3>1
  <2>2. CASE n \in 1..N
    <3>1. ids'[n] = ids[n] /\ ids[n].generator \in DOMAIN generators BY <1>8, <1>9, <2>2 DEF IdsIInv
    <3>2. PastId(ids'[n], generators'[ids'[n].generator])
      <4>1. CASE ids[n].generator = g BY <1>6, <1>12, <2>2, <3>1, <4>1
      <4>2. CASE ids[n].generator # g
        <5>1. generators'[ids[n].generator] = generators[ids[n].generator] BY <1>6, <3>1, <4>2
        <5> QED BY <1>9, <2>2, <3>1, <5>1 DEF IdsIInv
      <4> QED BY <4>1, <4>2
    <3>3. ASSUME NEW m \in 1..N + 1, m < n, ids'[m].generator = ids'[n].generator
          PROVE  Later(ids'[m], ids'[n])
      <4>1. m \in 1..N BY <1>8, <2>2, <3>3
      <4> QED BY <1>8, <1>9, <2>2, <3>1, <3>3, <4>1 DEF IdsIInv
    <3> QED BY <3>1, <3>2, <3>3
  <2> QED BY <1>8, <2>1, <2>2
<1>15. \A i \in DOMAIN generators' :
         LET q == generators'[i].process
         IN  q \notin again' \cup twice' =>
               current'[q] # 0 /\ \A j \in DOMAIN generators' : generators'[j].process = q => i = j
  BY <1>6, <1>7 DEF IdsIInv
<1>16. \A u \in IdThreads :
         /\ thread'[u].at \in {"found", "waiting"} => thread'[u].using \in DOMAIN generators'
         /\ thread'[u].at = "made" => current'[IdProcess[u]] # 0
  BY <1>6, <1>10 DEF IdsIInv
<1>17. /\ now' \in Int /\ current' \in [IdProcesses -> Nat]
       /\ \A q \in IdProcesses : current'[q] # 0 => current'[q] \in DOMAIN generators'
  BY <1>6 DEF IdsIInv
<1> QED BY <1>6, <1>8, <1>10, <1>14, <1>15, <1>16, <1>17 DEF IdsIInv

LEMMA NextSequence ==
  ASSUME NEW M \in Nat, NEW s \in 0..M, (s + 1) % (M + 1) # 0
  PROVE  (s + 1) % (M + 1) = s + 1 /\ s + 1 \in 0..M
<1>1. s = M => (s + 1) % (M + 1) = 0 OBVIOUS
<1>2. s + 1 \in 0..M BY <1>1
<1> QED BY <1>2

LEMMA NextIdKeeps == ASSUME IdsIInv, NEW t \in IdThreads, NextId(t) PROVE IdsIInv'
<1> DEFINE next == (generators[thread[t].using].sequence + 1) % (MaxSequence + 1)
<1>1. PICK g \in DOMAIN generators : g = thread[t].using BY DEF IdsIInv, NextId
<1>2. PICK x \in Issuer : x = generators[g] BY DEF IdsIInv
<1>3. /\ ~x.lock /\ UNCHANGED <<now, current, twice, again>> /\ now \in Int
      /\ x.last \in Int /\ x.sequence \in 0..MaxSequence /\ MaxSequence \in Nat /\ 0 \in 0..MaxSequence
      /\ g \in Nat /\ next = (x.sequence + 1) % (MaxSequence + 1)
  <2>1. ~x.lock /\ UNCHANGED <<now, current, twice, again>> /\ now \in Int /\ g \in Nat
    BY <1>1, <1>2 DEF NextId, IdsIInv
  <2> QED BY <1>1, <1>2, <2>1, UtilitiesAssumption DEF Issuer
<1>4. \/ Goes(t, "idle", 0) /\ UNCHANGED <<generators, ids>>
      \/ now > x.last /\ Issue(g, now, 0) /\ Goes(t, "idle", 0)
      \/ now = x.last /\ next # 0 /\ Issue(g, now, next) /\ Goes(t, "idle", 0)
      \/ /\ Goes(t, "waiting", g) /\ UNCHANGED ids
         /\ generators' = [generators EXCEPT ![g].lock = TRUE, ![g].sequence = 0]
  BY <1>1, <1>2 DEF NextId
<1> HIDE DEF next
<1>5. CASE Goes(t, "idle", 0) /\ UNCHANGED <<generators, ids>> BY <1>3, <1>5, ThreadSteps
<1>6. CASE now > x.last /\ Issue(g, now, 0) /\ Goes(t, "idle", 0)
  <2>1. PICK n \in Int : n = now BY <1>3
  <2> QED BY <1>2, <1>3, <1>6, <2>1, IssueKeeps
<1>7. CASE now = x.last /\ next # 0 /\ Issue(g, now, next) /\ Goes(t, "idle", 0)
  <2>1. next = x.sequence + 1 /\ next \in 0..MaxSequence BY <1>3, <1>7, NextSequence
  <2>2. PICK n \in Int : n = now BY <1>3
  <2>3. PICK s \in 0..MaxSequence : s = next BY <2>1
  <2>4. x.sequence < s BY <1>3, <2>1, <2>3
  <2> QED BY <1>2, <1>3, <1>7, <2>2, <2>3, <2>4, IssueKeeps
<1>8. CASE /\ Goes(t, "waiting", g) /\ UNCHANGED ids
           /\ generators' = [generators EXCEPT ![g].lock = TRUE, ![g].sequence = 0]
  <2> DEFINE y == [x EXCEPT !.lock = TRUE, !.sequence = 0]
  <2>1. y \in Issuer /\ y.process = x.process /\ y.last = x.last BY <1>3 DEF Issuer
  <2>2. y.lock BY DEF Issuer
  <2>3. generators' = [generators EXCEPT ![g] = y] BY <1>2, <1>8
  <2> HIDE DEF y
  <2>4. /\ generators' \in Seq(Issuer) /\ DOMAIN generators' = DOMAIN generators
        /\ generators'[g] = y
        /\ \A i \in DOMAIN generators : i # g => generators'[i] = generators[i]
    BY <2>1, <2>3 DEF IdsIInv
  <2>5. \A i \in DOMAIN generators : generators'[i].process = generators[i].process
    BY <1>2, <2>1, <2>4
  <2>6. /\ thread' \in [IdThreads -> [at : {"idle", "making", "made", "found", "waiting"}, using : Nat]]
        /\ \A u \in IdThreads : (thread'[u].using = g /\ thread'[u].at = "waiting") \/ thread'[u] = thread[u]
    BY <1>3, <1>8 DEF Goes, IdsIInv
  <2>7. \A id \in Ids : PastId(id, x) => PastId(id, y)
    <3>1. ASSUME NEW id \in Ids, PastId(id, x) PROVE PastId(id, y) BY <2>1, <2>2, <3>1 DEF PastId
    <3> QED BY <3>1
  <2>8. \A n \in DOMAIN ids : PastId(ids[n], generators'[ids[n].generator])
    <3> SUFFICES ASSUME NEW n \in DOMAIN ids PROVE PastId(ids[n], generators'[ids[n].generator])
      OBVIOUS
    <3>1. ids[n] \in Ids /\ ids[n].generator \in DOMAIN generators
          /\ PastId(ids[n], generators[ids[n].generator])
      BY DEF IdsIInv
    <3> QED BY <1>2, <2>4, <2>7, <3>1
  <2>9. \A i \in DOMAIN generators' :
         LET q == generators'[i].process
         IN  q \notin again' \cup twice' =>
               current'[q] # 0 /\ \A j \in DOMAIN generators' : generators'[j].process = q => i = j
    BY <1>3, <2>4, <2>5 DEF IdsIInv
  <2>10. \A u \in IdThreads :
           /\ thread'[u].at \in {"found", "waiting"} => thread'[u].using \in DOMAIN generators'
           /\ thread'[u].at = "made" => current'[IdProcess[u]] # 0
    BY <1>3, <2>4, <2>6 DEF IdsIInv
  <2>11. /\ now' \in Int /\ current' \in [IdProcesses -> Nat] /\ ids' \in Seq(Ids)
         /\ \A q \in IdProcesses : current'[q] # 0 => current'[q] \in DOMAIN generators'
    BY <1>3, <1>8, <2>4 DEF IdsIInv
  <2> QED BY <1>8, <2>4, <2>6, <2>8, <2>9, <2>10, <2>11 DEF IdsIInv
<1> QED BY <1>4, <1>5, <1>6, <1>7, <1>8

LEMMA WaitedKeeps == ASSUME IdsIInv, NEW t \in IdThreads, Waited(t) PROVE IdsIInv'
<1>1. PICK g \in DOMAIN generators : g = thread[t].using BY DEF IdsIInv, Waited
<1>2. generators[g] \in Issuer BY DEF IdsIInv
<1>3. PICK n \in Int : n = now BY DEF IdsIInv
<1>4. generators[g].last < n /\ 0 \in 0..MaxSequence
  BY <1>1, <1>2, <1>3, UtilitiesAssumption DEF Issuer, Waited
<1>5. Issue(g, n, 0) /\ Goes(t, "idle", 0) /\ UNCHANGED <<now, current, twice, again>>
  BY <1>1, <1>3 DEF Waited
<1> QED BY <1>4, <1>5, IssueKeeps

LEMMA IdsNextKeeps == ASSUME IdsIInv, IdsNext PROVE IdsIInv'
  BY TickKeeps, LookKeeps, MakeKeeps, TakeKeeps, NextIdKeeps, WaitedKeeps, ProcessRestartsKeeps
  DEF IdsNext

----------------------------------------
(* Utilities, FileLock.  Who has an object alone has its handle, and no
   other, while trying and holding. *)
LockObjects == {LockObject[u] : u \in LockUsers}
LockStates == {"idle", "trying", "holding", "timeout", "done", "error"}
Holders == [at : LockStates, last : 0..MaxHandles]

LocksIInv ==
  /\ handle \in [LockObjects -> 0..MaxHandles] /\ opened \in SUBSET (1..MaxHandles)
  /\ lockedBy \in 0..MaxHandles /\ user \in [LockUsers -> Holders]
  /\ \A o \in LockObjects :
       /\ handle[o] # 0 => handle[o] \in opened
       /\ \A k \in LockObjects : k # o /\ handle[k] = handle[o] => handle[o] = 0
  /\ \A u \in LockUsers :
       ~Sharing(u) =>
         /\ IF user[u].at \in {"trying", "holding"}
            THEN handle[LockObject[u]] = user[u].last /\ user[u].last # 0
            ELSE handle[LockObject[u]] = 0 /\ user[u].last \notin opened
         /\ user[u].at = "holding" => lockedBy = user[u].last

LEMMA InitLocks == ASSUME LocksInit PROVE LocksIInv
  BY UtilitiesAssumption DEF LocksInit, LocksIInv, LockObjects, LockStates, Holders

LEMMA ApartFrom ==
  ASSUME NEW u \in LockUsers, NEW v \in LockUsers, u # v, ~Sharing(v)
  PROVE  LockObject[u] # LockObject[v]
  BY DEF Sharing

LEMMA LocksThen == ASSUME LocksIInv PROVE LockExclusive
<1>1. ASSUME NEW u \in LockUsers, NEW v \in LockUsers, u # v, user[u].at = "holding",
             user[v].at = "holding", ~Sharing(u), ~Sharing(v)
      PROVE  FALSE
  <2>1. /\ lockedBy = handle[LockObject[u]] /\ lockedBy = handle[LockObject[v]] /\ lockedBy # 0
        /\ LockObject[u] \in LockObjects /\ LockObject[v] \in LockObjects
    BY <1>1 DEF LocksIInv, LockObjects
  <2> QED BY <1>1, <2>1, ApartFrom DEF LocksIInv
<1>2. ASSUME NEW u \in LockUsers, ~Sharing(u), user[u].at \notin {"trying", "holding"}
      PROVE  handle[LockObject[u]] = 0 /\ user[u].last \notin opened
  BY <1>2 DEF LocksIInv
<1> QED BY <1>1, <1>2 DEF LockExclusive

(* One user goes on, and the handles stay as they are. *)
LEMMA UserStays ==
  ASSUME LocksIInv, NEW u \in LockUsers, NEW at \in LockStates, UserAt(u, at)
  PROVE  /\ user' \in [LockUsers -> Holders] /\ user'[u].at = at /\ user'[u].last = user[u].last
         /\ \A v \in LockUsers : v # u => user'[v] = user[v]
  BY DEF LocksIInv, UserAt, Holders

LEMMA OpenFileKeeps == ASSUME LocksIInv, NEW u \in LockUsers, OpenFile(u) PROVE LocksIInv'
<1> DEFINE S == Handles \cup {0}
           top == CHOOSE h \in S : \A k \in Handles : k <= h
           new == 1 + top
           o == LockObject[u]
<1>1. S \in SUBSET (0..MaxHandles) /\ S # {}
  <2>1. \A v \in LockUsers : user[v].last \in 0..MaxHandles BY DEF LocksIInv, Holders
  <2>2. opened \subseteq 0..MaxHandles /\ 0 \in 0..MaxHandles BY UtilitiesAssumption DEF LocksIInv
  <2> QED BY <2>1, <2>2 DEF Handles
<1>2. PICK m \in S : \A k \in S : k <= m
  <2> HIDE DEF S
  <2> QED BY <1>1, GreatestIs, UtilitiesAssumption
<1>3. top \in S /\ \A k \in Handles : k <= top BY <1>2
<1> HIDE DEF top
<1>4. top \in 0..MaxHandles BY <1>1, <1>3
<1>5. /\ user[u].at = "idle" /\ new <= MaxHandles /\ opened' = opened \cup {new}
      /\ handle' = [handle EXCEPT ![o] = new]
      /\ user' = [user EXCEPT ![u] = [at |-> "trying", last |-> new]] /\ UNCHANGED lockedBy
  BY DEF OpenFile, top
<1>6. new \in 1..MaxHandles /\ new # 0 /\ \A k \in Handles : k # new
  <2>1. \A k \in Handles : k \in 0..MaxHandles BY <1>1
  <2> QED BY <1>3, <1>4, <1>5, <2>1, UtilitiesAssumption
<1>7. \A v \in LockUsers : user[v].last # new BY <1>6 DEF Handles
<1>8. new \notin opened BY <1>6 DEF Handles
<1> HIDE DEF new, S, o
<1>9. o \in LockObjects BY DEF o, LockObjects
<1>10. /\ handle' \in [LockObjects -> 0..MaxHandles] /\ handle'[o] = new
       /\ \A k \in LockObjects : k # o => handle'[k] = handle[k]
  BY <1>5, <1>6, <1>9 DEF LocksIInv
<1>11. \A k \in LockObjects : handle[k] # new BY <1>6, <1>8 DEF LocksIInv
<1>12. opened' \in SUBSET (1..MaxHandles) /\ lockedBy' \in 0..MaxHandles BY <1>5, <1>6 DEF LocksIInv
<1>13. /\ user' \in [LockUsers -> Holders] /\ user'[u].at = "trying" /\ user'[u].last = new
       /\ \A v \in LockUsers : v # u => user'[v] = user[v]
  BY <1>5, <1>6 DEF LocksIInv, Holders, LockStates
<1>14. \A k \in LockObjects :
         /\ handle'[k] # 0 => handle'[k] \in opened'
         /\ \A l \in LockObjects : l # k /\ handle'[l] = handle'[k] => handle'[k] = 0
  BY <1>5, <1>10, <1>11 DEF LocksIInv
<1>15. ASSUME NEW v \in LockUsers, ~Sharing(v)
       PROVE  /\ IF user'[v].at \in {"trying", "holding"}
                 THEN handle'[LockObject[v]] = user'[v].last /\ user'[v].last # 0
                 ELSE handle'[LockObject[v]] = 0 /\ user'[v].last \notin opened'
              /\ user'[v].at = "holding" => lockedBy' = user'[v].last
  <2>1. CASE v = u BY <1>6, <1>10, <1>13, <2>1 DEF o
  <2>2. CASE v # u
    <3>1. LockObject[v] \in LockObjects /\ LockObject[v] # o
      BY <1>15, <2>2, ApartFrom DEF o, LockObjects
    <3>2. user'[v] = user[v] /\ handle'[LockObject[v]] = handle[LockObject[v]]
      BY <1>10, <1>13, <2>2, <3>1
    <3> QED BY <1>5, <1>7, <1>15, <3>2 DEF LocksIInv
  <2> QED BY <2>1, <2>2
<1> QED BY <1>10, <1>12, <1>13, <1>14, <1>15 DEF LocksIInv, Sharing

LEMMA TryLockKeeps == ASSUME LocksIInv, NEW u \in LockUsers, TryLock(u) PROVE LocksIInv'
<1> DEFINE h == handle[LockObject[u]]
<1>1. LockObject[u] \in LockObjects /\ h \in 0..MaxHandles BY DEF LocksIInv, LockObjects
<1>2. user[u].at = "trying" /\ UNCHANGED <<handle, opened>> BY DEF TryLock
<1>3. CASE h # 0 /\ lockedBy \in {0, h} /\ lockedBy' = h /\ UserAt(u, "holding")
  <2>1. /\ user' \in [LockUsers -> Holders] /\ user'[u].at = "holding"
        /\ user'[u].last = user[u].last /\ \A v \in LockUsers : v # u => user'[v] = user[v]
    BY <1>3, UserStays DEF LockStates
  <2>2. ASSUME NEW v \in LockUsers, ~Sharing(v)
        PROVE  /\ IF user'[v].at \in {"trying", "holding"}
                  THEN handle[LockObject[v]] = user'[v].last /\ user'[v].last # 0
                  ELSE handle[LockObject[v]] = 0 /\ user'[v].last \notin opened
               /\ user'[v].at = "holding" => lockedBy' = user'[v].last
    <3>1. CASE v = u BY <1>2, <1>3, <2>1, <2>2, <3>1 DEF LocksIInv
    <3>2. CASE v # u
      <4>1. LockObject[v] \in LockObjects /\ LockObject[v] # LockObject[u]
        BY <2>2, <3>2, ApartFrom DEF LockObjects
      <4>2. handle[LockObject[v]] = h => h = 0 BY <1>1, <4>1 DEF LocksIInv
      <4>3. user[v].at # "holding" BY <1>3, <2>2, <4>2 DEF LocksIInv
      <4> QED BY <2>1, <2>2, <3>2, <4>3 DEF LocksIInv
    <3> QED BY <3>1, <3>2
  <2> QED BY <1>1, <1>2, <1>3, <2>1, <2>2 DEF LocksIInv, Sharing
<1>4. CASE h = 0 /\ UserAt(u, "error") /\ UNCHANGED lockedBy
  <2>1. /\ user' \in [LockUsers -> Holders] /\ user'[u].at = "error"
        /\ user'[u].last = user[u].last /\ \A v \in LockUsers : v # u => user'[v] = user[v]
    BY <1>4, UserStays DEF LockStates
  <2>2. Sharing(u) BY <1>2, <1>4 DEF LocksIInv
  <2>3. \A v \in LockUsers : ~Sharing(v) => user'[v] = user[v] BY <2>1, <2>2
  <2> QED BY <1>2, <1>4, <2>1, <2>3 DEF LocksIInv, Sharing
<1> QED BY <1>3, <1>4 DEF TryLock

LEMMA CloseKeeps ==
  ASSUME LocksIInv, NEW u \in LockUsers, NEW at \in LockStates \ {"trying", "holding"},
         user[u].at \in {"trying", "holding"}, CloseHandle(LockObject[u]), UserAt(u, at)
  PROVE  LocksIInv'
<1> DEFINE o == LockObject[u]
<1>1. o \in LockObjects BY DEF LockObjects
<1>2. /\ user' \in [LockUsers -> Holders] /\ user'[u].at = at
      /\ user'[u].last = user[u].last /\ \A v \in LockUsers : v # u => user'[v] = user[v]
  BY UserStays
<1>3. /\ opened' = opened \ {handle[o]} /\ handle' = [handle EXCEPT ![o] = 0]
      /\ lockedBy' = IF lockedBy = handle[o] THEN 0 ELSE lockedBy
  BY DEF CloseHandle
<1> HIDE DEF o
<1>4. /\ handle' \in [LockObjects -> 0..MaxHandles] /\ handle'[o] = 0
      /\ \A k \in LockObjects : k # o => handle'[k] = handle[k]
  BY <1>1, <1>3, UtilitiesAssumption DEF LocksIInv
<1>5. opened' \in SUBSET (1..MaxHandles) /\ lockedBy' \in 0..MaxHandles
  <2>1. 0 \in 0..MaxHandles /\ opened \subseteq 1..MaxHandles /\ lockedBy \in 0..MaxHandles
    BY UtilitiesAssumption DEF LocksIInv
  <2>2. opened' \subseteq opened /\ lockedBy' \in {0, lockedBy} BY <1>3
  <2> QED BY <2>1, <2>2
<1>6. \A k \in LockObjects :
        /\ handle'[k] # 0 => handle'[k] \in opened'
        /\ \A l \in LockObjects : l # k /\ handle'[l] = handle'[k] => handle'[k] = 0
  BY <1>1, <1>3, <1>4 DEF LocksIInv
<1>7. ASSUME NEW v \in LockUsers, ~Sharing(v)
      PROVE  /\ IF user'[v].at \in {"trying", "holding"}
                THEN handle'[LockObject[v]] = user'[v].last /\ user'[v].last # 0
                ELSE handle'[LockObject[v]] = 0 /\ user'[v].last \notin opened'
             /\ user'[v].at = "holding" => lockedBy' = user'[v].last
  <2>1. CASE v = u BY <1>2, <1>3, <1>4, <1>7, <2>1 DEF LocksIInv, o
  <2>2. CASE v # u
    <3>1. LockObject[v] \in LockObjects /\ LockObject[v] # o
      BY <1>7, <2>2, ApartFrom DEF o, LockObjects
    <3>2. user'[v] = user[v] /\ handle'[LockObject[v]] = handle[LockObject[v]]
      BY <1>2, <1>4, <2>2, <3>1
    <3>3. handle[LockObject[v]] = handle[o] => handle[LockObject[v]] = 0 BY <1>1, <3>1 DEF LocksIInv
    <3> QED BY <1>3, <1>7, <3>2, <3>3 DEF LocksIInv
  <2> QED BY <2>1, <2>2
<1> QED BY <1>2, <1>4, <1>5, <1>6, <1>7 DEF LocksIInv, Sharing

LEMMA LocksNextKeeps == ASSUME LocksIInv, LocksNext PROVE LocksIInv'
<1> SUFFICES ASSUME NEW u \in LockUsers,
                    OpenFile(u) \/ TryLock(u) \/ GiveUp(u) \/ Release(u) \/ Again(u) \/ UserEnds(u)
             PROVE  LocksIInv'
  BY DEF LocksNext
<1>1. CASE OpenFile(u) BY <1>1, OpenFileKeeps
<1>2. CASE TryLock(u) BY <1>2, TryLockKeeps
<1>3. CASE GiveUp(u) BY <1>3, CloseKeeps DEF GiveUp, LockStates
<1>4. CASE Release(u)
  <2>1. user[u].at = "holding" /\ UserAt(u, "done") BY <1>4 DEF Release
  <2>2. CASE handle[LockObject[u]] # 0 BY <1>4, <2>1, <2>2, CloseKeeps DEF Release, LockStates
  <2>3. CASE handle[LockObject[u]] = 0
    <3>1. /\ user' \in [LockUsers -> Holders] /\ user'[u].at = "done"
          /\ user'[u].last = user[u].last /\ \A v \in LockUsers : v # u => user'[v] = user[v]
      BY <2>1, UserStays DEF LockStates
    <3>2. Sharing(u) BY <2>1, <2>3 DEF LocksIInv
    <3>3. \A v \in LockUsers : ~Sharing(v) => user'[v] = user[v] BY <3>1, <3>2
    <3>4. UNCHANGED <<handle, opened, lockedBy>> BY <1>4, <2>3 DEF Release
    <3> QED BY <3>1, <3>3, <3>4 DEF LocksIInv, Sharing
  <2> QED BY <2>2, <2>3
<1>5. CASE Again(u)
  <2>1. /\ user' \in [LockUsers -> Holders] /\ user'[u].at = "idle"
        /\ user'[u].last = user[u].last /\ \A v \in LockUsers : v # u => user'[v] = user[v]
    BY <1>5, UserStays DEF Again, LockStates
  <2>2. user[u].at \in {"done", "timeout", "error"} /\ UNCHANGED <<handle, opened, lockedBy>>
    BY <1>5 DEF Again
  <2> QED BY <2>1, <2>2 DEF LocksIInv, Sharing
<1>6. CASE UserEnds(u) BY <1>6, CloseKeeps DEF UserEnds, LockStates
<1> QED BY <1>1, <1>2, <1>3, <1>4, <1>5, <1>6

----------------------------------------
(* Utilities, whose request it is.  Its peer is the last proxy, or its
   sender; what a look at it finds does not change, for those it may ask
   about are kept from the first time on. *)
LastIn(r) == IF Len(r.path) = 0 THEN r.sender ELSE [of |-> r.path[Len(r.path)], form |-> "plain"]
BeforeOf(r) == IF Len(r.path) = 1 THEN r.sender
               ELSE [of |-> r.path[Len(r.path) - 1], form |-> "plain"]
ToldOf(r) == IF r.real # Nobody THEN r.real
             ELSE IF r.forwarded # <<>> THEN r.forwarded[Len(r.forwarded)]
             ELSE LastIn(r)
ClientOf(r) == IF LastIn(r) = Nobody \/ ~IsTrustedProxy(LastIn(r)) THEN LastIn(r) ELSE ToldOf(r)

HeaderTexts == Texts \cup Claims
Arrivals == [at : {"none", "arrived", "applied", "admitted", "refused"}, sender : Texts,
             path : Seq(Addresses), peer : HeaderTexts, real : HeaderTexts,
             forwarded : Seq(HeaderTexts)]
RequestFormed(r) ==
  /\ r.forwarded # <<>> => r.forwarded[Len(r.forwarded)] # Nobody
  /\ Len(r.path) > 0 =>
     /\ r.real \in {BeforeOf(r), Nobody}
     /\ r.forwarded # <<>> /\ r.forwarded[Len(r.forwarded)] = BeforeOf(r)
     /\ BeforeOf(r) # Nobody

ClientsIInv ==
  /\ arrived \in Arrivals /\ RequestFormed(arrived)
  /\ arrived.at = "none" => resolved = <<>>
  /\ arrived.at = "arrived" => arrived.peer = LastIn(arrived) /\ resolved = <<>>
  /\ arrived.at = "applied" => arrived.peer = ClientOf(arrived) /\ resolved = <<ClientOf(arrived)>>
  /\ arrived.at \in {"admitted", "refused"} =>
       resolved \in {<<ClientOf(arrived)>>, <<ClientOf(arrived), ClientOf(arrived)>>}
  /\ arrived.at \notin {"none", "arrived"} /\ AsksForExtra(LastIn(arrived)) => proxyCache # {}
  /\ arrived.at = "admitted" /\ guarded.enabled /\ guarded.production =>
       InNetworks(ClientOf(arrived), EffectiveCidrs)
  /\ arrived.at = "refused" => ~InNetworks(ClientOf(arrived), EffectiveCidrs)

LEMMA InitClients == ASSUME ClientsInit PROVE ClientsIInv
<1>1. arrived = NoRequest /\ resolved = <<>> BY DEF ClientsInit
<1>2. /\ NoRequest \in Arrivals /\ NoRequest.forwarded = <<>> /\ NoRequest.path = <<>>
      /\ NoRequest.at = "none"
  BY DEF NoRequest, Arrivals, HeaderTexts, Texts
<1>3. Len(NoRequest.path) = 0 BY <1>2
<1> QED BY <1>1, <1>2, <1>3 DEF ClientsIInv, RequestFormed

LEMMA LastIs ==
  ASSUME NEW r \in Arrivals
  PROVE  /\ LastIn(r) \in Texts
         /\ Len(r.path) > 0 => LastIn(r) # Nobody /\ LastIn(r).of = r.path[Len(r.path)]
  <1>1. r.path \in Seq(Addresses) /\ r.sender \in Texts /\ Len(r.path) \in Nat BY DEF Arrivals
  <1>2. Len(r.path) > 0 => r.path[Len(r.path)] \in Addresses BY <1>1
  <1> QED BY <1>1, <1>2, AddressesAssumption DEF LastIn, Texts, Nobody

LEMMA ClientsThen == ASSUME ClientsIInv PROVE ClientsKnown
<1> SUFFICES ASSUME arrived.at \notin {"none", "arrived"}
             PROVE  LET n == Len(arrived.path)
                        direct == n = 0
                        last == LastIn(arrived)
                        before == BeforeOf(arrived)
                    IN  /\ \A i \in DOMAIN resolved : ParseIp(resolved[i]) = ParseIp(resolved[1])
                        /\ ~direct => resolved[1] \in {before, last}
                        /\ ~direct /\ InNetworks(last, PrivateNets) => resolved[1] = before
                        /\ direct /\ ~IsTrustedProxy(last) => resolved[1] = last
                        /\ guarded.enabled /\ guarded.production =>
                             (arrived.at = "admitted" => resolved[1].of \in DefaultCidrs \cup AllowedCidrs)
                        /\ arrived.at = "refused" => resolved[1].of \notin DefaultCidrs \cup AllowedCidrs
                        /\ ~IsPrivateOrReserved(resolved[1]) /\ ~direct
                             /\ (\A i \in DOMAIN arrived.path : arrived.path[i] \in PrivateNets) =>
                             resolved[1] = arrived.sender
  BY DEF ClientsKnown, LastIn, BeforeOf
<1> DEFINE last == LastIn(arrived)
           before == BeforeOf(arrived)
           found == ClientOf(arrived)
           n == Len(arrived.path)
<1>1. /\ arrived \in Arrivals /\ RequestFormed(arrived) /\ n \in Nat
      /\ arrived.path \in Seq(Addresses)
  BY DEF ClientsIInv, Arrivals
<1>2. arrived.at \in {"applied", "admitted", "refused"} BY <1>1 DEF Arrivals
<1>3. resolved \in {<<found>>, <<found, found>>} BY <1>2 DEF ClientsIInv
<1>4. resolved[1] = found /\ \A i \in DOMAIN resolved : resolved[i] = found BY <1>3
<1>5. n # 0 => /\ last # Nobody /\ ToldOf(arrived) = before
               /\ last.of = arrived.path[n]
  BY <1>1, LastIs DEF RequestFormed, ToldOf
<1>6. InNetworks(last, PrivateNets) => IsTrustedProxy(last) BY DEF IsTrustedProxy
<1>7. n # 0 => found \in {before, last} /\ (InNetworks(last, PrivateNets) => found = before)
  BY <1>5, <1>6 DEF ClientOf
<1>8. ~IsTrustedProxy(last) => found = last BY DEF ClientOf
<1>9. \A x : InNetworks(x, EffectiveCidrs) <=> x.of \in DefaultCidrs \cup AllowedCidrs
  BY AddressesAssumption DEF InNetworks, ParseIp, EffectiveCidrs
<1>10. /\ guarded.enabled /\ guarded.production /\ arrived.at = "admitted" =>
            InNetworks(found, EffectiveCidrs)
       /\ arrived.at = "refused" => ~InNetworks(found, EffectiveCidrs)
  BY DEF ClientsIInv
<1>11. ASSUME ~IsPrivateOrReserved(found), n # 0,
              \A i \in DOMAIN arrived.path : arrived.path[i] \in PrivateNets
       PROVE  found = arrived.sender
  <2>1. DOMAIN arrived.path = 1..n /\ n \in 1..n BY <1>1, <1>11
  <2>2. last.of \in PrivateNets /\ last.of # "none" BY <1>5, <1>11, <2>1, AddressesAssumption
  <2>3. found = before BY <1>7, <1>11, <2>2 DEF InNetworks, ParseIp
  <2>4. CASE n = 1 BY <2>3, <2>4 DEF BeforeOf
  <2>5. CASE n # 1
    <3>1. n - 1 \in 1..n
      <4>1. \A k \in Nat : k # 0 /\ k # 1 => k - 1 \in 1..k OBVIOUS
      <4>2. n # 0 /\ n # 1 BY <1>11, <2>5
      <4> HIDE DEF n
      <4> QED BY <1>1, <4>1, <4>2
    <3>2. before.of = arrived.path[n - 1] /\ before.of \in PrivateNets
      BY <1>11, <2>1, <2>5, <3>1 DEF BeforeOf
    <3>3. before.of # "none" BY <3>2, AddressesAssumption
    <3> QED BY <1>11, <2>3, <3>2, <3>3 DEF IsPrivateOrReserved, InNetworks, ParseIp
  <2> QED BY <2>4, <2>5
<1> HIDE DEF last, before, found, n
<1>12. \A i \in DOMAIN resolved : ParseIp(resolved[i]) = ParseIp(resolved[1]) BY <1>4
<1>13. /\ n # 0 => resolved[1] \in {before, last}
       /\ n # 0 /\ InNetworks(last, PrivateNets) => resolved[1] = before
       /\ n = 0 /\ ~IsTrustedProxy(last) => resolved[1] = last
  BY <1>4, <1>7, <1>8
<1>14. /\ guarded.enabled /\ guarded.production =>
            (arrived.at = "admitted" => resolved[1].of \in DefaultCidrs \cup AllowedCidrs)
       /\ arrived.at = "refused" => resolved[1].of \notin DefaultCidrs \cup AllowedCidrs
  BY <1>4, <1>9, <1>10
<1>15. ~IsPrivateOrReserved(resolved[1]) /\ n # 0
         /\ (\A i \in DOMAIN arrived.path : arrived.path[i] \in PrivateNets) =>
         resolved[1] = arrived.sender
  BY <1>4, <1>11
<1> QED BY <1>12, <1>13, <1>14, <1>15 DEF last, before, n

(* A look finds the client, at the peer of a request and in its place. *)
LEMMA LooksFind ==
  ASSUME NEW r \in Arrivals, RequestFormed(r), r.peer \in {LastIn(r), ClientOf(r)}
  PROVE  ClientIp(r) = ClientOf(r) /\ (LastIn(r) # Nobody => ClientOf(r) # Nobody)
<1>1. LastIn(r) # Nobody => ToldOf(r) # Nobody BY DEF RequestFormed, ToldOf
<1>2. LastIn(r) # Nobody => ClientOf(r) # Nobody BY <1>1 DEF ClientOf
<1>3. CASE r.peer = LastIn(r) BY <1>2, <1>3 DEF ClientIp, ClientOf, ToldOf
<1>4. CASE r.peer = ClientOf(r)
  <2>1. CASE LastIn(r) = Nobody \/ ~IsTrustedProxy(LastIn(r))
    <3>1. ClientOf(r) = LastIn(r) BY <2>1 DEF ClientOf
    <3> QED BY <1>2, <1>4, <2>1, <3>1 DEF ClientIp
  <2>2. CASE LastIn(r) # Nobody /\ IsTrustedProxy(LastIn(r))
    <3>1. ClientOf(r) = ToldOf(r) /\ r.peer = ToldOf(r) BY <1>4, <2>2 DEF ClientOf
    <3>2. CASE ToldOf(r) = Nobody \/ ~IsTrustedProxy(ToldOf(r)) BY <1>2, <3>1, <3>2 DEF ClientIp
    <3>3. CASE ToldOf(r) # Nobody /\ IsTrustedProxy(ToldOf(r))
      BY <1>2, <3>1, <3>3 DEF ClientIp, ToldOf
    <3> QED BY <1>2, <3>2, <3>3
  <2> QED BY <2>1, <2>2
<1> QED BY <1>2, <1>3, <1>4

(* Who is trusted stays, for all that are asked about once the answer is
   kept. *)
LEMMA TrustStays ==
  ASSUME NEW x, AsksForExtra(x) => ExtraProxies' = ExtraProxies
  PROVE  IsTrustedProxy(x)' = IsTrustedProxy(x)
<1>1. IsTrustedProxy(x)' <=> InNetworks(x, PrivateNets) \/ InNetworks(x, ExtraProxies')
  BY Zenon DEF IsTrustedProxy, InNetworks, ParseIp
<1>2. ~AsksForExtra(x) => InNetworks(x, PrivateNets) \/ ParseIp(x) = {} BY DEF AsksForExtra
<1> QED BY <1>1, <1>2 DEF IsTrustedProxy, InNetworks

LEMMA RequestArrivesKeeps ==
  ASSUME ClientsIInv, NEW origin \in Texts \ {Garbage}, NEW claim \in Claims, NEW path \in Paths,
         NEW sets \in BOOLEAN, origin = Nobody => path = <<>>,
         RequestArrives(origin, claim, path, sets)
  PROVE  ClientsIInv'
<1> DEFINE plain == [i \in DOMAIN path |-> [of |-> path[i], form |-> "plain"]]
           peers == <<origin>> \o plain
           n == Len(path)
           first == IF claim = Nobody THEN <<>> ELSE <<claim>>
           handed == SubSeq(peers, 1, n)
           forwarded == first \o handed
           real == IF n > 0 /\ sets THEN peers[n] ELSE IF n > 0 THEN Nobody ELSE claim
           r == [at |-> "arrived", sender |-> origin, path |-> path, peer |-> peers[n + 1],
                 real |-> real, forwarded |-> forwarded]
<1>1. arrived' = r /\ UNCHANGED resolved /\ arrived.at = "none" /\ resolved = <<>>
  BY DEF RequestArrives, ClientsIInv
<1>2. path \in Seq(Addresses) /\ n \in Nat /\ DOMAIN path = 1..n
      /\ \A i \in 1..n : path[i] \in Addresses /\ path[i] # "none"
  BY AddressesAssumption
<1>3. /\ plain \in Seq(Texts) /\ Len(plain) = n
      /\ \A i \in 1..n : plain[i] = [of |-> path[i], form |-> "plain"]
  BY <1>2 DEF Texts
<1> HIDE DEF plain
<1>4. /\ <<origin>> \in Seq(Texts) /\ Len(<<origin>>) = 1 /\ <<origin>>[1] = origin OBVIOUS
<1>5. /\ peers \in Seq(Texts) /\ Len(peers) = n + 1 /\ peers[1] = origin
      /\ \A i \in 1..n : peers[i + 1] = [of |-> path[i], form |-> "plain"]
  <2>1. /\ peers \in Seq(Texts) /\ Len(peers) = 1 + n
        /\ \A i \in 1..1 + n : peers[i] = IF i <= 1 THEN <<origin>>[i] ELSE plain[i - 1]
    BY <1>3, <1>4, ConcatProperties
  <2>2. \A i \in 1..n : i + 1 \in 1..1 + n /\ ~(i + 1 <= 1) /\ i + 1 - 1 = i BY <1>2
  <2>3. 1 \in 1..1 + n /\ 1 + n = n + 1 BY <1>2
  <2> HIDE DEF peers
  <2> QED BY <1>3, <1>4, <2>1, <2>2, <2>3
<1> HIDE DEF peers
<1>6. \A i \in 1..n + 1 : peers[i] \in Texts BY <1>5, ElementOfSeq
<1>7. /\ handed \in Seq(Texts) /\ Len(handed) = n
      /\ \A i \in 1..n : handed[i] = peers[i]
  <2>1. 1 \in Int /\ n \in Int /\ \A i \in 1..n : peers[i] \in Texts BY <1>2, <1>6
  <2>2. /\ handed \in Seq(Texts) /\ Len(handed) = IF 1 <= n THEN n - 1 + 1 ELSE 0
        /\ \A i \in 1..n - 1 + 1 : handed[i] = peers[1 + i - 1]
    BY <2>1, SubSeqProperties
  <2>3. (IF 1 <= n THEN n - 1 + 1 ELSE 0) = n /\ n - 1 + 1 = n /\ \A i \in 1..n : 1 + i - 1 = i
    BY <1>2
  <2> HIDE DEF handed
  <2> QED BY <2>2, <2>3
<1>8. first \in Seq(HeaderTexts) /\ Len(first) \in {0, 1} /\ (Len(first) = 1 => first[1] # Nobody)
      /\ (Len(first) = 0 => first = <<>>)
  <2>1. CASE claim = Nobody BY <2>1
  <2>2. CASE claim # Nobody
    <3>1. first = <<claim>> /\ claim \in HeaderTexts BY <2>2 DEF HeaderTexts
    <3> QED BY <2>2, <3>1
  <2> QED BY <2>1, <2>2
<1> HIDE DEF handed, first
<1>9. handed \in Seq(HeaderTexts) BY <1>7 DEF HeaderTexts
<1>10. /\ forwarded \in Seq(HeaderTexts) /\ Len(forwarded) = Len(first) + n
       /\ \A i \in 1..Len(first) + n :
            forwarded[i] = IF i <= Len(first) THEN first[i] ELSE handed[i - Len(first)]
  <2>1. /\ forwarded \in Seq(HeaderTexts) /\ Len(forwarded) = Len(first) + Len(handed)
        /\ \A i \in 1..Len(first) + Len(handed) :
             forwarded[i] = IF i <= Len(first) THEN first[i] ELSE handed[i - Len(first)]
    BY <1>8, <1>9, ConcatProperties
  <2> QED BY <1>7, <2>1
<1> HIDE DEF forwarded
<1>11. n > 0 => /\ forwarded # <<>> /\ forwarded[Len(forwarded)] = peers[n]
  <2> SUFFICES ASSUME n > 0 PROVE forwarded # <<>> /\ forwarded[Len(forwarded)] = peers[n] OBVIOUS
  <2>1. n \in 1..n /\ Len(first) + n \in 1..Len(first) + n /\ ~(Len(first) + n <= Len(first))
        /\ Len(first) + n - Len(first) = n /\ Len(first) + n # 0
    <3> DEFINE l == Len(first)
    <3>1. l \in {0, 1} BY <1>8
    <3> HIDE DEF l
    <3>2. n \in 1..n /\ l + n \in 1..l + n /\ ~(l + n <= l) /\ l + n - l = n /\ l + n # 0
      <4> HIDE DEF n
      <4> QED BY <1>2, <3>1
    <3> QED BY <3>2 DEF l
  <2>2. forwarded[Len(forwarded)] = handed[n] BY <1>10, <2>1
  <2>3. forwarded # <<>> BY <1>10, <2>1
  <2> QED BY <1>7, <2>1, <2>2, <2>3
<1>12. n > 0 => origin # Nobody /\ peers[n] # Nobody
  <2> SUFFICES ASSUME n > 0 PROVE origin # Nobody /\ peers[n] # Nobody OBVIOUS
  <2>1. origin # Nobody BY <1>2
  <2>2. CASE n = 1 BY <1>5, <2>1, <2>2
  <2>3. CASE n # 1
    <3>1. n - 1 \in 1..n /\ n - 1 + 1 = n
      <4>1. \A k \in Nat : k > 0 /\ k # 1 => k - 1 \in 1..k /\ k - 1 + 1 = k OBVIOUS
      <4> HIDE DEF n
      <4> QED BY <1>2, <2>3, <4>1
    <3>2. peers[n] = [of |-> path[n - 1], form |-> "plain"] /\ path[n - 1] # "none"
      BY <1>2, <1>5, <3>1
    <3> QED BY <3>2 DEF Nobody
  <2> QED BY <2>1, <2>2, <2>3
<1>13. n = 0 /\ forwarded # <<>> => forwarded[Len(forwarded)] # Nobody
  <2> SUFFICES ASSUME n = 0, forwarded # <<>> PROVE forwarded[Len(forwarded)] # Nobody OBVIOUS
  <2>1. Len(forwarded) = Len(first) /\ Len(forwarded) # 0 BY <1>8, <1>10
  <2>2. Len(first) = 1 /\ first[1] # Nobody BY <1>8, <2>1
  <2>3. 1 \in 1..Len(first) + n /\ 1 <= Len(first) BY <2>2
  <2> QED BY <1>10, <2>1, <2>2, <2>3
<1>14. real \in HeaderTexts /\ peers[n + 1] \in HeaderTexts /\ (n > 0 => real \in {peers[n], Nobody})
  <2>1. n + 1 \in 1..n + 1 /\ (n > 0 => n \in 1..n + 1) BY <1>2
  <2>2. Nobody \in HeaderTexts BY DEF Texts, HeaderTexts
  <2>3. peers[n + 1] \in HeaderTexts /\ (n > 0 => peers[n] \in HeaderTexts) /\ claim \in HeaderTexts
    BY <1>6, <2>1 DEF HeaderTexts
  <2> QED BY <2>2, <2>3
<1> HIDE DEF real
<1>15. /\ r \in Arrivals /\ r.at = "arrived" /\ r.sender = origin /\ r.path = path
       /\ r.peer = peers[n + 1] /\ r.real = real /\ r.forwarded = forwarded
  BY <1>2, <1>10, <1>14 DEF Arrivals
<1> HIDE DEF r
<1>16. LastIn(r) = peers[n + 1]
  <2>1. CASE n = 0 BY <1>5, <1>15, <2>1 DEF LastIn
  <2>2. CASE n # 0
    <3>1. n \in 1..n BY <1>2, <2>2
    <3> QED BY <1>5, <1>15, <2>2, <3>1 DEF LastIn
  <2> QED BY <2>1, <2>2
<1>17. n > 0 => BeforeOf(r) = peers[n]
  <2> SUFFICES ASSUME n > 0 PROVE BeforeOf(r) = peers[n] OBVIOUS
  <2>1. CASE n = 1 BY <1>5, <1>15, <2>1 DEF BeforeOf
  <2>2. CASE n # 1
    <3>1. n - 1 \in 1..n /\ n - 1 + 1 = n
      <4>1. \A k \in Nat : k > 0 /\ k # 1 => k - 1 \in 1..k /\ k - 1 + 1 = k OBVIOUS
      <4> HIDE DEF n
      <4> QED BY <1>2, <2>2, <4>1
    <3> QED BY <1>5, <1>15, <2>2, <3>1 DEF BeforeOf
  <2> QED BY <2>1, <2>2
<1>18. RequestFormed(r)
  <2>1. n > 0 \/ n = 0 BY <1>2
  <2> QED BY <1>11, <1>12, <1>13, <1>14, <1>15, <1>17, <2>1 DEF RequestFormed
<1> QED BY <1>1, <1>15, <1>16, <1>18 DEF ClientsIInv

LEMMA ClientStays ==
  ASSUME NEW r, NEW s, s.sender = r.sender, s.path = r.path, s.real = r.real,
         s.forwarded = r.forwarded, arrived' = s,
         AsksForExtra(LastIn(r)) => ExtraProxies' = ExtraProxies
  PROVE  ClientOf(arrived)' = ClientOf(r) /\ LastIn(s) = LastIn(r) /\ (RequestFormed(r) => RequestFormed(s))
<1>1. LastIn(s) = LastIn(r) /\ ToldOf(s) = ToldOf(r) /\ BeforeOf(s) = BeforeOf(r)
  BY DEF LastIn, ToldOf, BeforeOf
<1>2. RequestFormed(r) => RequestFormed(s) BY <1>1 DEF RequestFormed
<1> DEFINE last == LastIn(r)
<1>3. IsTrustedProxy(last)' = IsTrustedProxy(last)
  <2> HIDE DEF last
  <2>1. PICK x : x = last OBVIOUS
  <2>2. AsksForExtra(x) => ExtraProxies' = ExtraProxies BY <2>1 DEF last
  <2>3. IsTrustedProxy(x)' = IsTrustedProxy(x) BY <2>2, TrustStays
  <2> QED BY <2>1, <2>3 DEF last
<1>4. LastIn(arrived') = last /\ ToldOf(arrived') = ToldOf(r) BY <1>1
<1>5. ClientOf(arrived)' = IF last = Nobody \/ ~IsTrustedProxy(last)' THEN last ELSE ToldOf(r)
  BY <1>4, Zenon DEF ClientOf, last
<1>6. ClientOf(arrived)' = ClientOf(r) BY <1>3, <1>5 DEF ClientOf
<1> QED BY <1>1, <1>2, <1>6

LEMMA LookKept ==
  ASSUME NEW r, LooksAtPeer, arrived = r
  PROVE  /\ ExtraProxies' = ExtraProxies /\ (AsksForExtra(r.peer) => proxyCache' # {})
         /\ proxyCache # {} => proxyCache' # {}
         /\ resolved' = Append(resolved, ClientIp(r))
<1>1. /\ resolved' = Append(resolved, ClientIp(r)) /\ UNCHANGED <<proxyEnv, guarded>>
      /\ proxyCache' = IF proxyCache = {} /\ AsksForExtra(r.peer) THEN {proxyEnv} ELSE proxyCache
  BY DEF LooksAtPeer
<1>2. CASE proxyCache = {} /\ AsksForExtra(r.peer) BY <1>1, <1>2 DEF ExtraProxies
<1>3. CASE ~(proxyCache = {} /\ AsksForExtra(r.peer)) BY <1>1, <1>3 DEF ExtraProxies
<1> QED BY <1>1, <1>2, <1>3

LEMMA ApplyKeeps == ASSUME ClientsIInv, ApplyRealClientIp PROVE ClientsIInv'
<1>1. PICK r \in Arrivals : r = arrived BY DEF ClientsIInv
<1>2. /\ RequestFormed(r) /\ r.peer = LastIn(r) /\ resolved = <<>> /\ r.at = "arrived"
      /\ LooksAtPeer
      /\ arrived' = [r EXCEPT !.at = "applied",
                              !.peer = IF ClientIp(r) = Nobody \/ @ = Nobody THEN @ ELSE ClientIp(r)]
  BY <1>1, Zenon DEF ClientsIInv, ApplyRealClientIp
<1>3. ClientIp(r) = ClientOf(r) /\ (LastIn(r) # Nobody => ClientOf(r) # Nobody) BY <1>2, LooksFind
<1>4. PICK c : c = ClientOf(r) OBVIOUS
<1>5. LastIn(r) = Nobody => c = Nobody BY <1>4 DEF ClientOf
<1>6. (IF c = Nobody \/ r.peer = Nobody THEN r.peer ELSE c) = c BY <1>2, <1>3, <1>4, <1>5
<1>7. arrived' = [r EXCEPT !.at = "applied", !.peer = c] BY <1>2, <1>3, <1>4, <1>6
<1>8. c \in HeaderTexts
  <2>1. LastIn(r) \in HeaderTexts BY LastIs DEF HeaderTexts
  <2>2. r.forwarded \in Seq(HeaderTexts) /\ r.real \in HeaderTexts BY DEF Arrivals
  <2>3. r.forwarded # <<>> => r.forwarded[Len(r.forwarded)] \in HeaderTexts BY <2>2
  <2> QED BY <1>4, <2>1, <2>2, <2>3 DEF ClientOf, ToldOf
<1> DEFINE s == [r EXCEPT !.at = "applied", !.peer = c]
<1>9. /\ s \in Arrivals /\ s.at = "applied" /\ s.peer = c /\ s.sender = r.sender
      /\ s.path = r.path /\ s.real = r.real /\ s.forwarded = r.forwarded
  BY <1>8 DEF Arrivals
<1> HIDE DEF s
<1>10. arrived' = s BY <1>7 DEF s
<1>11. /\ ExtraProxies' = ExtraProxies /\ (AsksForExtra(r.peer) => proxyCache' # {})
       /\ resolved' = Append(resolved, ClientIp(r))
  BY <1>1, <1>2, LookKept
<1>12. ClientOf(arrived)' = ClientOf(r) /\ LastIn(s) = LastIn(r) /\ RequestFormed(s)
  BY <1>2, <1>9, <1>10, <1>11, ClientStays
<1>13. resolved' = <<c>> BY <1>2, <1>3, <1>4, <1>11
<1>14. AsksForExtra(LastIn(arrived))' => proxyCache' # {}
  BY <1>2, <1>10, <1>11, <1>12 DEF AsksForExtra, InNetworks, ParseIp
<1> QED BY <1>4, <1>9, <1>10, <1>12, <1>13, <1>14 DEF ClientsIInv

LEMMA GuardChecksKeeps == ASSUME ClientsIInv, GuardChecks PROVE ClientsIInv'
<1>1. PICK r \in Arrivals : r = arrived BY DEF ClientsIInv
<1>2. PICK c : c = ClientOf(r) OBVIOUS
<1>3. /\ RequestFormed(r) /\ r.peer = c /\ resolved = <<c>> /\ r.at = "applied"
      /\ AsksForExtra(LastIn(r)) => proxyCache # {}
  BY <1>1, <1>2 DEF ClientsIInv, GuardChecks
<1>4. ClientIp(r) = c BY <1>2, <1>3, LooksFind
<1>5. PICK to \in {"admitted", "refused"} :
        /\ arrived' = [r EXCEPT !.at = to] /\ UNCHANGED guarded
        /\ \/ ~(guarded.enabled /\ guarded.production) /\ to = "admitted"
              /\ UNCHANGED <<proxyCache, proxyEnv, resolved>>
           \/ LooksAtPeer /\ (to = "admitted" <=> InNetworks(c, EffectiveCidrs))
  <2>1. CASE ~guarded.enabled \/ ~guarded.production BY <1>1, <2>1 DEF GuardChecks
  <2>2. CASE guarded.enabled /\ guarded.production
    <3>1. LooksAtPeer /\ UNCHANGED guarded
          /\ arrived' = [r EXCEPT !.at = IF InNetworks(c, EffectiveCidrs) THEN "admitted" ELSE "refused"]
      BY <1>1, <1>4, <2>2 DEF GuardChecks, LooksAtPeer
    <3>2. CASE InNetworks(c, EffectiveCidrs) BY <3>1, <3>2
    <3>3. CASE ~InNetworks(c, EffectiveCidrs) BY <3>1, <3>3
    <3> QED BY <3>2, <3>3
  <2> QED BY <2>1, <2>2
<1> DEFINE s == [r EXCEPT !.at = to]
<1>6. /\ s \in Arrivals /\ s.at = to /\ s.sender = r.sender
      /\ s.path = r.path /\ s.real = r.real /\ s.forwarded = r.forwarded
  BY DEF Arrivals
<1> HIDE DEF s
<1>7. arrived' = s BY <1>5 DEF s
<1>8. /\ ExtraProxies' = ExtraProxies /\ (proxyCache # {} => proxyCache' # {})
      /\ resolved' \in {<<c>>, <<c, c>>}
  <2>1. CASE UNCHANGED <<proxyCache, proxyEnv, resolved>> BY <1>3, <2>1 DEF ExtraProxies
  <2>2. CASE LooksAtPeer BY <1>1, <1>3, <1>4, <2>2, LookKept
  <2> QED BY <1>5, <2>1, <2>2
<1>9. ClientOf(arrived)' = c /\ LastIn(s) = LastIn(r) /\ RequestFormed(s)
  BY <1>2, <1>3, <1>6, <1>7, <1>8, ClientStays
<1>10. AsksForExtra(LastIn(arrived))' => proxyCache' # {}
  BY <1>3, <1>7, <1>8, <1>9 DEF AsksForExtra, InNetworks, ParseIp
<1>11. /\ to = "admitted" /\ guarded.enabled /\ guarded.production => InNetworks(c, EffectiveCidrs)
       /\ to = "refused" => ~InNetworks(c, EffectiveCidrs)
  BY <1>5
<1>12. /\ arrived.at' = "admitted" /\ guarded.enabled' /\ guarded.production' =>
            InNetworks(ClientOf(arrived)', EffectiveCidrs)
       /\ arrived.at' = "refused" => ~InNetworks(ClientOf(arrived)', EffectiveCidrs)
  BY <1>5, <1>6, <1>7, <1>9, <1>11
<1>13. /\ arrived' \in Arrivals /\ RequestFormed(arrived') /\ arrived'.at = to
       /\ resolved' \in {<<ClientOf(arrived)'>>, <<ClientOf(arrived)', ClientOf(arrived)'>>}
  BY <1>6, <1>7, <1>8, <1>9
<1> QED BY <1>10, <1>12, <1>13, Zenon DEF ClientsIInv, InNetworks, EffectiveCidrs, ParseIp, RequestFormed,
                                        BeforeOf

LEMMA RequestEndsKeeps == ASSUME ClientsIInv, RequestEnds PROVE ClientsIInv'
<1>1. arrived' = NoRequest /\ resolved' = <<>> BY DEF RequestEnds
<1>2. /\ NoRequest \in Arrivals /\ NoRequest.forwarded = <<>> /\ NoRequest.path = <<>>
      /\ NoRequest.at = "none"
  BY DEF NoRequest, Arrivals, HeaderTexts, Texts
<1>3. Len(NoRequest.path) = 0 BY <1>2
<1> QED BY <1>1, <1>2, <1>3 DEF ClientsIInv, RequestFormed

LEMMA ProxiesChangeKeeps == ASSUME ClientsIInv, ProxiesChange PROVE ClientsIInv'
<1>1. UNCHANGED <<proxyCache, guarded, arrived, resolved>> BY DEF ProxiesChange
<1>2. CASE arrived.at \in {"none", "arrived"}
  BY <1>1, <1>2 DEF ClientsIInv, AsksForExtra, InNetworks, ParseIp
<1>3. CASE arrived.at \notin {"none", "arrived"}
  <2>1. PICK r \in Arrivals : r = arrived BY DEF ClientsIInv
  <2>2. AsksForExtra(LastIn(r)) => proxyCache # {} BY <1>3, <2>1 DEF ClientsIInv
  <2>3. AsksForExtra(LastIn(r)) => ExtraProxies' = ExtraProxies BY <1>1, <2>2 DEF ExtraProxies
  <2>4. arrived' = r BY <1>1, <2>1
  <2>5. ClientOf(arrived)' = ClientOf(r) BY <2>3, <2>4, ClientStays
  <2>6. ClientOf(arrived)' = ClientOf(arrived) BY <2>1, <2>5
  <2> QED BY <1>1, <1>3, <2>6, Zenon DEF ClientsIInv, AsksForExtra, InNetworks, ParseIp, LastIn,
                                          RequestFormed, BeforeOf, EffectiveCidrs
<1> QED BY <1>2, <1>3

LEMMA ClearProxyCacheKeeps == ASSUME ClientsIInv, ClearProxyCache PROVE ClientsIInv'
  BY DEF ClientsIInv, ClearProxyCache, InNetworks, ParseIp, AsksForExtra

LEMMA ClientsNextKeeps == ASSUME ClientsIInv, ClientsNext PROVE ClientsIInv'
  BY RequestArrivesKeeps, ApplyKeeps, GuardChecksKeeps, RequestEndsKeeps, ProxiesChangeKeeps,
     ClearProxyCacheKeeps DEF ClientsNext

LEMMA UtilitiesThen == ASSUME IdsIInv, LocksIInv, ClientsIInv PROVE UtilitiesSound
  BY IdsThen, LocksThen, ClientsThen DEF UtilitiesSound

----------------------------------------
(* Discovery, the breakers of a client: there is one or there is none yet,
   and whoever has one has that one. *)

AskersIInv ==
  /\ breakerOf \in {0, 1} /\ madeBreakers = breakerOf
  /\ asker \in [BreakerThreads -> {"new", "looked", "locked", "has"} \X {0, 1}]
  /\ \A t \in BreakerThreads : asker[t][1] = "has" => asker[t][2] = 1 /\ breakerOf = 1

LEMMA InitAskers == ASSUME AskersInit PROVE AskersIInv
  BY DEF AskersInit, AskersIInv

LEMMA AskersThen == ASSUME AskersIInv PROVE OneBreaker
  BY DEF AskersIInv, OneBreaker

LEMMA AskersNextKeeps == ASSUME AskersIInv, [AskersNext]_askerVars PROVE AskersIInv'
<1> USE DEF AskersIInv
<1>1. ASSUME NEW t \in BreakerThreads, FirstLook(t) PROVE AskersIInv' BY <1>1 DEF FirstLook
<1>2. ASSUME NEW t \in BreakerThreads, LocksBreakers(t) PROVE AskersIInv' BY <1>2 DEF LocksBreakers
<1>3. ASSUME NEW t \in BreakerThreads, MakesBreaker(t) PROVE AskersIInv' BY <1>3 DEF MakesBreaker
<1>4. CASE UNCHANGED askerVars BY <1>4 DEF askerVars
<1> QED BY <1>1, <1>2, <1>3, <1>4 DEF AskersNext

----------------------------------------
(* Discovery, what a process knows of its addresses. *)

MachineIInv == MachineInit

LEMMA MachineThen == ASSUME MachineIInv PROVE AddressReachable
<1>1. /\ machine.told \subseteq {Told[i] : i \in DOMAIN Told}
      /\ machine.kind \in {"bridge", "bare", "other"} /\ machine.routed \in BOOLEAN
  BY DEF MachineIInv, MachineInit
<1>2. CASE machine.told # {}
  <2> DEFINE first(i) == Told[i] \in machine.told
                           /\ \A j \in DOMAIN Told : j < i => Told[j] \notin machine.told
  <2>1. DOMAIN Told = 1..4 BY DEF Told
  <2>3. \E i \in 1..4 : Told[i] \in machine.told BY <1>1, <1>2, <2>1
  <2>4. \E i \in DOMAIN Told : first(i)
    <3> DEFINE S == {i \in 1..4 : Told[i] \in machine.told}
    <3>1. S \in SUBSET (0..4) /\ S # {} BY <2>3
    <3> HIDE DEF S
    <3>2. PICK m \in S : \A k \in S : m <= k BY <3>1, LeastIs
    <3> QED BY <2>1, <3>2 DEF S
  <2>5. first(CHOOSE i \in DOMAIN Told : first(i)) BY <2>4
  <2>6. LocalIp \in machine.told BY <1>2, <2>5 DEF LocalIp
  <2>7. \A i \in DOMAIN Told : Told[i] \notin {"router", "loopback"} BY <2>1 DEF Told
  <2> QED BY <1>1, <2>6, <2>7 DEF AddressReachable
<1>3. CASE machine.told = {} BY <1>1, <1>3 DEF AddressReachable, LocalIp, Gateway
<1> QED BY <1>2, <1>3

----------------------------------------
(* Discovery, the naming service and what Nacos has.  A register under way
   is of a port that was asked for, and whoever is told that a deregister
   has been done, with no register since, had none beside it. *)

NamingOps == {"none", "register", "deregister", "list", "close"}
NamingCalls == [op : NamingOps, at : {"idle", "creating", "using", "closing"}, with : Nat,
                port : Nat, answer : BOOLEAN, quiet : BOOLEAN]
Registering(t) == namingCall[t].op = "register"
NamingIInv ==
  /\ naming \in Nat /\ madeNaming \in Nat /\ openNaming \in SUBSET (Nat \ {0})
  /\ crossedNaming \in BOOLEAN /\ registered \in Ports \cup {0}
  /\ namingCall \in [NamingTasks -> NamingCalls]
  /\ atNacos \in SUBSET Ports
  /\ \A t \in NamingTasks :
     /\ namingCall[t].at = "closing" => namingCall[t].op = "close"
     /\ Registering(t) => namingCall[t].port \in Ports /\ namingCall[t].at # "idle"
     /\ Registering(t) => namingCall[t].port \in {registered} \cup askedPorts
     /\ namingCall[t].op = "deregister" /\ namingCall[t].quiet =>
          \A u \in NamingTasks : ~Registering(u)
  /\ NamingKept /\ RegistrationKnown

LEMMA InitNaming == ASSUME NamingInit PROVE NamingIInv
  BY DEF NamingInit, NamingIInv, NoNamingCall, NamingCalls, NamingOps, Registering, NamingKept,
         RegistrationKnown

LEMMA AsksTyped ==
  ASSUME NEW t \in NamingTasks, NEW op \in NamingOps, NEW port \in Nat, naming \in Nat
  PROVE  /\ Asks(t, op, port) \in NamingCalls /\ Asks(t, op, port).op = op
         /\ Asks(t, op, port).port = port /\ Asks(t, op, port).at \notin {"idle", "closing"}
  BY DEF Asks, NamingCalls

LEMMA RegisterSelfFits ==
  ASSUME NamingIInv, NEW t \in NamingTasks, NEW port \in Ports, RegisterSelf(t, port)
  PROVE  NamingIInv'
<1>1. port \in Nat /\ port # 0 /\ 0 \notin Ports BY DiscoveryAssumption
<1> DEFINE mine == Asks(t, "register", port)
<1>2. mine \in NamingCalls /\ mine.op = "register" /\ mine.port = port /\ mine.at \notin {"closing", "idle"}
  BY <1>1, AsksTyped DEF NamingIInv, NamingOps
<1>4. \A u \in NamingTasks : namingCall'[u] = IF u = t THEN mine
                         ELSE IF namingCall[u].op = "deregister" THEN [namingCall[u] EXCEPT !.quiet = FALSE]
                         ELSE namingCall[u]
  <2> HIDE DEF mine
  <2> DEFINE calls == [namingCall EXCEPT ![t] = mine]
  <2>1. namingCall' = [u \in NamingTasks |-> IF calls[u].op = "deregister"
                                             THEN [calls[u] EXCEPT !.quiet = FALSE] ELSE calls[u]]
    <3>2. namingCall' = Unquiet(calls) BY DEF RegisterSelf, mine
    <3> HIDE DEF calls
    <3> QED BY <3>2 DEF Unquiet
  <2>2. \A u \in NamingTasks : calls[u] = IF u = t THEN mine ELSE namingCall[u] BY DEF NamingIInv
  <2> HIDE DEF calls
  <2> QED BY <1>2, <2>1, <2>2
<1> HIDE DEF mine
<1>5. \A u \in NamingTasks : u # t =>
  /\ namingCall'[u] \in NamingCalls
  /\ namingCall'[u].op = namingCall[u].op
  /\ namingCall'[u].at = namingCall[u].at
  /\ namingCall'[u].port = namingCall[u].port
  /\ namingCall'[u].op = "deregister" => namingCall'[u].quiet = FALSE
  <2> SUFFICES ASSUME NEW u \in NamingTasks, u # t
               PROVE  /\ namingCall'[u] \in NamingCalls
                      /\ namingCall'[u].op = namingCall[u].op
                      /\ namingCall'[u].at = namingCall[u].at
                      /\ namingCall'[u].port = namingCall[u].port
                      /\ namingCall'[u].op = "deregister" => namingCall'[u].quiet = FALSE
    OBVIOUS
  <2>1. namingCall[u] \in NamingCalls BY DEF NamingIInv
  <2>2. CASE namingCall[u].op = "deregister"
    <3>1. namingCall'[u] = [namingCall[u] EXCEPT !.quiet = FALSE] BY <1>4, <2>2
    <3> QED BY <2>1, <3>1 DEF NamingCalls
  <2>3. CASE namingCall[u].op # "deregister" BY <1>4, <2>1, <2>3
  <2> QED BY <2>2, <2>3
<1>6. namingCall' \in [NamingTasks -> NamingCalls]
  <2>1. namingCall' = [u \in NamingTasks |-> namingCall'[u]] BY DEF RegisterSelf, Unquiet
  <2> QED BY <1>2, <1>4, <1>5, <2>1
<1>7. /\ registered' = port /\ registered \in askedPorts' \cup {0, port} /\ askedPorts \subseteq askedPorts'
      /\ UNCHANGED <<naming, madeNaming, openNaming, atNacos, crossedNaming>>
  BY DEF RegisterSelf
<1>8. \A u \in NamingTasks :
        /\ namingCall'[u].at = "closing" => namingCall'[u].op = "close"
        /\ Registering(u)' => namingCall'[u].port \in Ports /\ namingCall'[u].at # "idle"
        /\ Registering(u)' => namingCall'[u].port \in {registered'} \cup askedPorts'
        /\ ~(namingCall'[u].op = "deregister" /\ namingCall'[u].quiet)
  <2> SUFFICES ASSUME NEW u \in NamingTasks
               PROVE  /\ namingCall'[u].at = "closing" => namingCall'[u].op = "close"
                      /\ Registering(u)' => namingCall'[u].port \in Ports /\ namingCall'[u].at # "idle"
                      /\ Registering(u)' => namingCall'[u].port \in {registered'} \cup askedPorts'
                      /\ ~(namingCall'[u].op = "deregister" /\ namingCall'[u].quiet)
    OBVIOUS
  <2>1. CASE u = t BY <1>2, <1>4, <1>7, <2>1 DEF Registering
  <2>2. CASE u # t BY <1>1, <1>5, <1>7, <2>2 DEF Registering, NamingIInv
  <2> QED BY <2>1, <2>2
<1>9. atNacos' \subseteq {registered'} \cup askedPorts'
  BY <1>1, <1>7 DEF NamingIInv, RegistrationKnown
<1>10. RegistrationKnown' BY <1>8, <1>9 DEF RegistrationKnown
<1>11. NamingKept' BY <1>7 DEF NamingIInv, NamingKept
<1> QED BY <1>6, <1>7, <1>8, <1>10, <1>11 DEF NamingIInv

(* What other steps do to a call. *)
LEMMA CallsAgree ==
  ASSUME NamingIInv, NEW t \in NamingTasks, NEW c \in NamingCalls,
         namingCall' = [namingCall EXCEPT ![t] = c],
         c.op = "register" => Registering(t) /\ c.port = namingCall[t].port /\ c.at # "idle",
         UNCHANGED <<registered, askedPorts>>, atNacos' \in SUBSET Ports,
         c.at = "closing" => c.op = "close",
         c.op = "deregister" /\ c.quiet => \A u \in NamingTasks : u # t => ~Registering(u),
         RegistrationKnown', NamingKept',
         naming' \in Nat, madeNaming' \in Nat, openNaming' \in SUBSET (Nat \ {0}), crossedNaming' \in BOOLEAN
  PROVE  NamingIInv'
<1>1. namingCall \in [NamingTasks -> NamingCalls] BY DEF NamingIInv
<1>2. namingCall' \in [NamingTasks -> NamingCalls] /\ namingCall'[t] = c
      /\ \A u \in NamingTasks : u # t => namingCall'[u] = namingCall[u]
  BY <1>1
<1>3. c.op = "register" => Registering(t) /\ c.port = namingCall[t].port /\ c.at # "idle" OBVIOUS
<1>4. \A u \in NamingTasks :
        /\ namingCall'[u].at = "closing" => namingCall'[u].op = "close"
        /\ Registering(u)' => namingCall'[u].port \in Ports /\ namingCall'[u].at # "idle"
        /\ Registering(u)' => namingCall'[u].port \in {registered'} \cup askedPorts'
  BY <1>2, <1>3 DEF NamingIInv, Registering
<1>5. \A u \in NamingTasks : Registering(u)' => Registering(u) BY <1>2, <1>3 DEF Registering
<1>6. \A u \in NamingTasks : namingCall'[u].op = "deregister" /\ namingCall'[u].quiet =>
                               \A v \in NamingTasks : ~Registering(v)'
  <2> SUFFICES ASSUME NEW u \in NamingTasks, namingCall'[u].op = "deregister", namingCall'[u].quiet,
                      NEW v \in NamingTasks
               PROVE  ~Registering(v)'
    OBVIOUS
  <2>1. CASE u = t BY <1>2, <1>5, <2>1 DEF Registering
  <2>2. CASE u # t BY <1>2, <1>5, <2>2 DEF NamingIInv
  <2> QED BY <2>1, <2>2
<1> QED BY <1>2, <1>4, <1>6 DEF NamingIInv

LEMMA NoCallTyped == NoNamingCall \in NamingCalls /\ NoNamingCall.op = "none" /\ NoNamingCall.at = "idle"
  BY DEF NoNamingCall, NamingCalls, NamingOps

LEMMA AsksFits ==
  ASSUME NamingIInv, NEW t \in NamingTasks, NEW c \in NamingCalls,
         namingCall[t].at = "idle", namingCall' = [namingCall EXCEPT ![t] = c],
         c.at # "idle", c.op # "register", c.at = "closing" => c.op = "close",
         c.op = "deregister" /\ c.quiet => \A u \in NamingTasks : u # t => ~Registering(u),
         UNCHANGED <<naming, madeNaming, openNaming, atNacos, registered, askedPorts, crossedNaming>>
  PROVE  NamingIInv'
<1>1. namingCall'[t] = c /\ \A u \in NamingTasks : u # t => namingCall'[u] = namingCall[u]
  BY DEF NamingIInv
<1>2. RegistrationKnown' /\ NamingKept' BY <1>1 DEF NamingIInv, RegistrationKnown, NamingKept
<1> QED BY <1>2, CallsAgree DEF NamingIInv

LEMMA DeregisterSelfFits == ASSUME NamingIInv, NEW t \in NamingTasks, DeregisterSelf(t) PROVE NamingIInv'
<1>1. registered \in Nat /\ naming \in Nat BY DiscoveryAssumption DEF NamingIInv
<1> DEFINE q == \A u \in NamingTasks : namingCall[u].at = "idle" \/ namingCall[u].op # "register"
<1>2. PICK r \in NamingCalls :
        /\ r = Asks(t, "deregister", registered)
        /\ r.op = "deregister" /\ r.at \notin {"idle", "closing"}
  BY <1>1, AsksTyped DEF NamingOps
<1> DEFINE c == [r EXCEPT !.quiet = q]
<1>3. q \in BOOLEAN OBVIOUS
<1>4. c \in NamingCalls /\ c.at # "idle" /\ c.at # "closing" /\ c.op = "deregister"
  <2> HIDE DEF q
  <2> QED BY <1>2, <1>3 DEF NamingCalls
<1>5. c.quiet => q
  <2> HIDE DEF q
  <2>1. DOMAIN r = {"op", "at", "with", "port", "answer", "quiet"} BY DEF NamingCalls
  <2> QED BY <2>1, Zenon
<1>6. q => \A u \in NamingTasks : ~Registering(u) BY DEF NamingIInv, Registering
<1>7. namingCall[t].at = "idle"
      /\ UNCHANGED <<naming, madeNaming, openNaming, atNacos, registered, askedPorts, crossedNaming>>
  BY DEF DeregisterSelf
<1>8. c.op = "deregister" /\ c.quiet => \A u \in NamingTasks : u # t => ~Registering(u)
  BY <1>5, <1>6
<1>9. namingCall' = [namingCall EXCEPT ![t] = c] BY <1>2 DEF DeregisterSelf
<1> HIDE DEF c, q
<1> QED BY <1>4, <1>7, <1>8, <1>9, AsksFits

LEMMA ListInstancesFits == ASSUME NamingIInv, NEW t \in NamingTasks, ListInstances(t) PROVE NamingIInv'
<1> DEFINE c == Asks(t, "list", 0)
<1>1. c \in NamingCalls /\ c.at # "idle" /\ c.at # "closing" /\ c.op = "list"
  BY AsksTyped DEF NamingOps, NamingIInv
<1>2. namingCall[t].at = "idle" /\ namingCall' = [namingCall EXCEPT ![t] = c]
      /\ UNCHANGED <<naming, madeNaming, openNaming, atNacos, registered, askedPorts, crossedNaming>>
  BY DEF ListInstances
<1> HIDE DEF c
<1> QED BY <1>1, <1>2, AsksFits

LEMMA CloseNamingFits == ASSUME NamingIInv, NEW t \in NamingTasks, CloseNaming(t) PROVE NamingIInv'
<1>1. PICK r \in NamingCalls : r = Asks(t, "close", 0) /\ r.op = "close"
  BY AsksTyped DEF NamingOps, NamingIInv
<1> DEFINE c == [r EXCEPT !.at = "closing"]
<1>2. c \in NamingCalls /\ c.at # "idle" /\ c.op = "close" BY <1>1 DEF NamingCalls
<1>3. namingCall[t].at = "idle" /\ namingCall' = [namingCall EXCEPT ![t] = c]
      /\ UNCHANGED <<naming, madeNaming, openNaming, atNacos, registered, askedPorts, crossedNaming>>
  BY <1>1 DEF CloseNaming
<1> HIDE DEF c
<1> QED BY <1>2, <1>3, AsksFits

LEMMA NamingMadeFits == ASSUME NamingIInv, NEW t \in NamingTasks, NamingMade(t) PROVE NamingIInv'
<1>1. PICK old \in NamingCalls : old = namingCall[t] BY DEF NamingIInv
<1> DEFINE c == [old EXCEPT !.at = "using", !.with = naming']
<1>2. /\ naming' = madeNaming + 1 /\ madeNaming' = madeNaming + 1 /\ naming' \in Nat \ {0}
      /\ naming \in Nat
  BY DEF NamingMade, NamingIInv
<1>3. c \in NamingCalls /\ c.at = "using" /\ c.op = old.op /\ c.port = old.port
  BY <1>2 DEF NamingCalls
<1>4. c.quiet => old.quiet
  <2>1. DOMAIN old = {"op", "at", "with", "port", "answer", "quiet"} BY DEF NamingCalls
  <2> QED BY <2>1, Zenon
<1>5. namingCall' = [namingCall EXCEPT ![t] = c]
  <2>1. namingCall' = [namingCall EXCEPT ![t].at = "using", ![t].with = naming'] BY DEF NamingMade
  <2> QED BY <1>1, <2>1 DEF NamingIInv
<1>6. /\ openNaming' = openNaming \cup {naming'} /\ crossedNaming' = (crossedNaming \/ naming # 0)
      /\ UNCHANGED <<atNacos, registered, askedPorts>> /\ old.at = "creating"
  BY <1>1 DEF NamingMade
<1>7. namingCall'[t] = c /\ \A u \in NamingTasks : u # t => namingCall'[u] = namingCall[u]
  BY <1>5 DEF NamingIInv
<1>8. RegistrationKnown' BY <1>3, <1>6, <1>7 DEF NamingIInv, RegistrationKnown
<1>9. NamingKept' /\ openNaming' \in SUBSET (Nat \ {0}) /\ crossedNaming' \in BOOLEAN
  <2>1. openNaming \in SUBSET (Nat \ {0}) /\ NamingKept BY DEF NamingIInv
  <2>2. openNaming' \in SUBSET (Nat \ {0}) /\ crossedNaming' \in BOOLEAN BY <1>2, <1>6, <2>1
  <2>3. ~crossedNaming' => ~crossedNaming /\ naming = 0 BY <1>6
  <2>4. ~crossedNaming' => openNaming = {} BY <2>1, <2>3 DEF NamingKept
  <2> QED BY <1>6, <2>2, <2>4 DEF NamingKept
<1>10. c.op = "register" => Registering(t) /\ c.port = namingCall[t].port /\ c.at # "idle"
  BY <1>1, <1>3 DEF Registering
<1>11. c.op = "deregister" /\ c.quiet => \A u \in NamingTasks : u # t => ~Registering(u)
  BY <1>1, <1>3, <1>4 DEF NamingIInv
<1>12. atNacos' \in SUBSET Ports /\ c.at # "closing" BY <1>3, <1>6 DEF NamingIInv
<1> HIDE DEF c
<1> QED BY <1>2, <1>3, <1>5, <1>6, <1>8, <1>9, <1>10, <1>11, <1>12, CallsAgree

LEMMA RepliesIs ==
  ASSUME NamingIInv, NEW t \in NamingTasks, NEW answer \in BOOLEAN, Replies(t, answer)
  PROVE  \E c \in NamingCalls :
           /\ namingCall' = [namingCall EXCEPT ![t] = c]
           /\ c.at = "idle" /\ c.op \in {"none", "deregister"}
           /\ c.op = "deregister" =>
              /\ answer /\ namingCall[t].op = "deregister"
              /\ c.port = namingCall[t].port
              /\ c.quiet => namingCall[t].quiet
<1>1. PICK old \in NamingCalls : old = namingCall[t] BY DEF NamingIInv
<1>2. CASE old.op = "deregister" /\ answer
  <2> DEFINE c == [old EXCEPT !.at = "idle", !.with = 0, !.answer = TRUE]
  <2>1. c \in NamingCalls /\ c.at = "idle" /\ c.op = "deregister" /\ c.port = old.port
    BY <1>2 DEF NamingCalls
  <2>2. c.quiet => old.quiet
    <3>1. DOMAIN old = {"op", "at", "with", "port", "answer", "quiet"} BY DEF NamingCalls
    <3> QED BY <3>1, Zenon
  <2>3. namingCall' = [namingCall EXCEPT ![t] = IF namingCall[t].op = "deregister" /\ answer
                         THEN [namingCall[t] EXCEPT !.at = "idle", !.with = 0, !.answer = TRUE]
                         ELSE NoNamingCall]
    BY Zenon DEF Replies
  <2>4. namingCall' = [namingCall EXCEPT ![t] = c] BY <1>1, <1>2, <2>3, Zenon
  <2> HIDE DEF c
  <2> QED BY <1>1, <1>2, <2>1, <2>2, <2>4
<1>3. CASE ~(old.op = "deregister" /\ answer)
  <2>1. namingCall' = [namingCall EXCEPT ![t] = NoNamingCall] BY <1>1, <1>3 DEF Replies
  <2> QED BY <2>1, NoCallTyped
<1> QED BY <1>2, <1>3

LEMMA ServedFits == ASSUME NamingIInv, NEW t \in NamingTasks, Served(t) PROVE NamingIInv'
<1>1. PICK answer \in BOOLEAN : Replies(t, answer) BY DEF Served
<1>2. PICK c \in NamingCalls :
        /\ namingCall' = [namingCall EXCEPT ![t] = c]
        /\ c.at = "idle" /\ c.op \in {"none", "deregister"}
        /\ c.op = "deregister" =>
           /\ answer /\ namingCall[t].op = "deregister"
           /\ c.port = namingCall[t].port
           /\ c.quiet => namingCall[t].quiet
  BY <1>1, RepliesIs
<1>3. /\ atNacos' = Effect(namingCall[t].op, namingCall[t].port) /\ namingCall[t].at = "using"
      /\ UNCHANGED <<naming, madeNaming, openNaming, registered, askedPorts, crossedNaming>>
  BY DEF Served
<1>4. namingCall'[t] = c /\ \A u \in NamingTasks : u # t => namingCall'[u] = namingCall[u]
  BY <1>2 DEF NamingIInv
<1>5. atNacos' \in SUBSET Ports /\ atNacos' \subseteq {registered} \cup askedPorts
  BY <1>3 DEF Effect, NamingIInv, RegistrationKnown, Registering
<1>6. \A u \in NamingTasks :
        namingCall'[u].op = "deregister" /\ namingCall'[u].at = "idle" /\ namingCall'[u].answer
          /\ namingCall'[u].quiet => namingCall'[u].port \notin atNacos'
  <2> SUFFICES ASSUME NEW u \in NamingTasks, namingCall'[u].op = "deregister",
                      namingCall'[u].at = "idle", namingCall'[u].answer, namingCall'[u].quiet
               PROVE  namingCall'[u].port \notin atNacos'
    OBVIOUS
  <2>1. CASE u = t BY <1>2, <1>3, <1>4, <2>1 DEF Effect
  <2>2. CASE u # t
    <3>1. namingCall'[u] = namingCall[u] BY <1>4, <2>2
    <3>2. ~Registering(t) /\ namingCall[u].port \notin atNacos
      BY <3>1 DEF NamingIInv, RegistrationKnown
    <3>3. atNacos' \subseteq atNacos BY <1>3, <3>2 DEF Effect, Registering
    <3> QED BY <3>1, <3>2, <3>3
  <2> QED BY <2>1, <2>2
<1>7. RegistrationKnown' /\ NamingKept'
  BY <1>3, <1>5, <1>6 DEF RegistrationKnown, NamingKept, NamingIInv
<1>8. c.op = "deregister" /\ c.quiet => \A u \in NamingTasks : u # t => ~Registering(u)
  BY <1>2 DEF NamingIInv
<1> QED BY <1>2, <1>3, <1>5, <1>7, <1>8, CallsAgree DEF NamingIInv

LEMMA UnservedFits == ASSUME NamingIInv, NEW t \in NamingTasks, Unserved(t) PROVE NamingIInv'
<1>1. /\ Replies(t, FALSE)
      /\ UNCHANGED <<naming, madeNaming, openNaming, atNacos, registered, askedPorts, crossedNaming>>
  BY DEF Unserved
<1>2. PICK c \in NamingCalls :
        namingCall' = [namingCall EXCEPT ![t] = c] /\ c.at = "idle" /\ c.op = "none"
  BY <1>1, RepliesIs
<1>3. namingCall'[t] = c /\ \A u \in NamingTasks : u # t => namingCall'[u] = namingCall[u]
  BY <1>2 DEF NamingIInv
<1>4. RegistrationKnown' /\ NamingKept'
  BY <1>1, <1>2, <1>3 DEF NamingIInv, RegistrationKnown, NamingKept
<1> QED BY <1>1, <1>2, <1>4, CallsAgree DEF NamingIInv

LEMMA ShutDownFits == ASSUME NamingIInv, NEW t \in NamingTasks, ShutDown(t) PROVE NamingIInv'
<1>1. /\ Replies(t, TRUE) /\ naming' = 0 /\ UNCHANGED <<madeNaming, atNacos, registered, askedPorts>>
      /\ namingCall[t].op = "close"
  BY DEF ShutDown, NamingIInv
<1>2. PICK c \in NamingCalls :
        namingCall' = [namingCall EXCEPT ![t] = c] /\ c.at = "idle" /\ c.op = "none"
  BY <1>1, RepliesIs
<1>3. namingCall'[t] = c /\ \A u \in NamingTasks : u # t => namingCall'[u] = namingCall[u]
  BY <1>2 DEF NamingIInv
<1>4. RegistrationKnown' BY <1>1, <1>2, <1>3 DEF NamingIInv, RegistrationKnown
<1>5. NamingKept' /\ openNaming' \in SUBSET (Nat \ {0}) /\ crossedNaming' \in BOOLEAN
  <2>1. CASE openNaming' = openNaming \ {namingCall[t].with}
             /\ crossedNaming' = (crossedNaming \/ naming # namingCall[t].with)
    <3>1. ~crossedNaming' => ~crossedNaming /\ naming = namingCall[t].with BY <2>1
    <3>2. ~crossedNaming' => openNaming' = {} BY <2>1, <3>1 DEF NamingIInv, NamingKept
    <3>3. openNaming' \in SUBSET (Nat \ {0}) /\ crossedNaming' \in BOOLEAN BY <2>1 DEF NamingIInv
    <3> QED BY <1>1, <3>2, <3>3 DEF NamingKept
  <2>2. CASE UNCHANGED openNaming /\ crossedNaming' = TRUE BY <2>2 DEF NamingIInv, NamingKept
  <2> QED BY <2>1, <2>2 DEF ShutDown
<1>6. naming' \in Nat /\ madeNaming' \in Nat /\ atNacos' \in SUBSET Ports BY <1>1 DEF NamingIInv
<1> QED BY <1>1, <1>2, <1>4, <1>5, <1>6, CallsAgree DEF NamingIInv

LEMMA NamingNextKeeps == ASSUME NamingIInv, [NamingNext]_namingVars PROVE NamingIInv'
<1>1. CASE NamingNext
  BY <1>1, RegisterSelfFits, DeregisterSelfFits, ListInstancesFits, NamingMadeFits, ServedFits,
     UnservedFits, CloseNamingFits, ShutDownFits DEF NamingNext
<1>2. CASE UNCHANGED namingVars
  BY <1>2 DEF namingVars, NamingIInv, NamingKept, RegistrationKnown, Registering
<1> QED BY <1>1, <1>2

LEMMA DiscoveryThen == ASSUME NamingIInv, MachineIInv, AskersIInv PROVE DiscoverySound
  BY MachineThen, AskersThen DEF NamingIInv, DiscoverySound

(* Where nothing of a part moves. *)
LEMMA IdsRest == ASSUME IdsIInv, UNCHANGED idVars PROVE IdsIInv'
<1>1. UNCHANGED <<now, generators, current, thread, ids, twice, again>> BY DEF idVars
<1> QED BY <1>1, Zenon DEF IdsIInv

LEMMA LocksRest == ASSUME LocksIInv, UNCHANGED lockVars PROVE LocksIInv'
<1>1. UNCHANGED <<handle, opened, lockedBy, user>> BY DEF lockVars
<1> QED BY <1>1, Zenon DEF LocksIInv

LEMMA ClientsRest == ASSUME ClientsIInv, UNCHANGED clientVars PROVE ClientsIInv'
<1>1. UNCHANGED <<proxyEnv, proxyCache, guarded, arrived, resolved>> BY DEF clientVars
<1>2. \A r : ClientOf(r)' = ClientOf(r) BY <1>1 DEF ClientOf, IsTrustedProxy, ExtraProxies
<1> QED BY <1>1, <1>2, Zenon DEF ClientsIInv

LEMMA MachineRests == ASSUME MachineIInv, UNCHANGED addressVars PROVE MachineIInv'
<1>1. UNCHANGED machine BY DEF addressVars
<1> QED BY <1>1 DEF MachineIInv, MachineInit

(* What Connections promises, out of its parts. *)

----------------------------------------
(* The parts BuiltAsAsked is about, each under its own invariant. *)
BuildIInv == FilesIInv /\ HooksIInv /\ TrialIInv /\ WalkIInv /\ MachinesIInv /\ FactoriesIInv

LEMMA InitBuild == ASSUME OperationsInit PROVE BuildIInv
  BY InitFiles, InitHooks, InitTrial, InitWalk, InitMachines, InitFactories DEF OperationsInit, BuildIInv

operationsVars ==
  <<part, capacityVars, samplerVars, indexVars, vectorVars, chunkVars, elasticVars,
    idVars, lockVars, clientVars, requestVars, probeVars, alertVars, budgetVars, numberVars, fileVars,
    hookVars, trialVars, walkVars, machineVars, callVars, poolVars, usageVars, promptVars,
    tenantVars, redisVars, mongoVars, watchVars, urlVars, rocketVars,
    redVars, groupVars, namingVars, addressVars, choiceVars, askerVars,
    answerVars, streamVars, contextVars, tokenizerVars, registrarVars, pushVars, unitVars,
    factoryVars>>

(* A step of the whole is one of at most one part. *)
LEMMA BuildSteps ==
  ASSUME [OperationsNext]_operationsVars
  PROVE  /\ [FilesNext]_fileVars /\ [HooksNext]_hookVars /\ [TrialNext]_trialVars
         /\ [DependenciesNext]_walkVars /\ [MachinesNext]_machineVars
         /\ [FactoriesNext]_factoryVars /\ UNCHANGED part
<1>1. ASSUME OperationsNext
      PROVE  /\ (part = "files" \/ UNCHANGED fileVars) /\ (part = "hooks" \/ UNCHANGED hookVars)
             /\ (part = "trial" \/ UNCHANGED trialVars)
             /\ (part = "dependencies" \/ UNCHANGED walkVars)
             /\ (part = "machines" \/ UNCHANGED machineVars)
             /\ (part = "factories" \/ UNCHANGED factoryVars)
             /\ UNCHANGED part
  BY <1>1 DEF OperationsNext
<1> QED BY <1>1 DEF operationsVars, OperationsNext

LEMMA BuildKeeps ==
  ASSUME BuildIInv, [OperationsNext]_operationsVars PROVE BuildIInv'
<1>1. BuildIInv OBVIOUS
<1>2. /\ [FilesNext]_fileVars /\ [HooksNext]_hookVars /\ [TrialNext]_trialVars
      /\ [DependenciesNext]_walkVars /\ [MachinesNext]_machineVars
      /\ [FactoriesNext]_factoryVars
  BY BuildSteps
<1>3. FilesIInv' /\ HooksIInv' /\ TrialIInv'
  BY <1>1, <1>2, FilesNextKeeps, HooksNextKeeps, TrialNextKeeps DEF BuildIInv
<1>4. WalkIInv' /\ MachinesIInv' /\ FactoriesIInv'
  BY <1>1, <1>2, WalkNextKeeps, MachinesNextKeeps, FactoriesNextKeeps DEF BuildIInv
<1> QED BY <1>3, <1>4 DEF BuildIInv

LEMMA BuildThen == ASSUME BuildIInv PROVE BuiltAsAsked
  BY ScriptsThen, WalkThen, MachinesThen, FactoriesThen
  DEF BuildIInv, BuiltAsAsked, RegistriesSound

(* Registries and release scripts build what was asked for: whatever is
   registered meanwhile, an expansion of what capabilities require has
   every name once and after what it requires, and names the cycles and
   what is unknown if and only if there are any; one engine is shared by
   those who ask at once, and a factory stays what was put in (core,
   state_machine); files of one version agree, a hook of someone else is
   not lost, and a trial ends with what it was about (scripts). *)
THEOREM BuildsAreAsAsked == OperationsSpec => []BuiltAsAsked
<1>1. OperationsInit => BuildIInv BY InitBuild
<1>2. BuildIInv /\ [OperationsNext]_operationsVars => BuildIInv' BY BuildKeeps
<1>3. BuildIInv => BuiltAsAsked BY BuildThen
<1>4. OperationsSpec => OperationsInit /\ [][OperationsNext]_operationsVars
  BY DEF OperationsSpec, operationsVars
<1> QED BY <1>1, <1>2, <1>3, <1>4, PTL

----------------------------------------
(* The parts KeptApart is about, each under its own invariant. *)
KeptIInv ==
  /\ IdsIInv /\ LocksIInv /\ ClientsIInv
  /\ TenantsIInv /\ RedisIInv /\ MongoIInv /\ WatchIInv /\ UrlIInv /\ RocketIInv /\ UnitsIInv
  /\ NamingIInv /\ MachineIInv /\ AskersIInv

LEMMA InitKept == ASSUME OperationsInit PROVE KeptIInv
<1>1. IdsIInv /\ LocksIInv /\ ClientsIInv BY InitIds, InitLocks, InitClients DEF OperationsInit
<1>2. TenantsIInv /\ RedisIInv /\ MongoIInv /\ WatchIInv /\ UrlIInv /\ RocketIInv /\ UnitsIInv
  BY InitTenants, InitRedis, InitMongo, InitWatch, InitUrl, InitRocket, InitUnits DEF OperationsInit
<1>3. NamingIInv /\ MachineIInv /\ AskersIInv
  BY InitNaming, InitAskers DEF OperationsInit, MachineIInv
<1> QED BY <1>1, <1>2, <1>3 DEF KeptIInv

(* A step of the whole is one of at most one of these parts. *)
LEMMA KeptSteps ==
  ASSUME [OperationsNext]_operationsVars
  PROVE  /\ (IdsNext \/ UNCHANGED idVars) /\ (LocksNext \/ UNCHANGED lockVars)
         /\ (ClientsNext \/ UNCHANGED clientVars) /\ (TenantsNext \/ UNCHANGED tenantVars)
         /\ (RedisNext \/ UNCHANGED redisVars) /\ (MongoNext \/ UNCHANGED mongoVars)
         /\ (UrlNext \/ UNCHANGED urlVars) /\ (UnitsNext \/ UNCHANGED unitVars)
         /\ [WatchNext]_watchVars /\ [RocketNext]_rocketVars /\ [NamingNext]_namingVars
         /\ [AskersNext]_askerVars /\ UNCHANGED addressVars
<1>1. ASSUME OperationsNext
      PROVE  /\ (part = "ids" \/ UNCHANGED idVars) /\ (part = "locks" \/ UNCHANGED lockVars)
             /\ (part = "clients" \/ UNCHANGED clientVars)
             /\ (part = "tenants" \/ UNCHANGED tenantVars)
             /\ (part = "redis" \/ UNCHANGED redisVars) /\ (part = "mongo" \/ UNCHANGED mongoVars)
             /\ (part = "url" \/ UNCHANGED urlVars) /\ (part = "units" \/ UNCHANGED unitVars)
             /\ (part = "watch" \/ UNCHANGED watchVars)
             /\ (part = "rocket" \/ UNCHANGED rocketVars)
             /\ (part = "naming" \/ UNCHANGED namingVars)
             /\ (part = "askers" \/ UNCHANGED askerVars)
             /\ UNCHANGED addressVars
  BY <1>1 DEF OperationsNext
<1> QED BY <1>1 DEF operationsVars, OperationsNext

LEMMA KeptKeeps ==
  ASSUME KeptIInv, [OperationsNext]_operationsVars PROVE KeptIInv'
<1>1. /\ (IdsNext \/ UNCHANGED idVars) /\ (LocksNext \/ UNCHANGED lockVars)
      /\ (ClientsNext \/ UNCHANGED clientVars) /\ (TenantsNext \/ UNCHANGED tenantVars)
      /\ (RedisNext \/ UNCHANGED redisVars) /\ (MongoNext \/ UNCHANGED mongoVars)
      /\ (UrlNext \/ UNCHANGED urlVars) /\ (UnitsNext \/ UNCHANGED unitVars)
      /\ [WatchNext]_watchVars /\ [RocketNext]_rocketVars /\ [NamingNext]_namingVars
      /\ [AskersNext]_askerVars /\ UNCHANGED addressVars
  BY KeptSteps
<1>2. IdsIInv' /\ LocksIInv' /\ ClientsIInv'
  BY <1>1, IdsNextKeeps, IdsRest, LocksNextKeeps, LocksRest, ClientsNextKeeps, ClientsRest
  DEF KeptIInv
<1>3. TenantsIInv' /\ RedisIInv' /\ MongoIInv'
  BY <1>1, TenantsNextKeeps, TenantsRest, RedisNextKeeps, RedisRests, MongoNextKeeps, MongoRests
  DEF KeptIInv
<1>4. UrlIInv' /\ UnitsIInv' /\ WatchIInv' /\ RocketIInv'
  BY <1>1, UrlNextKeeps, UrlRests, UnitsNextKeeps, UnitsRest, WatchNextKeeps, RocketNextKeeps
  DEF KeptIInv
<1>5. NamingIInv' /\ MachineIInv' /\ AskersIInv'
  BY <1>1, NamingNextKeeps, MachineRests, AskersNextKeeps DEF KeptIInv
<1> QED BY <1>2, <1>3, <1>4, <1>5 DEF KeptIInv

LEMMA KeptThen == ASSUME KeptIInv PROVE KeptApart
  BY UtilitiesThen, ConnectionsThen, DiscoveryThen DEF KeptIInv, KeptApart

(* What must not be mixed up is kept apart and kept track of, with the
   exceptions that the properties of the parts name.  An id is issued
   again only where two processes have one worker's number, one process
   started again or two generators were made; who has a FileLock of his
   own holds it alone (infra/utils); the address of a client, and who sees
   diagnostics, follow from whom is trusted (infra/web).  Statements reach
   rows of their tenant, no client of Redis or MongoDB is lost unclosed,
   a unit of work is kept or undone as a whole, what is measured happened,
   and both readers of a URL agree (capabilities/db).  RocketMQ is told
   once what it is to send (mq), what is registered can be taken back
   (registry), and a service has one breaker (http). *)
THEOREM KeptApartAlways == OperationsSpec => []KeptApart
<1>1. OperationsInit => KeptIInv BY InitKept
<1>2. KeptIInv /\ [OperationsNext]_operationsVars => KeptIInv' BY KeptKeeps
<1>3. KeptIInv => KeptApart BY KeptThen
<1>4. OperationsSpec => OperationsInit /\ [][OperationsNext]_operationsVars
  BY DEF OperationsSpec, operationsVars
<1> QED BY <1>1, <1>2, <1>3, <1>4, PTL

=============================================================================
