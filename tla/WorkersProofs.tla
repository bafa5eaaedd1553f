---------------------------- MODULE WorkersProofs ----------------------------
(* That every file of a folder is compiled once: for every number of files, any  *)
(* number of processes, any set of files the compiler rejects, and workers that  *)
(* stop or cannot be started at any time.                                       *)
EXTENDS Workers, Integers, TLAPS

-----------------------------------------------------------------------------
(* Shards.                                                                     *)

\* f is one of the files w, w + n, w + 2n and so on.
InShard(n, f, w) == \E k \in Nat : f = w + k * n

\* Multiples of n are n apart.
LEMMA Apart ==
    ASSUME NEW n \in Nat \ {0}, NEW j \in Nat, NEW k \in Nat, j < k
    PROVE  j * n \in Nat /\ k * n \in Nat /\ j * n + n <= k * n
<1>1. PICK d \in Nat : k = j + 1 + d
  <2>1. k - j - 1 \in Nat /\ k = j + 1 + (k - j - 1)
    OBVIOUS
  <2> QED BY <2>1
<1>2. d * n \in Nat /\ j * n \in Nat
  BY SMT
<1>3. (j + 1 + d) * n = j * n + n + d * n
  BY SMT
<1> QED BY <1>1, <1>2, <1>3

\* Every file is in a shard,
LEMMA SomeShard ==
    ASSUME NEW n \in Nat \ {0}, NEW f \in Nat
    PROVE  \E w \in 0 .. n - 1 : InShard(n, f, w)
<1>1. f % n \in 0 .. n - 1 /\ f \div n \in Nat /\ f = (f % n) + (f \div n) * n
  BY SMT
<1> QED BY <1>1 DEF InShard

\* and in one only.
LEMMA OneShard ==
    ASSUME NEW n \in Nat \ {0}, NEW f, NEW w \in 0 .. n - 1, NEW v \in 0 .. n - 1,
           InShard(n, f, w), InShard(n, f, v)
    PROVE  v = w
<1>1. PICK k \in Nat : f = w + k * n
  BY DEF InShard
<1>2. PICK j \in Nat : f = v + j * n
  BY DEF InShard
<1>3. k * n \in Nat /\ j * n \in Nat
  BY SMT
<1>4. CASE j < k
  BY <1>1, <1>2, <1>3, <1>4, Apart
<1>5. CASE k < j
  BY <1>1, <1>2, <1>3, <1>5, Apart
<1>6. CASE j = k
  BY <1>1, <1>2, <1>3, <1>6
<1> QED BY <1>4, <1>5, <1>6

\* The first file of a shard, and the next one.
LEMMA NextInShard ==
    ASSUME NEW n \in Nat \ {0}, NEW w \in Nat
    PROVE  /\ InShard(n, w, w)
           /\ \A f \in Nat : InShard(n, f, w) => InShard(n, f + n, w)
<1>1. InShard(n, w, w)
  <2>1. w = w + 0 * n
    BY SMT
  <2> QED BY <2>1 DEF InShard
<1>2. ASSUME NEW f \in Nat, InShard(n, f, w) PROVE InShard(n, f + n, w)
  <2>1. PICK k \in Nat : f = w + k * n
    BY <1>2 DEF InShard
  <2>2. (k + 1) * n = k * n + n /\ k * n \in Nat /\ k + 1 \in Nat
    BY SMT
  <2>3. f + n = w + (k + 1) * n
    BY <2>1, <2>2
  <2> QED BY <2>2, <2>3 DEF InShard
<1> QED BY <1>1, <1>2

\* None is skipped.
LEMMA NoneBetween ==
    ASSUME NEW n \in Nat \ {0}, NEW w \in Nat, NEW f \in Nat, NEW g \in Nat,
           InShard(n, f, w), InShard(n, g, w), f < g
    PROVE  f + n <= g
<1>1. PICK j \in Nat : f = w + j * n
  BY DEF InShard
<1>2. PICK k \in Nat : g = w + k * n
  BY DEF InShard
<1>3. k * n \in Nat /\ j * n \in Nat
  BY SMT
<1>4. CASE j < k
  BY <1>1, <1>2, <1>3, <1>4, Apart
<1>5. CASE k < j
  BY <1>1, <1>2, <1>3, <1>5, Apart
<1>6. CASE j = k
  BY <1>1, <1>2, <1>3, <1>6
<1> QED BY <1>4, <1>5, <1>6

-----------------------------------------------------------------------------
(* The invariant.                                                              *)

Files  == 0 .. n_inputs - 1
Shards == 0 .. nworkers - 1
Mine(f, w) == InShard(nworkers, f, w)

WorkTypeOK ==
    /\ n_inputs \in Nat \ {0} /\ nworkers \in Nat \ {0}
    /\ fork \in BOOLEAN /\ killed \in BOOLEAN
    /\ parent \in [pc : {"start", "wait", "rest", "exited"}, at : 0 .. nworkers,
                   started : 0 .. nworkers, file : Nat, rc : {0, 1}]
    /\ worker \in [Shards -> [pc : {"none", "run", "exited"}, file : Nat, rc : {0, 1}]]
    /\ tries \in [Files -> Nat] /\ made \in [Files -> Nat]

\* How far the files of worker w have come, whoever compiles them.
Past(w) ==
    IF w < parent.started THEN worker[w].file
    ELSE IF parent.pc \in {"start", "wait"} \/ w > parent.at THEN 0
    ELSE IF w = parent.at THEN parent.file ELSE n_inputs

\* Each is at a file of its own shard.
AtMine ==
    /\ \A w \in Shards : Mine(worker[w].file, w)
    /\ parent.pc = "rest" => Mine(parent.file, parent.at)

\* A file was compiled once if its shard is past it, else not at all.
Tried ==
    \A w \in Shards : \A f \in Files :
        Mine(f, w) => tries[f] = IF f < Past(w) THEN 1 ELSE 0

MadeIfGood == \A f \in Files : made[f] = IF f \in bad THEN 0 ELSE tries[f]

\* No file of w's shard so far was rejected.
Good(w) == \A f \in Files : Mine(f, w) /\ f < Past(w) => f \notin bad

\* A worker that was not killed, or that reports success, is through with its files.
WorkerEnds ==
    \A w \in Shards :
        /\ worker[w].pc = "none" <=> w >= parent.started
        /\ worker[w].pc = "none" => worker[w].file = w
        /\ w < parent.started /\ worker[w].rc = 0 => Good(w)
        /\ worker[w].pc = "exited" /\ (worker[w].rc = 0 \/ ~killed) => worker[w].file >= n_inputs

\* Whom the parent has waited for, and what its status says of them.
Waited ==
    /\ parent.pc = "start" => parent.at = parent.started /\ parent.rc = 0
    /\ parent.pc \in {"start", "wait"} => parent.file = 0 /\ nworkers > 1
    /\ parent.pc = "wait" =>
          /\ parent.at <= parent.started
          /\ parent.started < nworkers => ~fork /\ parent.rc # 0
          /\ \A w \in Shards : w < parent.at =>
                worker[w].pc = "exited" /\ (parent.rc = 0 => worker[w].rc = 0)

\* Whose files the parent has compiled itself.
Rested ==
    /\ parent.pc = "rest" =>
          /\ parent.at >= parent.started /\ parent.started < nworkers
          /\ nworkers > 1 => ~fork /\ parent.rc # 0
          /\ \A w \in Shards :
                IF w < parent.started THEN worker[w].pc = "exited"
                ELSE parent.rc = 0 => Good(w)
    /\ parent.pc = "exited" =>
          \A w \in Shards :
              /\ (~killed /\ ~GaveUp) \/ parent.rc = 0 =>
                    IF w < parent.started THEN worker[w].pc = "exited" ELSE w < parent.at
              /\ parent.rc = 0 => Good(w) /\ (w < parent.started => worker[w].rc = 0)

WorkInv == WorkTypeOK /\ AtMine /\ Tried /\ MadeIfGood /\ WorkerEnds /\ Waited /\ Rested

-----------------------------------------------------------------------------
(* What a step does to the files.                                              *)

\* No file of a shard comes before its first one.
LEMMA FirstIsFirst ==
    ASSUME WorkTypeOK, NEW w \in Shards, NEW f, Mine(f, w)
    PROVE  f \in Nat /\ f >= w
<1>1. nworkers \in Nat /\ w \in Nat
  BY DEF WorkTypeOK, Shards
<1>2. PICK k \in Nat : f = w + k * nworkers
  BY DEF Mine, InShard
<1>3. k * nworkers \in Nat
  BY <1>1, SMT
<1> QED BY <1>1, <1>2, <1>3

\* No file is compiled, and no shard goes past one.
LEMMA NothingCompiled ==
    ASSUME WorkInv, UNCHANGED <<folder, tries, made>>,
           \A w \in Shards : \A f \in Files : Mine(f, w) => (f < Past(w)' <=> f < Past(w))
    PROVE  /\ Tried' /\ MadeIfGood'
           /\ \A w \in Shards : Good(w)' <=> Good(w)
<1>1. /\ n_inputs' = n_inputs /\ nworkers' = nworkers /\ bad' = bad /\ tries' = tries /\ made' = made
      /\ Files' = Files /\ Shards' = Shards
      /\ \A f, w : Mine(f, w)' <=> Mine(f, w)
  BY DEF folder, Files, Shards, Mine
<1>2. Tried'
  BY <1>1 DEF WorkInv, Tried
<1>3. MadeIfGood'
  BY <1>1 DEF WorkInv, MadeIfGood
<1>4. \A w \in Shards : Good(w)' <=> Good(w)
  BY <1>1 DEF Good
<1> QED BY <1>2, <1>3, <1>4

\* One file of shard w is compiled, and w goes on to its next.
LEMMA OneCompiled ==
    ASSUME WorkInv, NEW w \in Shards, NEW g \in Files, g = Past(w), Mine(g, w), Compile(g),
           UNCHANGED folder, Past(w)' = g + nworkers,
           \A v \in Shards : v # w => Past(v)' = Past(v)
    PROVE  /\ Tried' /\ MadeIfGood'
           /\ \A v \in Shards : v # w => (Good(v)' <=> Good(v))
           /\ Good(w)' <=> Good(w) /\ g \notin bad
<1>1. /\ n_inputs' = n_inputs /\ nworkers' = nworkers /\ bad' = bad
      /\ Files' = Files /\ Shards' = Shards
      /\ \A f, v : Mine(f, v)' <=> Mine(f, v)
  BY DEF folder, Files, Shards, Mine
<1>2. nworkers \in Nat \ {0} /\ w \in Nat /\ g \in Nat /\ \A f \in Files : f \in Nat
  BY DEF WorkInv, WorkTypeOK, Shards, Files
<1>3. ASSUME NEW v \in Shards, v # w PROVE ~Mine(g, v)
  BY <1>2, <1>3, OneShard DEF Mine, Shards
<1>4. ASSUME NEW f \in Files, Mine(f, w)
      PROVE  f < Past(w)' <=> f < Past(w) \/ f = g
  <2>1. g < f => g + nworkers <= f
    BY <1>2, <1>4, NoneBetween DEF Mine
  <2> QED BY <1>2, <2>1
<1>5. tries \in [Files -> Nat] /\ made \in [Files -> Nat]
  BY DEF WorkInv, WorkTypeOK
<1>6. /\ tries[g] = 0 /\ made[g] = 0
      /\ tries'[g] = 1 /\ made'[g] = IF g \in bad THEN 0 ELSE 1
      /\ \A f \in Files : f # g => tries'[f] = tries[f] /\ made'[f] = made[f]
  <2>1. tries[g] = 0 /\ made[g] = 0
    BY <1>2 DEF WorkInv, Tried, MadeIfGood
  <2> QED BY <1>5, <2>1 DEF Compile
<1>7. Tried'
  <2> SUFFICES ASSUME NEW v \in Shards, NEW f \in Files, Mine(f, v)
               PROVE  tries'[f] = IF f < Past(v)' THEN 1 ELSE 0
    BY <1>1 DEF Tried
  <2>1. tries[f] = IF f < Past(v) THEN 1 ELSE 0
    BY DEF WorkInv, Tried
  <2>2. CASE v = w
    BY <1>4, <1>6, <2>1, <2>2
  <2>3. CASE v # w
    BY <1>3, <1>6, <2>1, <2>3
  <2> QED BY <2>2, <2>3
<1>8. MadeIfGood'
  BY <1>1, <1>6 DEF WorkInv, MadeIfGood
<1>9. \A v \in Shards : v # w => (Good(v)' <=> Good(v))
  BY <1>1 DEF Good
<1>10. Good(w)' <=> Good(w) /\ g \notin bad
  BY <1>1, <1>4 DEF Good
<1> QED BY <1>7, <1>8, <1>9, <1>10

-----------------------------------------------------------------------------
(* Each step keeps the invariant.                                             *)

\* The types, in the form the provers take them.
LEMMA Types ==
    ASSUME WorkTypeOK
    PROVE  /\ n_inputs \in Nat \ {0} /\ nworkers \in Nat \ {0}
           /\ parent = [pc |-> parent.pc, at |-> parent.at, started |-> parent.started,
                        file |-> parent.file, rc |-> parent.rc]
           /\ parent.pc \in {"start", "wait", "rest", "exited"}
           /\ parent.at \in Nat /\ parent.at <= nworkers
           /\ parent.started \in Nat /\ parent.started <= nworkers
           /\ parent.file \in Nat /\ parent.rc \in {0, 1}
           /\ \A w \in Shards :
                 /\ w \in Nat /\ w < nworkers
                 /\ worker[w].pc \in {"none", "run", "exited"}
                 /\ worker[w].file \in Nat /\ worker[w].rc \in {0, 1}
<1>1. n_inputs \in Nat \ {0} /\ nworkers \in Nat \ {0}
  BY DEF WorkTypeOK
<1>2. /\ parent = [pc |-> parent.pc, at |-> parent.at, started |-> parent.started,
                        file |-> parent.file, rc |-> parent.rc]
      /\ parent.pc \in {"start", "wait", "rest", "exited"}
      /\ parent.at \in Nat /\ parent.at <= nworkers
      /\ parent.started \in Nat /\ parent.started <= nworkers
      /\ parent.file \in Nat /\ parent.rc \in {0, 1}
  BY <1>1 DEF WorkTypeOK
<1>3. ASSUME NEW w \in Shards
      PROVE  /\ w \in Nat /\ w < nworkers
             /\ worker[w].pc \in {"none", "run", "exited"}
             /\ worker[w].file \in Nat /\ worker[w].rc \in {0, 1}
  <2>1. worker[w] \in [pc : {"none", "run", "exited"}, file : Nat, rc : {0, 1}]
    BY DEF WorkTypeOK
  <2> QED BY <1>1, <2>1 DEF Shards
<1> QED BY <1>1, <1>2, <1>3

\* A worker is started: its files are past none.
LEMMA StartWorkerKeeps ==
    ASSUME WorkInv, StartWorker
    PROVE  WorkInv'
<1>1. WorkTypeOK
  BY DEF WorkInv
<1>2. PICK p : p = parent.at
  OBVIOUS
<1>3. /\ parent.pc = "start" /\ parent.at = p /\ parent.started = p /\ p \in Nat /\ p < nworkers
      /\ parent.rc = 0 /\ parent.file = 0 /\ nworkers > 1 /\ p \in Shards
  BY <1>1, <1>2, Types DEF StartWorker, WorkInv, Waited, Shards
<1>4. /\ parent' = [pc |-> "start", at |-> p + 1, started |-> p + 1, file |-> 0, rc |-> 0]
      /\ UNCHANGED <<folder, tries, made, killed>>
  BY <1>1, <1>3, Types DEF StartWorker
<1>5. /\ n_inputs' = n_inputs /\ nworkers' = nworkers /\ bad' = bad /\ fork' = fork
      /\ Files' = Files /\ Shards' = Shards
      /\ \A f, w : Mine(f, w)' <=> Mine(f, w)
  BY <1>4 DEF folder, Files, Shards, Mine
<1>6. /\ worker' \in [Shards -> [pc : {"none", "run", "exited"}, file : Nat, rc : {0, 1}]]
      /\ \A w \in Shards : /\ worker'[w].file = worker[w].file /\ worker'[w].rc = worker[w].rc
                           /\ worker'[w].pc = IF w = p THEN "run" ELSE worker[w].pc
  <2>1. worker \in [Shards -> [pc : {"none", "run", "exited"}, file : Nat, rc : {0, 1}]]
    BY <1>1 DEF WorkTypeOK
  <2>2. worker' = [worker EXCEPT ![p].pc = "run"]
    BY <1>2 DEF StartWorker
  <2> QED BY <2>1, <2>2
<1>7. WorkTypeOK'
  BY <1>1, <1>3, <1>4, <1>5, <1>6 DEF WorkTypeOK
<1>8. ASSUME NEW w \in Shards, NEW f \in Files, Mine(f, w)
      PROVE  f < Past(w)' <=> f < Past(w)
  <2>1. f \in Nat /\ f >= w /\ w \in Nat
    BY <1>1, <1>8, FirstIsFirst, Types
  <2>2. CASE w = p
    <3>1. worker[w].file = w
      BY <1>1, <1>3, <2>2, Types DEF WorkInv, WorkerEnds
    <3> QED BY <1>3, <1>4, <1>6, <2>1, <2>2, <3>1 DEF Past
  <2>3. CASE w # p
    BY <1>3, <1>4, <1>6, <2>1, <2>3 DEF Past
  <2> QED BY <2>2, <2>3
<1>9. Tried' /\ MadeIfGood' /\ \A w \in Shards : Good(w)' <=> Good(w)
  BY <1>4, <1>8, NothingCompiled
<1>10. AtMine'
  BY <1>3, <1>4, <1>5, <1>6 DEF WorkInv, AtMine
<1>11. WorkerEnds'
  <2> SUFFICES ASSUME NEW w \in Shards
               PROVE  /\ worker'[w].pc = "none" <=> w >= p + 1
                      /\ worker'[w].pc = "none" => worker'[w].file = w
                      /\ w < p + 1 /\ worker'[w].rc = 0 => Good(w)
                      /\ worker'[w].pc = "exited" /\ (worker'[w].rc = 0 \/ ~killed) =>
                            worker'[w].file >= n_inputs
    BY <1>4, <1>5, <1>9 DEF WorkerEnds
  <2>1. w \in Nat /\ worker[w].file = worker'[w].file
    BY <1>1, <1>6, Types
  <2>2. CASE w = p
    <3>1. Good(w)
      <4>1. ASSUME NEW f \in Files, Mine(f, w) PROVE ~(f < Past(w))
        BY <1>3, <2>2 DEF Past, Files
      <4> QED BY <4>1 DEF Good
    <3> QED BY <1>3, <1>6, <2>1, <2>2, <3>1
  <2>3. CASE w # p
    BY <1>3, <1>6, <2>1, <2>3 DEF WorkInv, WorkerEnds
  <2> QED BY <2>2, <2>3
<1>12. Waited' /\ Rested'
  BY <1>3, <1>4, <1>5 DEF Waited, Rested
<1> QED BY <1>7, <1>9, <1>10, <1>11, <1>12 DEF WorkInv

\* The steps of the parent that only move it on.
LEMMA ParentKeeps ==
    ASSUME WorkInv, StartFails \/ AllStarted \/ Collect \/ AllCollected \/ NextShard \/ RestDone \/ ParentStops
    PROVE  /\ WorkTypeOK' /\ Tried' /\ MadeIfGood' /\ AtMine' /\ WorkerEnds'
           /\ \A w \in Shards : Good(w)' <=> Good(w)
<1>1. WorkTypeOK
  BY DEF WorkInv
<1>2. PICK pc, at, started, file, rc :
          /\ pc = parent.pc /\ at = parent.at /\ started = parent.started /\ file = parent.file /\ rc = parent.rc
  OBVIOUS
<1>3. /\ pc \in {"start", "wait", "rest", "exited"} /\ at \in Nat /\ at <= nworkers
      /\ started \in Nat /\ started <= nworkers /\ file \in Nat /\ rc \in {0, 1}
      /\ nworkers \in Nat \ {0} /\ n_inputs \in Nat \ {0}
  BY <1>1, <1>2, Types
<1>4. /\ UNCHANGED <<folder, worker, tries, made>> /\ (killed => killed') /\ killed' \in BOOLEAN
  BY <1>1 DEF StartFails, AllStarted, Collect, AllCollected, NextShard, RestDone, ParentStops, WorkTypeOK
<1>5. /\ n_inputs' = n_inputs /\ nworkers' = nworkers /\ bad' = bad /\ fork' = fork /\ worker' = worker
      /\ Files' = Files /\ Shards' = Shards
      /\ \A f, w : Mine(f, w)' <=> Mine(f, w)
  BY <1>4 DEF folder, Files, Shards, Mine
<1>6. /\ parent' \in [pc : {"start", "wait", "rest", "exited"}, at : 0 .. nworkers,
                     started : 0 .. nworkers, file : Nat, rc : {0, 1}]
      /\ parent'.started = started
      /\ parent'.pc = "rest" => Mine(parent'.file, parent'.at)
      /\ \A w \in Shards : \A f \in Files : Mine(f, w) => (f < Past(w)' <=> f < Past(w))
  <2>1. CASE StartFails
    <3>1. /\ pc = "start" /\ at = started /\ file = 0 /\ nworkers > 1
          /\ parent' = [pc |-> IF fork THEN "exited" ELSE "wait", at |-> 0, started |-> started,
                        file |-> file, rc |-> 1]
      BY <1>1, <1>2, <2>1, Types DEF StartFails, WorkInv, Waited
    <3>2. \A w \in Shards : Past(w)' = Past(w)
      <4> TAKE w \in Shards
      <4>1. w \in Nat
        BY <1>1, Types
      <4> QED BY <1>2, <1>3, <1>5, <3>1, <4>1 DEF Past
    <3> QED BY <1>3, <3>1, <3>2
  <2>2. CASE AllStarted
    <3>1. /\ pc = "start" /\ at = started /\ file = 0
          /\ parent' = [pc |-> "wait", at |-> 0, started |-> started, file |-> file, rc |-> rc]
      BY <1>1, <1>2, <2>2, Types DEF AllStarted, WorkInv, Waited
    <3>2. \A w \in Shards : Past(w)' = Past(w)
      BY <1>2, <1>5, <3>1 DEF Past
    <3> QED BY <1>3, <3>1, <3>2
  <2>3. CASE Collect
    <3>1. /\ pc = "wait" /\ at < started
          /\ parent' = [pc |-> "wait", at |-> at + 1, started |-> started, file |-> file,
                        rc |-> IF worker[at].rc = 0 THEN rc ELSE 1]
      BY <1>1, <1>2, <2>3, Types DEF Collect, Status
    <3>2. \A w \in Shards : Past(w)' = Past(w)
      BY <1>2, <1>5, <3>1 DEF Past
    <3> QED BY <1>3, <3>1, <3>2
  <2>4. CASE AllCollected
    <3>1. /\ pc = "wait" /\ at = started
          /\ parent' = [pc |-> IF started < nworkers THEN "rest" ELSE "exited", at |-> at, started |-> started,
                        file |-> started, rc |-> rc]
      BY <1>1, <1>2, <2>4, Types DEF AllCollected
    <3>2. ASSUME NEW w \in Shards, NEW f \in Files, Mine(f, w) PROVE f < Past(w)' <=> f < Past(w)
      <4>1. f \in Nat /\ f >= w /\ w \in Nat /\ w < nworkers
        BY <1>1, <3>2, FirstIsFirst, Types
      <4> QED BY <1>2, <1>3, <1>5, <3>1, <4>1 DEF Past
    <3>3. Mine(started, started)
      BY <1>3, NextInShard DEF Mine
    <3> QED BY <1>3, <3>1, <3>2, <3>3
  <2>5. CASE NextShard
    <3>1. /\ pc = "rest" /\ at < nworkers /\ file >= n_inputs
          /\ parent' = [pc |-> "rest", at |-> at + 1, started |-> started, file |-> at + 1, rc |-> rc]
      BY <1>1, <1>2, <2>5, Types DEF NextShard
    <3>2. ASSUME NEW w \in Shards, NEW f \in Files, Mine(f, w) PROVE f < Past(w)' <=> f < Past(w)
      <4>1. f \in Nat /\ f >= w /\ w \in Nat /\ f < n_inputs
        BY <1>1, <1>3, <3>2, FirstIsFirst, Types DEF Files
      <4>2. at >= started
        BY <1>2, <3>1 DEF WorkInv, Rested
      <4> QED BY <1>2, <1>3, <1>5, <3>1, <4>1, <4>2 DEF Past
    <3>3. Mine(at + 1, at + 1)
      BY <1>3, NextInShard DEF Mine
    <3> QED BY <1>3, <3>1, <3>2, <3>3
  <2>6. CASE RestDone \/ ParentStops
    <3>1. PICK r \in {0, 1} :
             pc = "rest" /\ parent' = [pc |-> "exited", at |-> at, started |-> started, file |-> file, rc |-> r]
      <4>1. CASE RestDone
        BY <1>1, <1>2, <1>3, <4>1, Types DEF RestDone
      <4>2. CASE ParentStops
        BY <1>1, <1>2, <1>3, <4>2, Types DEF ParentStops
      <4> QED BY <2>6, <4>1, <4>2
    <3>2. \A w \in Shards : Past(w)' = Past(w)
      BY <1>2, <1>5, <3>1 DEF Past
    <3> QED BY <1>3, <3>1, <3>2
  <2> QED BY <2>1, <2>2, <2>3, <2>4, <2>5, <2>6
<1>7. WorkTypeOK'
  BY <1>1, <1>4, <1>5, <1>6 DEF WorkTypeOK
<1>8. Tried' /\ MadeIfGood' /\ \A w \in Shards : Good(w)' <=> Good(w)
  BY <1>4, <1>6, NothingCompiled
<1>9. AtMine'
  BY <1>5, <1>6 DEF WorkInv, AtMine
<1>10. WorkerEnds'
  BY <1>2, <1>4, <1>5, <1>6, <1>8 DEF WorkInv, WorkerEnds
<1> QED BY <1>7, <1>8, <1>9, <1>10

\* The parent is at the file it compiles next: what it has waited for and compiled
\* follows.
LEMMA ParentWaits ==
    ASSUME WorkInv, StartFails \/ AllStarted \/ Collect \/ AllCollected \/ NextShard \/ RestDone \/ ParentStops
    PROVE  Waited' /\ Rested'
<1>1. WorkTypeOK
  BY DEF WorkInv
<1>2. PICK pc, at, started, file, rc :
          /\ pc = parent.pc /\ at = parent.at /\ started = parent.started /\ file = parent.file /\ rc = parent.rc
  OBVIOUS
<1>3. /\ pc \in {"start", "wait", "rest", "exited"} /\ at \in Nat /\ at <= nworkers
      /\ started \in Nat /\ started <= nworkers /\ file \in Nat /\ rc \in {0, 1}
      /\ nworkers \in Nat \ {0} /\ n_inputs \in Nat \ {0}
      /\ \A w \in Shards : w \in Nat /\ w < nworkers
  BY <1>1, <1>2, Types
<1>4. /\ UNCHANGED <<folder, worker>>
      /\ \A w \in Shards : Good(w)' <=> Good(w)
  BY ParentKeeps DEF StartFails, AllStarted, Collect, AllCollected, NextShard, RestDone, ParentStops
<1>5. nworkers' = nworkers /\ fork' = fork /\ worker' = worker /\ Shards' = Shards
  BY <1>4 DEF folder, Shards
<1>6. CASE StartFails
  <2>1. /\ pc = "start" /\ at = started /\ file = 0 /\ nworkers > 1 /\ at < nworkers
        /\ parent' = [pc |-> IF fork THEN "exited" ELSE "wait", at |-> 0, started |-> started,
                      file |-> file, rc |-> 1]
    BY <1>1, <1>2, <1>6, Types DEF StartFails, WorkInv, Waited
  <2>2. Waited'
    BY <1>3, <1>5, <2>1 DEF Waited
  <2>3. Rested'
    BY <1>3, <1>5, <2>1 DEF Rested, GaveUp
  <2> QED BY <2>2, <2>3
<1>7. CASE AllStarted
  <2>1. /\ pc = "start" /\ at = started /\ file = 0 /\ nworkers > 1 /\ at = nworkers
        /\ parent' = [pc |-> "wait", at |-> 0, started |-> started, file |-> file, rc |-> rc]
    BY <1>1, <1>2, <1>7, Types DEF AllStarted, WorkInv, Waited
  <2>2. /\ parent'.pc = "wait" /\ parent'.file = 0 /\ parent'.at = 0 /\ parent'.started = nworkers
    BY <2>1
  <2>3. 0 <= nworkers /\ ~(nworkers < nworkers) /\ \A w \in Shards : ~(w < 0)
    BY <1>3
  <2>4. Waited'
    BY <1>5, <2>1, <2>2, <2>3 DEF Waited
  <2>5. Rested'
    BY <2>2 DEF Rested
  <2> QED BY <2>4, <2>5
<1>8. CASE Collect
  <2>1. /\ pc = "wait" /\ at < started
        /\ parent' = [pc |-> "wait", at |-> at + 1, started |-> started, file |-> file,
                      rc |-> IF worker[at].rc = 0 THEN rc ELSE 1]
    BY <1>1, <1>2, <1>8, Types DEF Collect, Status
  <2>4. worker[at].pc = "exited"
    BY <1>2, <1>8 DEF Collect
  <2>2. /\ file = 0 /\ nworkers > 1
        /\ started < nworkers => ~fork /\ rc # 0
        /\ \A w \in Shards : w < at => worker[w].pc = "exited" /\ (rc = 0 => worker[w].rc = 0)
    BY <1>2, <2>1 DEF WorkInv, Waited
  <2>3. \A w \in Shards : w < at + 1 => w < at \/ w = at
    BY <1>3
  <2>5. Waited'
    BY <1>3, <1>5, <2>1, <2>2, <2>3, <2>4 DEF Waited
  <2> QED BY <2>1, <2>5 DEF Rested
<1>9. CASE AllCollected
  <2>1. /\ pc = "wait" /\ at = started
        /\ parent' = [pc |-> IF started < nworkers THEN "rest" ELSE "exited", at |-> at, started |-> started,
                      file |-> started, rc |-> rc]
    BY <1>1, <1>2, <1>9, Types DEF AllCollected
  <2>2. /\ started < nworkers => ~fork /\ rc # 0
        /\ \A w \in Shards : w < at => worker[w].pc = "exited" /\ (rc = 0 => worker[w].rc = 0)
    BY <1>2, <2>1 DEF WorkInv, Waited
  <2>3. Waited'
    BY <2>1 DEF Waited
  <2>4. \A w \in Shards : w < started /\ worker[w].rc = 0 => Good(w)
    BY <1>2 DEF WorkInv, WorkerEnds
  <2>5. Rested'
    <3>1. CASE started < nworkers
      BY <1>3, <1>4, <1>5, <2>1, <2>2, <3>1 DEF Rested
    <3>2. CASE started = nworkers
      BY <1>3, <1>4, <1>5, <2>1, <2>2, <2>4, <3>2 DEF Rested
    <3> QED BY <1>3, <3>1, <3>2
  <2> QED BY <2>3, <2>5
<1>10. CASE NextShard
  <2>1. /\ pc = "rest" /\ at < nworkers
        /\ parent' = [pc |-> "rest", at |-> at + 1, started |-> started, file |-> at + 1, rc |-> rc]
    BY <1>1, <1>2, <1>10, Types DEF NextShard
  <2>2. /\ at >= started /\ started < nworkers
        /\ nworkers > 1 => ~fork /\ rc # 0
        /\ \A w \in Shards : IF w < started THEN worker[w].pc = "exited" ELSE rc = 0 => Good(w)
    BY <1>2, <2>1 DEF WorkInv, Rested
  <2> QED BY <1>3, <1>4, <1>5, <2>1, <2>2 DEF Waited, Rested
<1>11. CASE RestDone
  <2>1. /\ pc = "rest" /\ at = nworkers /\ killed' = killed
        /\ parent' = [pc |-> "exited", at |-> at, started |-> started, file |-> file, rc |-> rc]
    BY <1>1, <1>2, <1>11, Types DEF RestDone
  <2>2. /\ started < nworkers
        /\ nworkers > 1 => rc # 0
        /\ \A w \in Shards : IF w < started THEN worker[w].pc = "exited" ELSE rc = 0 => Good(w)
    BY <1>2, <2>1 DEF WorkInv, Rested
  <2>3. rc = 0 => started = 0
    BY <1>3, <2>2
  <2>4. Rested'
    BY <1>3, <1>4, <1>5, <2>1, <2>2, <2>3 DEF Rested
  <2> QED BY <2>1, <2>4 DEF Waited
<1>12. CASE ParentStops
  <2>1. /\ killed'
        /\ parent' = [pc |-> "exited", at |-> at, started |-> started, file |-> file, rc |-> 1]
    BY <1>1, <1>2, <1>12, Types DEF ParentStops
  <2> QED BY <2>1 DEF Waited, Rested
<1> QED BY <1>6, <1>7, <1>8, <1>9, <1>10, <1>11, <1>12

\* The parent compiles a file of the shard it is at.
LEMMA CompileRestKeeps ==
    ASSUME WorkInv, CompileRest
    PROVE  WorkInv'
<1>1. WorkTypeOK
  BY DEF WorkInv
<1>2. PICK at, started, g, rc :
          /\ at = parent.at /\ started = parent.started /\ g = parent.file /\ rc = parent.rc
  OBVIOUS
<1>3. /\ parent.pc = "rest" /\ at \in Nat /\ at < nworkers /\ at \in Shards
      /\ started \in Nat /\ started <= at /\ g \in Nat /\ g < n_inputs /\ g \in Files /\ rc \in {0, 1}
      /\ nworkers \in Nat \ {0} /\ n_inputs \in Nat \ {0}
      /\ \A w \in Shards : w \in Nat /\ w < nworkers
      /\ Mine(g, at)
  BY <1>1, <1>2, Types DEF CompileRest, WorkInv, Rested, AtMine, Shards, Files
<1>4. /\ parent' = [pc |-> "rest", at |-> at, started |-> started, file |-> g + nworkers,
                    rc |-> IF g \in bad THEN 1 ELSE rc]
      /\ UNCHANGED <<folder, worker, killed>> /\ Compile(g)
  <2>1. RestStep = nworkers
    BY <1>3 DEF RestStep
  <2> QED BY <1>1, <1>2, <1>3, <2>1, Types DEF CompileRest, Failed
<1>5. /\ n_inputs' = n_inputs /\ nworkers' = nworkers /\ bad' = bad /\ fork' = fork /\ worker' = worker
      /\ killed' = killed /\ Files' = Files /\ Shards' = Shards
      /\ \A f, w : Mine(f, w)' <=> Mine(f, w)
  BY <1>4 DEF folder, Files, Shards, Mine
<1>6. /\ g = Past(at) /\ Past(at)' = g + nworkers
      /\ \A v \in Shards : v # at => Past(v)' = Past(v)
  BY <1>2, <1>3, <1>4, <1>5 DEF Past
<1>7. /\ Tried' /\ MadeIfGood'
      /\ \A v \in Shards : v # at => (Good(v)' <=> Good(v))
      /\ Good(at)' <=> Good(at) /\ g \notin bad
  BY <1>3, <1>4, <1>6, OneCompiled
<1>8. WorkTypeOK'
  <2>1. tries' \in [Files -> Nat] /\ made' \in [Files -> Nat]
    BY <1>1, <1>3, <1>4 DEF WorkTypeOK, Compile
  <2>2. parent' \in [pc : {"start", "wait", "rest", "exited"}, at : 0 .. nworkers,
                     started : 0 .. nworkers, file : Nat, rc : {0, 1}]
    BY <1>3, <1>4
  <2> QED BY <1>1, <1>5, <2>1, <2>2 DEF WorkTypeOK
<1>9. AtMine'
  <2>1. Mine(g + nworkers, at)
    BY <1>3, NextInShard DEF Mine
  <2> QED BY <1>4, <1>5, <2>1 DEF WorkInv, AtMine
<1>10. WorkerEnds'
  <2>1. \A w \in Shards : w < started => w # at
    BY <1>3
  <2> QED BY <1>2, <1>4, <1>5, <1>7, <2>1 DEF WorkInv, WorkerEnds
<1>11. Waited'
  BY <1>4 DEF Waited
<1>12. Rested'
  BY <1>2, <1>3, <1>4, <1>5, <1>7 DEF WorkInv, Rested
<1> QED BY <1>7, <1>8, <1>9, <1>10, <1>11, <1>12 DEF WorkInv

\* A worker compiles its next file.
LEMMA WorkerCompilesKeeps ==
    ASSUME WorkInv, NEW w \in Shards, WorkerCompiles(w)
    PROVE  WorkInv'
<1>1. WorkTypeOK
  BY DEF WorkInv
<1>2. PICK g, rc : g = worker[w].file /\ rc = worker[w].rc
  OBVIOUS
<1>3. /\ worker[w].pc = "run" /\ g \in Nat /\ g < n_inputs /\ g \in Files /\ rc \in {0, 1}
      /\ nworkers \in Nat \ {0} /\ n_inputs \in Nat \ {0}
      /\ w \in Nat /\ parent.started \in Nat /\ w < parent.started /\ Mine(g, w)
      /\ \A v \in Shards : v \in Nat
  BY <1>1, <1>2, Types DEF WorkerCompiles, WorkInv, WorkerEnds, AtMine, Files
<1>4. UNCHANGED <<folder, parent, killed>> /\ Compile(g)
  BY <1>2 DEF WorkerCompiles
<1>5. /\ n_inputs' = n_inputs /\ nworkers' = nworkers /\ bad' = bad /\ fork' = fork /\ parent' = parent
      /\ killed' = killed /\ Files' = Files /\ Shards' = Shards
      /\ \A f, v : Mine(f, v)' <=> Mine(f, v)
  BY <1>4 DEF folder, Files, Shards, Mine
<1>6. /\ worker' \in [Shards -> [pc : {"none", "run", "exited"}, file : Nat, rc : {0, 1}]]
      /\ \A v \in Shards : v # w => worker'[v] = worker[v]
      /\ worker'[w].pc = "run" /\ worker'[w].file = g + nworkers
      /\ worker'[w].rc = IF g \in bad THEN 1 ELSE rc
  <2>1. worker \in [Shards -> [pc : {"none", "run", "exited"}, file : Nat, rc : {0, 1}]]
    BY <1>1 DEF WorkTypeOK
  <2>2. worker' = [worker EXCEPT ![w].file = @ + nworkers, ![w].rc = IF g \in bad THEN 1 ELSE @]
    BY <1>2 DEF WorkerCompiles, Failed
  <2>3. PICK r \in {0, 1} : r = IF g \in bad THEN 1 ELSE rc
    BY <1>3
  <2>4. worker' = [worker EXCEPT ![w] = [pc |-> "run", file |-> g + nworkers, rc |-> r]]
    <3>1. PICK c \in [pc : {"none", "run", "exited"}, file : Nat, rc : {0, 1}] : c = worker[w]
      BY <2>1
    <3>2. c = [pc |-> "run", file |-> g, rc |-> rc]
      BY <1>2, <1>3, <3>1
    <3>3. PICK c1 : c1 = [c EXCEPT !.file = g + nworkers]
      OBVIOUS
    <3>4. c1 = [pc |-> "run", file |-> g + nworkers, rc |-> rc]
      BY <3>2, <3>3
    <3>5. [c1 EXCEPT !.rc = r] = [pc |-> "run", file |-> g + nworkers, rc |-> r]
      BY <3>4
    <3>6. worker' = [worker EXCEPT ![w] = [c1 EXCEPT !.rc = r]]
      BY <1>2, <2>1, <2>2, <2>3, <3>1, <3>3
    <3> QED BY <3>5, <3>6
  <2>5. [pc |-> "run", file |-> g + nworkers, rc |-> r] \in [pc : {"none", "run", "exited"}, file : Nat, rc : {0, 1}]
    BY <1>3
  <2> QED BY <2>1, <2>3, <2>4, <2>5
<1>7. /\ g = Past(w) /\ Past(w)' = g + nworkers
      /\ \A v \in Shards : v # w => Past(v)' = Past(v)
  BY <1>2, <1>3, <1>5, <1>6 DEF Past
<1>8. /\ Tried' /\ MadeIfGood'
      /\ \A v \in Shards : v # w => (Good(v)' <=> Good(v))
      /\ Good(w)' <=> Good(w) /\ g \notin bad
  BY <1>3, <1>4, <1>7, OneCompiled
<1>9. WorkTypeOK'
  <2>1. tries' \in [Files -> Nat] /\ made' \in [Files -> Nat]
    BY <1>1, <1>3, <1>4 DEF WorkTypeOK, Compile
  <2> QED BY <1>1, <1>5, <1>6, <2>1 DEF WorkTypeOK
<1>10. AtMine'
  <2>1. Mine(g + nworkers, w)
    BY <1>3, NextInShard DEF Mine
  <2> QED BY <1>5, <1>6, <2>1 DEF WorkInv, AtMine
<1>11. WorkerEnds'
  <2> SUFFICES ASSUME NEW v \in Shards
               PROVE  /\ worker'[v].pc = "none" <=> v >= parent.started
                      /\ worker'[v].pc = "none" => worker'[v].file = v
                      /\ v < parent.started /\ worker'[v].rc = 0 => Good(v)'
                      /\ worker'[v].pc = "exited" /\ (worker'[v].rc = 0 \/ ~killed) =>
                            worker'[v].file >= n_inputs
    BY <1>5 DEF WorkerEnds
  <2>1. CASE v = w
    BY <1>2, <1>3, <1>6, <1>8, <2>1 DEF WorkInv, WorkerEnds
  <2>2. CASE v # w
    BY <1>6, <1>8, <2>2 DEF WorkInv, WorkerEnds
  <2> QED BY <2>1, <2>2
<1>12. Waited'
  <2>1. parent.pc = "wait" => ~(w < parent.at)
    BY <1>3 DEF WorkInv, Waited
  <2> QED BY <1>5, <1>6, <2>1 DEF WorkInv, Waited
<1>13. Rested'
  <2>1. parent.pc # "rest"
    BY <1>3 DEF WorkInv, Rested
  <2>2. parent.pc = "exited" => parent.rc # 0 /\ ~(~killed /\ ~GaveUp)
    BY <1>3 DEF WorkInv, Rested
  <2>3. GaveUp' <=> GaveUp
    BY <1>5 DEF GaveUp
  <2> QED BY <1>5, <2>1, <2>2, <2>3 DEF Rested
<1> QED BY <1>8, <1>9, <1>10, <1>11, <1>12, <1>13 DEF WorkInv

\* A worker is through, or stops.
LEMMA WorkerEndsKeeps ==
    ASSUME WorkInv, NEW w \in Shards, WorkerExits(w) \/ Stops(w)
    PROVE  WorkInv'
<1>1. WorkTypeOK
  BY DEF WorkInv
<1>13. UNCHANGED <<folder, parent, tries, made>>
  BY DEF WorkerExits, Stops
<1>12. killed' \in BOOLEAN /\ (killed => killed')
  BY <1>1 DEF WorkerExits, Stops, WorkTypeOK
<1>2. worker[w].pc = "run" /\ w \in Nat /\ parent.started \in Nat /\ w < parent.started
  <2>1. worker[w].pc = "run"
    BY DEF WorkerExits, Stops
  <2> QED BY <1>1, <2>1, Types DEF WorkInv, WorkerEnds
<1>3. /\ n_inputs' = n_inputs /\ nworkers' = nworkers /\ bad' = bad /\ fork' = fork /\ parent' = parent
      /\ Files' = Files /\ Shards' = Shards
      /\ \A f, v : Mine(f, v)' <=> Mine(f, v)
  BY <1>13 DEF folder, Files, Shards, Mine
<1>4. /\ worker' \in [Shards -> [pc : {"none", "run", "exited"}, file : Nat, rc : {0, 1}]]
      /\ \A v \in Shards : v # w => worker'[v] = worker[v]
      /\ worker'[w].pc = "exited" /\ worker'[w].file = worker[w].file
      /\ \/ worker'[w].rc = worker[w].rc /\ worker[w].file >= n_inputs
         \/ worker'[w].rc = 1 /\ killed'
  <2>1. worker \in [Shards -> [pc : {"none", "run", "exited"}, file : Nat, rc : {0, 1}]]
    BY <1>1 DEF WorkTypeOK
  <2>2. worker[w] \in [pc : {"none", "run", "exited"}, file : Nat, rc : {0, 1}]
    BY <2>1
  <2>3. PICK c \in [pc : {"none", "run", "exited"}, file : Nat, rc : {0, 1}] : c = worker[w]
    BY <2>2
  <2>4. CASE WorkerExits(w)
    <3>1. worker' = [worker EXCEPT ![w] = [c EXCEPT !.pc = "exited"]]
      BY <2>1, <2>3, <2>4 DEF WorkerExits
    <3> QED BY <2>1, <2>3, <2>4, <3>1 DEF WorkerExits, Stops
  <2>5. CASE Stops(w)
    <3>4. PICK c1 : c1 = [c EXCEPT !.pc = "exited"]
      OBVIOUS
    <3>5. c1 = [pc |-> "exited", file |-> c.file, rc |-> c.rc]
      BY <3>4
    <3>2. [c1 EXCEPT !.rc = 1] = [pc |-> "exited", file |-> c.file, rc |-> 1]
      BY <3>5
    <3>1. worker' = [worker EXCEPT ![w] = [c1 EXCEPT !.rc = 1]]
      BY <2>1, <2>3, <2>5, <3>4 DEF Stops
    <3>3. /\ \A v \in Shards : v # w => worker'[v] = worker[v]
          /\ worker'[w].pc = "exited" /\ worker'[w].file = c.file /\ worker'[w].rc = 1
          /\ worker' \in [Shards -> [pc : {"none", "run", "exited"}, file : Nat, rc : {0, 1}]]
      BY <2>1, <3>1, <3>2
    <3> QED BY <2>3, <2>5, <3>3 DEF Stops
  <2> QED BY <2>4, <2>5
<1>5. \A v \in Shards : Past(v)' = Past(v)
  BY <1>3, <1>4 DEF Past
<1>6. /\ Tried' /\ MadeIfGood'
      /\ \A v \in Shards : Good(v)' <=> Good(v)
  BY <1>13, <1>5, NothingCompiled
<1>7. WorkTypeOK'
  BY <1>1, <1>3, <1>4, <1>12, <1>13 DEF WorkTypeOK
<1>8. AtMine'
  BY <1>3, <1>4 DEF WorkInv, AtMine
<1>9. WorkerEnds'
  <2> SUFFICES ASSUME NEW v \in Shards
               PROVE  /\ worker'[v].pc = "none" <=> v >= parent.started
                      /\ worker'[v].pc = "none" => worker'[v].file = v
                      /\ v < parent.started /\ worker'[v].rc = 0 => Good(v)'
                      /\ worker'[v].pc = "exited" /\ (worker'[v].rc = 0 \/ ~killed') =>
                            worker'[v].file >= n_inputs
    BY <1>3 DEF WorkerEnds
  <2>1. CASE v = w
    BY <1>2, <1>4, <1>6, <1>12, <2>1 DEF WorkInv, WorkerEnds
  <2>2. CASE v # w
    BY <1>2, <1>4, <1>6, <1>12, <2>2 DEF WorkInv, WorkerEnds
  <2> QED BY <2>1, <2>2
<1>10. Waited'
  <2>1. parent.pc = "wait" => ~(w < parent.at)
    BY <1>2 DEF WorkInv, Waited
  <2> QED BY <1>3, <1>4, <2>1 DEF WorkInv, Waited
<1>11. Rested'
  <2>1. parent.pc # "rest"
    BY <1>2 DEF WorkInv, Rested
  <2>2. parent.pc = "exited" => parent.rc # 0 /\ ~(~killed /\ ~GaveUp)
    BY <1>2 DEF WorkInv, Rested
  <2>3. GaveUp' <=> GaveUp
    BY <1>3 DEF GaveUp
  <2> QED BY <1>3, <1>12, <2>1, <2>2, <2>3 DEF Rested
<1> QED BY <1>6, <1>7, <1>8, <1>9, <1>10, <1>11 DEF WorkInv

\* In the first state no file was compiled.
LEMMA WorkInitInv ==
    ASSUME WorkInit
    PROVE  WorkInv
<1>1. /\ n_inputs \in Nat \ {0} /\ nworkers \in Nat \ {0} /\ fork \in BOOLEAN /\ killed = FALSE
  <2>1. PICK c \in Cores : nworkers = NWorkers(c, n_inputs)
    BY DEF WorkInit
  <2>2. n_inputs \in Nat \ {0} /\ c \in Nat \ {0}
    BY WorkersAssumption DEF WorkInit
  <2> QED BY <2>1, <2>2 DEF WorkInit, NWorkers
<1>2. /\ parent = [pc |-> IF nworkers > 1 THEN "start" ELSE "rest", at |-> 0, started |-> 0,
                   file |-> 0, rc |-> 0]
      /\ worker = [w \in Shards |-> [pc |-> "none", file |-> w, rc |-> 0]]
      /\ tries = [f \in Files |-> 0] /\ made = [f \in Files |-> 0]
  BY DEF WorkInit, Shards, Files
<1>3. /\ \A w \in Shards : w \in Nat /\ w < nworkers /\ w >= 0 /\ ~(w < 0)
      /\ \A f \in Files : f \in Nat /\ ~(f < 0)
  BY <1>1 DEF Shards, Files
<1>4. WorkTypeOK
  <2>1. parent \in [pc : {"start", "wait", "rest", "exited"}, at : 0 .. nworkers,
                    started : 0 .. nworkers, file : Nat, rc : {0, 1}]
    BY <1>1, <1>2
  <2>2. worker \in [Shards -> [pc : {"none", "run", "exited"}, file : Nat, rc : {0, 1}]]
    BY <1>2, <1>3
  <2>3. tries \in [Files -> Nat] /\ made \in [Files -> Nat]
    BY <1>2
  <2> QED BY <1>1, <2>1, <2>2, <2>3 DEF WorkTypeOK
<1>5. \A w \in Shards : /\ worker[w].pc = "none" /\ worker[w].file = w /\ worker[w].rc = 0
                        /\ Past(w) = 0
  BY <1>1, <1>2, <1>3 DEF Past
<1>6. AtMine
  BY <1>1, <1>2, <1>3, <1>5, NextInShard DEF AtMine, Mine
<1>7. Tried /\ MadeIfGood /\ WorkerEnds
  BY <1>2, <1>3, <1>5 DEF Tried, MadeIfGood, WorkerEnds
<1>8. \A w \in Shards : Good(w)
  BY <1>3, <1>5 DEF Good
<1>9. Waited
  BY <1>1, <1>2 DEF Waited
<1>10. Rested
  BY <1>1, <1>2, <1>3, <1>8 DEF Rested
<1> QED BY <1>4, <1>6, <1>7, <1>9, <1>10 DEF WorkInv

\* Every step keeps the invariant.
LEMMA WorkNextInv ==
    ASSUME WorkInv, [WorkNext]_workVars
    PROVE  WorkInv'
<1>1. CASE UNCHANGED workVars
  <2>1. /\ n_inputs' = n_inputs /\ nworkers' = nworkers /\ fork' = fork /\ bad' = bad /\ parent' = parent
        /\ worker' = worker /\ tries' = tries /\ made' = made /\ killed' = killed
    BY <1>1 DEF workVars
  <2> QED BY <2>1 DEF WorkInv, WorkTypeOK, AtMine, Tried, MadeIfGood, WorkerEnds, Waited, Rested,
                      Files, Shards, Mine, Past, Good, GaveUp
<1>2. CASE StartFails \/ AllStarted \/ Collect \/ AllCollected \/ NextShard \/ RestDone \/ ParentStops
  BY <1>2, ParentKeeps, ParentWaits DEF WorkInv
<1>3. CASE StartWorker \/ CompileRest
  BY <1>3, StartWorkerKeeps, CompileRestKeeps
<1>4. CASE \E w \in DOMAIN worker : WorkerCompiles(w) \/ WorkerExits(w) \/ Stops(w)
  <2>1. DOMAIN worker = Shards
    BY DEF WorkInv, WorkTypeOK
  <2> QED BY <1>4, <2>1, WorkerCompilesKeeps, WorkerEndsKeeps
<1> QED BY <1>1, <1>2, <1>3, <1>4 DEF WorkNext, Parent, AllOver

\* The invariant says enough.
LEMMA WorkInvSuffices ==
    ASSUME WorkInv
    PROVE  WholeFolder
<1>1. /\ n_inputs \in Nat \ {0} /\ nworkers \in Nat \ {0} /\ tries \in [Files -> Nat] /\ made \in [Files -> Nat]
  BY DEF WorkInv, WorkTypeOK
<1>2. ASSUME NEW f \in Files
      PROVE  /\ tries[f] <= 1
             /\ parent.pc = "exited" /\ parent.rc = 0 => made[f] = 1
             /\ parent.pc = "exited" /\ ~killed /\ ~GaveUp => tries[f] = 1
  <2>1. f \in Nat /\ f < n_inputs
    BY <1>1 DEF Files
  <2>2. PICK w \in Shards : Mine(f, w)
    BY <1>1, <2>1, SomeShard DEF Shards, Mine
  <2>3. tries[f] = IF f < Past(w) THEN 1 ELSE 0
    BY <2>2 DEF WorkInv, Tried
  <2>4. ASSUME parent.pc = "exited", (~killed /\ ~GaveUp) \/ parent.rc = 0
        PROVE  f < Past(w)
    <3>1. IF w < parent.started THEN worker[w].pc = "exited" ELSE w < parent.at
      BY <2>4 DEF WorkInv, Rested
    <3>2. w \in Nat /\ parent.at \in Nat /\ parent.started \in Nat /\ worker[w].file \in Nat
      BY Types DEF WorkInv
    <3>3. CASE w < parent.started
      <4>1. worker[w].pc = "exited" /\ (worker[w].rc = 0 \/ ~killed)
        BY <2>4, <3>1, <3>3 DEF WorkInv, Rested
      <4>2. worker[w].file >= n_inputs
        BY <4>1 DEF WorkInv, WorkerEnds
      <4> QED BY <1>1, <2>1, <3>2, <3>3, <4>2 DEF Past
    <3>4. CASE ~(w < parent.started)
      BY <2>1, <2>4, <3>1, <3>2, <3>4 DEF Past
    <3> QED BY <3>3, <3>4
  <2>5. ASSUME parent.pc = "exited", parent.rc = 0 PROVE made[f] = 1
    <3>1. Good(w) /\ f < Past(w)
      BY <2>4, <2>5 DEF WorkInv, Rested
    <3>2. f \notin bad
      BY <2>2, <3>1 DEF Good
    <3> QED BY <2>3, <3>1, <3>2 DEF WorkInv, MadeIfGood
  <2> QED BY <2>3, <2>4, <2>5
<1>3. DOMAIN tries = Files /\ DOMAIN made = Files
  BY <1>1
<1> QED BY <1>2, <1>3 DEF WholeFolder

\* WholeFolder: of a folder of any size, with any number of processes, no file is
\* compiled twice, and a parent that reports success has every file compiled, whichever
\* workers stop, or cannot be started, and whatever the compiler rejects.
THEOREM EveryFileHasItsTurn == WorkSpec => []WholeFolder
<1>1. WorkSpec => []WorkInv
  BY WorkInitInv, WorkNextInv, PTL DEF WorkSpec
<1>2. WorkInv => WholeFolder
  BY WorkInvSuffices
<1> QED BY <1>1, <1>2, PTL
=============================================================================
