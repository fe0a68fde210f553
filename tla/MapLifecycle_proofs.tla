------------------------ MODULE MapLifecycle_proofs ------------------------
(* Proofs about MapLifecycle, for every number of players, maps and workers. *)
EXTENDS MapLifecycle, FiniteSetTheorems, TLAPS

-----------------------------------------------------------------------------
(* One MapInstance *)

\* What the type and the counting say of one instance.
Counted(r) == /\ r \in Instance
              /\ IsFiniteSet(r.listed)
              /\ r.count = Cardinality(r.listed)
              /\ r.listed # {} => r.hasPlayer

\* A player that was not listed enters.
LEMMA EnteredCounted ==
  ASSUME NEW r, Counted(r), NEW p \in Players, p \notin r.listed
  PROVE  /\ Counted(Entered(r, p))
         /\ Entered(r, p).id = r.id
         /\ Entered(r, p).listed = r.listed \cup {p}
<1>1. /\ IsFiniteSet(r.listed \cup {p})
      /\ Cardinality(r.listed \cup {p}) = Cardinality(r.listed) + 1
  BY FS_AddElement DEF Counted
<1>2. r.count # 0 => r.listed # {}
  BY FS_EmptySet DEF Counted
<1>. DEFINE more == [r EXCEPT !.listed = @ \cup {p}, !.count = @ + 1]
            e == Entered(r, p)
<1>3. r \in Instance /\ r.count \in Nat
  BY DEF Counted, Instance
<1>4. /\ e \in Instance
      /\ e.id = r.id
      /\ e.listed = r.listed \cup {p}
      /\ e.count = r.count + 1
  <2>1. /\ more \in Instance
        /\ more.id = r.id
        /\ more.listed = r.listed \cup {p}
        /\ more.count = r.count + 1
    <3>1. r.listed \cup {p} \in SUBSET Players /\ r.count + 1 \in Nat
      BY <1>3 DEF Instance
    <3>. QED
      BY <1>3, <3>1 DEF Instance
  <2>2. e = more \/ e = [more EXCEPT !.hasPlayer = TRUE, !.destroyRequested = FALSE, !.expired = TRUE]
    BY DEF Entered
  <2>. HIDE DEF more, e
  <2>. QED
    BY <2>1, <2>2 DEF Instance
<1>5. e.hasPlayer
  BY <1>2, <1>3 DEF Entered, Instance, Counted
<1>. HIDE DEF e
<1>6. e.count = Cardinality(e.listed)
  BY <1>1, <1>4 DEF Counted
<1>7. Counted(e)
  BY <1>1, <1>4, <1>5, <1>6 DEF Counted
<1>. QED
  BY <1>4, <1>7 DEF e

\* A player leaves, or was not listed.
LEMMA LeftCounted ==
  ASSUME NEW r, Counted(r), NEW p \in Players
  PROVE  /\ Counted(Left(r, p))
         /\ Left(r, p).id = r.id
         /\ Left(r, p).listed = r.listed \ {p}
<1>1. CASE p \notin r.listed
  BY <1>1 DEF Left
<1>2. CASE p \in r.listed
  <2>1. /\ IsFiniteSet(r.listed \ {p})
        /\ Cardinality(r.listed \ {p}) = Cardinality(r.listed) - 1
    BY <1>2, FS_RemoveElement DEF Counted
  <2>2. Cardinality(r.listed \ {p}) \in Nat
    BY <2>1, FS_CardinalityType
  <2>3. r.count \in Nat /\ r.count - 1 \in Nat /\ r.hasPlayer
    BY <1>2, <2>1, <2>2 DEF Counted, Instance
  <2>4. ~(r.count > 1) => r.listed \ {p} = {}
    BY <2>1, <2>3, FS_EmptySet DEF Counted
  <2>. QED
    BY <1>2, <2>1, <2>3, <2>4 DEF Counted, Left, Instance
<1>. QED
  BY <1>1, <1>2

\* Forgetting a Player object changes no count.
LEMMA ForgottenCounted ==
  ASSUME NEW r, r # None => Counted(r), NEW p \in Players
  PROVE  /\ Forgotten(r, p) # None <=> r # None
         /\ r # None => /\ Counted(Forgotten(r, p))
                        /\ Forgotten(r, p).id = r.id
                        /\ Forgotten(r, p).listed = r.listed
  BY FreedAssumption DEF Counted, Forgotten, Instance

-----------------------------------------------------------------------------
(* The objects *)

\* What IInv says of the objects, in one formula.
AllCounted == /\ inst \in [Instances -> Instance \cup {None}]
              /\ \A i \in Instances : Live(i) => Counted(inst[i])

LEMMA CountedObjects ==
  ASSUME inst \in [Instances -> Instance \cup {None}], ListsFinite, CountIsSize
  PROVE  AllCounted
BY DEF AllCounted, Counted, Live, ListsFinite, CountIsSize

LEMMA ObjectsCounted == AllCounted => ListsFinite /\ CountIsSize
BY DEF AllCounted, Counted, Live, ListsFinite, CountIsSize

\* Live and the id and the list of an object across a step of p's disconnect.
LEMMA DisconnectObjects ==
  ASSUME AllCounted, TypeOK, NEW p \in Players, Disconnect(p), alive'
  PROVE  /\ AllCounted'
         /\ \A i \in Instances : /\ Live(i)' <=> Live(i)
                                 /\ Live(i) => /\ inst'[i].id = inst[i].id
                                               /\ inst[i].listed \ {p} \subseteq inst'[i].listed
<1>. DEFINE left == IF current[p] = None THEN inst ELSE [inst EXCEPT ![current[p]] = Left(@, p)]
<1>1. /\ inst' = [i \in Instances |-> Forgotten(left[i], p)]
      /\ current[p] # None => Live(current[p]) /\ current[p] \in Instances
  BY DEF Disconnect, Undefined, TypeOK
<1>2. ASSUME NEW i \in Instances
      PROVE  /\ left[i] # None <=> Live(i)
             /\ Live(i) => /\ Counted(left[i])
                           /\ left[i].id = inst[i].id
                           /\ inst[i].listed \ {p} \subseteq left[i].listed
  <2>1. CASE current[p] = None \/ current[p] # i
    <3>1. left[i] = inst[i]
      BY <1>1, <2>1 DEF AllCounted
    <3>. QED
      BY <3>1 DEF AllCounted, Live
  <2>2. CASE current[p] # None /\ current[p] = i
    <3>1. left[i] = Left(inst[i], p) /\ Live(i)
      BY <1>1, <2>2 DEF AllCounted
    <3>2. Counted(inst[i])
      BY <3>1 DEF AllCounted
    <3>3. Counted(Left(inst[i], p)) /\ Left(inst[i], p).id = inst[i].id
          /\ Left(inst[i], p).listed = inst[i].listed \ {p}
      BY <3>2, LeftCounted
    <3>4. Left(inst[i], p) # None
      BY <3>3, FreedAssumption DEF Counted
    <3>. QED
      BY <3>1, <3>3, <3>4
  <2>. QED
    BY <2>1, <2>2
<1>3. ASSUME NEW i \in Instances
      PROVE  /\ inst'[i] # None <=> Live(i)
             /\ Live(i) => /\ Counted(inst'[i])
                           /\ inst'[i].id = inst[i].id
                           /\ inst[i].listed \ {p} \subseteq inst'[i].listed
  <2>1. inst'[i] = Forgotten(left[i], p)
    BY <1>1
  <2>2. left[i] # None => Counted(left[i])
    BY <1>2
  <2>3. /\ Forgotten(left[i], p) # None <=> left[i] # None
        /\ left[i] # None => /\ Counted(Forgotten(left[i], p))
                             /\ Forgotten(left[i], p).id = left[i].id
                             /\ Forgotten(left[i], p).listed = left[i].listed
    BY <2>2, ForgottenCounted
  <2>. QED
    BY <1>2, <2>1, <2>3
<1>4. inst' \in [Instances -> Instance \cup {None}]
  <2>1. \A i \in Instances : inst'[i] \in Instance \cup {None}
    BY <1>3 DEF Counted
  <2>. QED
    BY <1>1, <2>1
<1>. QED
  BY <1>3, <1>4 DEF AllCounted, Live

\* An assignment to one field of a live object that counting does not look at.
LEMMA FieldObjects ==
  ASSUME AllCounted, NEW i \in Instances, Live(i),
         \/ inst' = [inst EXCEPT ![i].callback = TRUE]
         \/ inst' = [inst EXCEPT ![i].destroyRequested = TRUE]
         \/ inst' = [inst EXCEPT ![i].expired = TRUE]
  PROVE  /\ AllCounted'
         /\ \A j \in Instances : /\ Live(j)' <=> Live(j)
                                 /\ Live(j) => /\ inst'[j].id = inst[j].id
                                               /\ inst'[j].listed = inst[j].listed
<1>1. Counted(inst[i]) /\ \A j \in Instances \ {i} : inst'[j] = inst[j]
  BY DEF AllCounted
<1>2. Counted(inst'[i]) /\ inst'[i].id = inst[i].id /\ inst'[i].listed = inst[i].listed
  <2>1. /\ inst[i] \in Instance
        /\ \/ inst'[i] = [inst[i] EXCEPT !.callback = TRUE]
           \/ inst'[i] = [inst[i] EXCEPT !.destroyRequested = TRUE]
           \/ inst'[i] = [inst[i] EXCEPT !.expired = TRUE]
    BY <1>1 DEF AllCounted, Counted
  <2>2. /\ inst'[i] \in Instance
        /\ inst'[i].id = inst[i].id /\ inst'[i].listed = inst[i].listed
        /\ inst'[i].count = inst[i].count /\ inst'[i].hasPlayer = inst[i].hasPlayer
    BY <2>1 DEF Instance
  <2>. QED
    BY <1>1, <2>2 DEF Counted
<1>3. inst'[i] # None
  BY <1>2, FreedAssumption DEF Counted
<1>4. inst' \in [Instances -> Instance \cup {None}]
  BY <1>1, <1>2 DEF AllCounted, Counted
<1>. QED
  BY <1>1, <1>2, <1>3, <1>4 DEF AllCounted, Live

\* A step that neither makes nor frees an object and lists whom it listed.
Kept == \A i \in Instances : /\ Live(i)' <=> Live(i)
                             /\ Live(i) => /\ inst'[i].id = inst[i].id
                                           /\ inst[i].listed \subseteq inst'[i].listed

LEMMA UnchangedObjects == ASSUME AllCounted, UNCHANGED inst PROVE AllCounted' /\ Kept
BY DEF AllCounted, Kept, Live, Counted

\* A map is created at an address that was free.
LEMMA CreateMapObjects ==
  ASSUME AllCounted, TypeOK, NEW p \in Players, NEW m \in MapIds, NEW i \in Instances,
         CreateMap(p, m, i)
  PROVE  /\ AllCounted'
         /\ ~Live(i) /\ Live(i)' /\ inst'[i].id = MapIdOf(m)
         /\ \A j \in Instances \ {i} : inst'[j] = inst[j]
<1>1. PICK h \in BOOLEAN, d \in BOOLEAN :
        inst' = [inst EXCEPT ![i] = [id |-> MapIdOf(m), listed |-> {}, dangling |-> {}, count |-> 0,
                                     hasPlayer |-> h, destroyRequested |-> d, expired |-> TRUE,
                                     callback |-> FALSE]]
  BY DEF CreateMap
<1>2. MapIdOf(m) \in Nat
  BY MapAssumption DEF MapIdOf
<1>3. inst'[i] \in Instance /\ inst'[i].id = MapIdOf(m) /\ inst'[i].listed = {} /\ inst'[i].count = 0
  BY <1>1, <1>2 DEF AllCounted, Instance
<1>4. Counted(inst'[i]) /\ inst'[i] # None
  BY <1>3, FS_EmptySet, FreedAssumption DEF Counted
<1>5. \A j \in Instances \ {i} : inst'[j] = inst[j]
  BY <1>1 DEF AllCounted
<1>6. inst' \in [Instances -> Instance \cup {None}]
  BY <1>1, <1>4, <1>5 DEF AllCounted, Counted
<1>. QED
  BY <1>3, <1>4, <1>5, <1>6 DEF AllCounted, Live, CreateMap

\* A player enters a live map.
LEMMA OnEnterObjects ==
  ASSUME AllCounted, TypeOK, ThreadsHold, OnEnter, alive'
  PROVE  /\ AllCounted' /\ Kept
         /\ Live(game.map) /\ game.player \in inst'[game.map].listed
<1>. DEFINE i == game.map
            q == game.player
<1>1. /\ i \in Instances /\ q \in Players /\ Live(i)
      /\ inst' = IF q \in inst[i].listed THEN inst ELSE [inst EXCEPT ![i] = Entered(@, q)]
  BY DEF OnEnter, Undefined, ThreadsHold
<1>2. CASE q \in inst[i].listed
  BY <1>1, <1>2, UnchangedObjects
<1>3. CASE q \notin inst[i].listed
  <2>1. Counted(inst[i])
    BY <1>1 DEF AllCounted
  <2>2. /\ Counted(Entered(inst[i], q))
        /\ Entered(inst[i], q).id = inst[i].id
        /\ Entered(inst[i], q).listed = inst[i].listed \cup {q}
    BY <1>1, <1>3, <2>1, EnteredCounted
  <2>3. inst' = [inst EXCEPT ![i] = Entered(inst[i], q)]
    BY <1>1, <1>3
  <2>4. inst'[i] = Entered(inst[i], q) /\ \A j \in Instances \ {i} : inst'[j] = inst[j]
    BY <1>1, <2>3 DEF AllCounted
  <2>5. inst'[i] # None /\ inst' \in [Instances -> Instance \cup {None}]
    BY <1>1, <2>2, <2>3, FreedAssumption DEF AllCounted, Counted
  <2>. HIDE DEF i, q
  <2>6. AllCounted'
    BY <2>2, <2>4, <2>5 DEF AllCounted, Live
  <2>7. Kept /\ q \in inst'[i].listed
    BY <1>1, <2>2, <2>4, <2>5 DEF Kept, Live
  <2>. QED
    BY <1>1, <2>6, <2>7 DEF i, q
<1>. QED
  BY <1>2, <1>3

\* The manager deletes the map of the request at the head of the queue, or skips it.
LEMMA RemoveMapObjects ==
  ASSUME AllCounted, TypeOK, RemoveMap
  PROVE  /\ AllCounted'
         /\ \/ UNCHANGED inst /\ UNCHANGED mgr
            \/ \E m \in MapIds : /\ maps[m] \in Instances
                                 /\ mgr' = [pc |-> "Erase", id |-> m]
                                 /\ inst' = [inst EXCEPT ![maps[m]] = None]
<1>1. CASE UNCHANGED inst /\ UNCHANGED mgr
  BY <1>1, UnchangedObjects
<1>2. CASE \E m \in MapIds : /\ maps[m] \in Instances
                             /\ mgr' = [pc |-> "Erase", id |-> m]
                             /\ inst' = [inst EXCEPT ![maps[m]] = None]
  BY <1>2 DEF AllCounted, Live
<1>3. \/ UNCHANGED inst /\ UNCHANGED mgr
      \/ \E m \in MapIds : /\ maps[m] \in Instances
                           /\ mgr' = [pc |-> "Erase", id |-> m]
                           /\ inst' = [inst EXCEPT ![maps[m]] = None]
  BY DEF RemoveMap, TypeOK
<1>. QED
  BY <1>1, <1>2, <1>3

\* A step that changes no entry and no current map and makes, frees and leaves no object.
Calm == /\ Kept
        /\ UNCHANGED <<maps, current, evicted>>
        /\ \A m \in MapIds : Erasing(m)' <=> Erasing(m)

LEMMA CalmUnchanged ==
  ASSUME AllCounted, UNCHANGED <<maps, current, evicted, inst, mgr>>
  PROVE  AllCounted' /\ Calm
BY UnchangedObjects DEF Calm, Erasing

LEMMA CalmField ==
  ASSUME AllCounted, UNCHANGED <<maps, current, evicted, mgr>>, NEW i \in Instances, Live(i),
         \/ inst' = [inst EXCEPT ![i].callback = TRUE]
         \/ inst' = [inst EXCEPT ![i].destroyRequested = TRUE]
         \/ inst' = [inst EXCEPT ![i].expired = TRUE]
  PROVE  AllCounted' /\ Calm
BY FieldObjects DEF Calm, Erasing, Kept

LEMMA CalmUndefined == ASSUME AllCounted, Undefined PROVE AllCounted' /\ Calm
BY CalmUnchanged DEF Undefined

\* The steps that are not calm, as the next lemmas need them.
Loud == \/ OnEnter /\ alive'
        \/ \E p \in Players : Disconnect(p) /\ alive'
        \/ \E p \in Players, m \in MapIds, i \in Instances : CreateMap(p, m, i)
        \/ RemoveMap
        \/ EraseMap

LEMMA StepKinds ==
  ASSUME AllCounted, TypeOK, ThreadsHold, [Next]_vars
  PROVE  AllCounted' /\ (Calm \/ Loud)
<1>1. ASSUME NEW p \in Players, Login(p) PROVE AllCounted' /\ Calm
  BY <1>1, CalmUnchanged DEF Login
<1>2. ASSUME NEW p \in Players, Disconnect(p) PROVE AllCounted' /\ (Calm \/ Loud)
  <2>1. CASE alive'
    BY <1>2, <2>1, DisconnectObjects DEF Loud
  <2>2. CASE ~alive'
    BY <1>2, <2>2, CalmUndefined DEF Disconnect
  <2>. QED
    BY <2>1, <2>2
<1>3. ASSUME NEW p \in Players, EnterNoMap(p) PROVE AllCounted' /\ Calm
  BY <1>3, CalmUndefined DEF EnterNoMap
<1>4. ASSUME NEW p \in Players, NEW m \in MapIds, FindMap(p, m) PROVE AllCounted' /\ Calm
  BY <1>4, CalmUnchanged DEF FindMap
<1>5. ASSUME NEW p \in Players, NEW m \in MapIds, NEW i \in Instances, CreateMap(p, m, i)
      PROVE  AllCounted' /\ Loud
  BY <1>5, CreateMapObjects DEF Loud
<1>6. CASE SetCallback
  <2>1. CASE Live(game.map)
    BY <1>6, <2>1, CalmField DEF SetCallback, ThreadsHold
  <2>2. CASE ~Live(game.map)
    BY <1>6, <2>2, CalmUndefined DEF SetCallback
  <2>. QED
    BY <2>1, <2>2
<1>7. CASE OnEnter
  <2>1. CASE alive'
    BY <1>7, <2>1, OnEnterObjects DEF Loud
  <2>2. CASE ~alive'
    BY <1>7, <2>2, CalmUndefined DEF OnEnter
  <2>. QED
    BY <2>1, <2>2
<1>8. CASE SubmitUpdates
  BY <1>8, UnchangedObjects DEF SubmitUpdates, Calm, Erasing, TypeOK
<1>9. CASE RemoveMap
  BY <1>9, RemoveMapObjects DEF Loud
<1>10. CASE EraseMap
  BY <1>10, UnchangedObjects DEF EraseMap, Loud
<1>11. CASE Sleep
  BY <1>11, UnchangedObjects DEF Sleep, Calm, Erasing, TypeOK
<1>12. ASSUME NEW w \in Workers, WorkerStep(w) PROVE AllCounted' /\ Calm
  <2>1. ASSUME NEW i \in Instances, RunTask(w, i) PROVE AllCounted' /\ Calm
    BY <2>1, CalmUnchanged DEF RunTask
  <2>2. CASE Update(w)
    BY <2>2, CalmUnchanged, CalmUndefined DEF Update
  <2>3. CASE SendMapInfo(w)
    BY <2>3, CalmUnchanged, CalmUndefined DEF SendMapInfo
  <2>4. CASE TestRequest(w)
    BY <2>4, CalmUnchanged, CalmUndefined DEF TestRequest
  <2>5. CASE RequestDestroy(w)
    <3>1. CASE Live(worker[w].map)
      BY <2>5, <3>1, CalmField DEF RequestDestroy, ThreadsHold
    <3>2. CASE ~Live(worker[w].map)
      BY <2>5, <3>2, CalmUndefined DEF RequestDestroy
    <3>. QED
      BY <3>1, <3>2
  <2>. QED
    BY <1>12, <2>1, <2>2, <2>3, <2>4, <2>5 DEF WorkerStep
<1>13. ASSUME NEW i \in Instances, Elapse(i) PROVE AllCounted' /\ Calm
  BY <1>13, CalmField DEF Elapse
<1>14. CASE UNCHANGED vars
  BY <1>14, CalmUnchanged DEF vars
<1>. QED
  BY <1>1, <1>2, <1>3, <1>4, <1>5, <1>6, <1>7, <1>8, <1>9, <1>10, <1>11, <1>12, <1>13, <1>14
     DEF Next, GameStep, ManagerStep

-----------------------------------------------------------------------------
(* The table *)

LEMMA TableNext ==
  ASSUME IInv, [Next]_vars
  PROVE  TableSound' /\ EntriesApart'
<1>. USE DEF IInv
<1>1. AllCounted /\ AllCounted' /\ (Calm \/ Loud)
  BY CountedObjects, StepKinds DEF TypeOK
<1>2. CASE Calm
  <2>1. UNCHANGED maps /\ (\A m \in MapIds : Erasing(m)' <=> Erasing(m))
        /\ \A i \in Instances : (Live(i)' <=> Live(i)) /\ (Live(i) => inst'[i].id = inst[i].id)
    BY <1>2 DEF Calm, Kept
  <2>2. EntriesApart'
    BY <2>1 DEF EntriesApart
  <2>3. TableSound'
    <3>1. \A m \in MapIds : maps[m] # None => maps[m] \in Instances
      BY DEF TypeOK
    <3>. QED
      BY <2>1, <3>1 DEF TableSound
  <2>. QED
    BY <2>2, <2>3
<1>3. CASE OnEnter /\ alive'
  <2>1. Kept
    BY <1>1, <1>3, OnEnterObjects
  <2>2. UNCHANGED maps /\ \A m \in MapIds : Erasing(m)' <=> Erasing(m)
    BY <1>3 DEF OnEnter, Undefined, Erasing
  <2>. QED
    BY <2>1, <2>2 DEF Kept, TableSound, EntriesApart, TypeOK
<1>4. ASSUME NEW p \in Players, Disconnect(p), alive' PROVE TableSound' /\ EntriesApart'
  <2>1. \A i \in Instances : (Live(i)' <=> Live(i)) /\ (Live(i) => inst'[i].id = inst[i].id)
    BY <1>1, <1>4, DisconnectObjects
  <2>2. UNCHANGED maps /\ \A m \in MapIds : Erasing(m)' <=> Erasing(m)
    BY <1>4 DEF Disconnect, Undefined, Erasing
  <2>. QED
    BY <2>1, <2>2 DEF TableSound, EntriesApart, TypeOK
<1>5. ASSUME NEW p \in Players, NEW m \in MapIds, NEW i \in Instances, CreateMap(p, m, i)
      PROVE  TableSound' /\ EntriesApart'
  <2>1. /\ ~Live(i) /\ Live(i)' /\ inst'[i].id = MapIdOf(m)
        /\ \A j \in Instances \ {i} : inst'[j] = inst[j]
    BY <1>1, <1>5, CreateMapObjects
  <2>2. /\ maps[m] = None /\ i # None
        /\ maps'[m] = i /\ \A n \in MapIds \ {m} : maps'[n] = maps[n]
        /\ \A n \in MapIds : Erasing(n)' <=> Erasing(n)
    BY <1>5, MapAssumption DEF CreateMap, TypeOK, Erasing
  <2>3. ~Erasing(m)
    BY <2>2 DEF ThreadsHold, Erasing
  <2>4. \A n \in MapIds : maps[n] = i => Erasing(n)
    BY <2>1, <2>2 DEF TableSound
  <2>5. \A n \in MapIds : maps[n] # None /\ maps[n] # i => maps[n] \in Instances \ {i}
    BY DEF TypeOK
  <2>6. ASSUME NEW n \in MapIds, maps'[n] # None, ~Erasing(n)'
        PROVE  Live(maps[n])' /\ inst'[maps'[n]].id = MapIdOf(n)
    <3>1. CASE n = m
      BY <2>1, <2>2, <3>1 DEF Live
    <3>2. CASE n # m
      BY <2>1, <2>2, <2>4, <2>5, <2>6, <3>2 DEF TableSound, Live
    <3>. QED
      BY <3>1, <3>2
  <2>7. ASSUME NEW j \in Instances, Live(j)'
        PROVE  \E n \in MapIds : maps'[n] = j /\ ~Erasing(n)'
    <3>1. CASE j = i
      BY <2>2, <2>3, <3>1
    <3>2. CASE j # i
      <4>1. PICK n \in MapIds : maps[n] = j /\ ~Erasing(n)
        BY <2>1, <2>7, <3>2 DEF EntriesApart, Live
      <4>2. n # m
        BY <2>2, <4>1, MapAssumption
      <4>. QED
        BY <2>2, <4>1, <4>2
    <3>. QED
      BY <3>1, <3>2
  <2>8. ASSUME NEW n \in MapIds, NEW k \in MapIds, n # k, maps'[n] = maps'[k], maps'[n] # None
        PROVE  Erasing(n)' \/ Erasing(k)'
    BY <2>2, <2>4, <2>8 DEF EntriesApart
  <2>. QED
    BY <2>6, <2>7, <2>8 DEF TableSound, EntriesApart
<1>6. CASE RemoveMap
  <2>1. CASE UNCHANGED inst /\ UNCHANGED mgr
    BY <1>6, <2>1 DEF RemoveMap, TableSound, EntriesApart, Live, Erasing
  <2>2. ASSUME NEW m \in MapIds, maps[m] \in Instances, mgr' = [pc |-> "Erase", id |-> m],
               inst' = [inst EXCEPT ![maps[m]] = None]
        PROVE  TableSound' /\ EntriesApart'
    <3>1. UNCHANGED maps /\ \A n \in MapIds : ~Erasing(n)
      BY <1>6 DEF RemoveMap, Erasing
    <3>2. \A n \in MapIds : Erasing(n)' <=> n = m
      BY <2>2 DEF Erasing
    <3>3. ~Live(maps[m])' /\ \A j \in Instances \ {maps[m]} : inst'[j] = inst[j]
      BY <2>2, <3>1 DEF TypeOK, Live
    <3>4. \A n \in MapIds \ {m} : maps[n] # None => maps[n] # maps[m] /\ maps[n] \in Instances
      BY <3>1 DEF EntriesApart, TypeOK
    <3>. QED
      BY <3>1, <3>2, <3>3, <3>4 DEF TableSound, EntriesApart, Live
  <2>. QED
    BY <1>1, <1>6, <2>1, <2>2, RemoveMapObjects
<1>7. CASE EraseMap
  <2>1. /\ maps'[mgr.id] = None /\ \A n \in MapIds \ {mgr.id} : maps'[n] = maps[n]
        /\ UNCHANGED inst
        /\ \A n \in MapIds : ~Erasing(n)' /\ (Erasing(n) <=> n = mgr.id)
    BY <1>7 DEF EraseMap, Erasing, TypeOK, ThreadsHold
  <2>2. \A i \in Instances : Live(i) => \E n \in MapIds : maps'[n] = i
    BY <2>1 DEF EntriesApart
  <2>3. \A n \in MapIds : maps'[n] # None => n # mgr.id /\ maps'[n] = maps[n]
    BY <2>1
  <2>. QED
    BY <2>1, <2>2, <2>3 DEF TableSound, EntriesApart, Live
<1>. QED
  BY <1>1, <1>2, <1>3, <1>4, <1>5, <1>6, <1>7 DEF Loud

-----------------------------------------------------------------------------
(* The current map *)

LEMMA CurrentNext ==
  ASSUME IInv, [Next]_vars
  PROVE  CurrentMapLists'
<1>. USE DEF IInv
<1>1. AllCounted /\ AllCounted' /\ (Calm \/ Loud)
  BY CountedObjects, StepKinds DEF TypeOK
<1>2. \A q \in Players : current[q] # None => current[q] \in Instances
  BY DEF TypeOK
<1>3. CASE Calm
  BY <1>2, <1>3 DEF Calm, Kept, CurrentMapLists
<1>4. CASE OnEnter /\ alive'
  <2>1. /\ Kept /\ Live(game.map)
        /\ game.player \in inst'[game.map].listed
    BY <1>1, <1>4, OnEnterObjects
  <2>2. /\ game.map \in Instances /\ game.player \in Players
        /\ UNCHANGED evicted
        /\ current' = [current EXCEPT ![game.player] = game.map]
    BY <1>4 DEF OnEnter, Undefined, ThreadsHold
  <2>3. ASSUME NEW q \in Players, ~evicted, current'[q] # None
        PROVE  Live(current[q])' /\ q \in inst'[current'[q]].listed
    <3>1. CASE q = game.player
      BY <2>1, <2>2, <3>1 DEF Kept, TypeOK, Live
    <3>2. CASE q # game.player
      BY <1>2, <2>1, <2>2, <2>3, <3>2 DEF Kept, TypeOK, CurrentMapLists, Live
    <3>. QED
      BY <3>1, <3>2
  <2>. QED
    BY <2>2, <2>3 DEF CurrentMapLists
<1>5. ASSUME NEW p \in Players, Disconnect(p), alive' PROVE CurrentMapLists'
  <2>1. \A i \in Instances : /\ Live(i)' <=> Live(i)
                             /\ Live(i) => inst[i].listed \ {p} \subseteq inst'[i].listed
    BY <1>1, <1>5, DisconnectObjects
  <2>2. UNCHANGED evicted /\ current' = [current EXCEPT ![p] = None]
    BY <1>5 DEF Disconnect, Undefined
  <2>3. \A q \in Players : current'[q] # None => q # p /\ current'[q] = current[q]
    BY <2>2 DEF TypeOK
  <2>4. ASSUME NEW q \in Players, ~evicted, current'[q] # None
        PROVE  Live(current[q])' /\ q \in inst'[current'[q]].listed
    <3>1. /\ q # p /\ current'[q] = current[q] /\ current[q] \in Instances
          /\ Live(current[q]) /\ q \in inst[current[q]].listed
      BY <1>2, <2>3, <2>4 DEF CurrentMapLists
    <3>2. PICK i \in Instances : i = current[q]
      BY <3>1
    <3>3. inst'[i] # None /\ inst[i].listed \ {p} \subseteq inst'[i].listed
      BY <2>1, <3>1, <3>2 DEF Live
    <3>4. q \in inst[i].listed \ {p}
      BY <3>1, <3>2
    <3>5. q \in inst'[i].listed
      BY <3>3, <3>4
    <3>. QED
      BY <3>1, <3>2, <3>3, <3>5 DEF Live
  <2>. QED
    BY <2>2, <2>4 DEF CurrentMapLists
<1>6. ASSUME NEW p \in Players, NEW m \in MapIds, NEW i \in Instances, CreateMap(p, m, i)
      PROVE  CurrentMapLists'
  <2>1. ~Live(i) /\ \A j \in Instances \ {i} : inst'[j] = inst[j]
    BY <1>1, <1>6, CreateMapObjects
  <2>2. UNCHANGED <<current, evicted>>
    BY <1>6 DEF CreateMap
  <2>. QED
    BY <1>2, <2>1, <2>2 DEF CurrentMapLists, Live
<1>7. CASE RemoveMap
  <2>1. CASE UNCHANGED inst /\ UNCHANGED mgr
    BY <1>7, <2>1 DEF RemoveMap, CurrentMapLists, Live
  <2>2. ASSUME NEW m \in MapIds, maps[m] \in Instances, mgr' = [pc |-> "Erase", id |-> m],
               inst' = [inst EXCEPT ![maps[m]] = None]
        PROVE  CurrentMapLists'
    <3>1. mgr' # mgr
      BY <1>7, <2>2 DEF RemoveMap
    <3>2. /\ UNCHANGED current
          /\ evicted' = (evicted \/ \E p \in Players : current[p] = maps[Head(destroyQ)])
          /\ mgr' = [pc |-> "Erase", id |-> Head(destroyQ)]
      BY <1>7, <3>1 DEF RemoveMap
    <3>3. Head(destroyQ) = m
      BY <2>2, <3>2
    <3>4. \A j \in Instances \ {maps[m]} : inst'[j] = inst[j]
      BY <2>2 DEF TypeOK
    <3>. QED
      BY <1>2, <3>2, <3>3, <3>4 DEF CurrentMapLists, Live
  <2>. QED
    BY <1>1, <1>7, <2>1, <2>2, RemoveMapObjects
<1>8. CASE EraseMap
  BY <1>8 DEF EraseMap, CurrentMapLists, Live
<1>. QED
  BY <1>1, <1>3, <1>4, <1>5, <1>6, <1>7, <1>8 DEF Loud

-----------------------------------------------------------------------------
(* Types and threads *)

Worker == [pc : {"Idle", "Update", "Send", "Request", "Push"}, map : Instances \cup {None}]

\* A busy worker keeps the map of its task.
LEMMA WorkersNext ==
  ASSUME worker \in [Workers -> Worker], NEW w \in Workers, WorkerStep(w),
         \A v \in Workers : worker[v].pc # "Idle" => worker[v].map \in Instances
  PROVE  /\ worker' \in [Workers -> Worker]
         /\ \A v \in Workers : worker'[v].pc # "Idle" => worker'[v].map \in Instances
<1>1. SUFFICES ASSUME NEW t \in Worker, worker' = [worker EXCEPT ![w] = t],
                      t.pc # "Idle" => t.map \in Instances
               PROVE  /\ worker' \in [Workers -> Worker]
                      /\ \A v \in Workers : worker'[v].pc # "Idle" => worker'[v].map \in Instances
  <2>. DEFINE Goes(t) == /\ t \in Worker
                         /\ worker' = [worker EXCEPT ![w] = t]
                         /\ t.pc # "Idle" => t.map \in Instances
  <2>1. worker[w] \in Worker /\ (worker[w].pc # "Idle" => worker[w].map \in Instances)
    OBVIOUS
  <2>2. IdleWorker \in Worker /\ IdleWorker.pc = "Idle"
    BY DEF Worker, IdleWorker
  <2>3. ASSUME NEW c \in {"Update", "Send", "Request", "Push"}, worker[w].pc # "Idle"
        PROVE  /\ [worker[w] EXCEPT !.pc = c] \in Worker
               /\ [worker[w] EXCEPT !.pc = c].map \in Instances
    BY <2>1, <2>3 DEF Worker
  <2>4. worker' = worker => Goes(worker[w])
    BY <2>1
  <2>5. worker' = [worker EXCEPT ![w] = IdleWorker] => Goes(IdleWorker)
    BY <2>2
  <2>6. ASSUME NEW c \in {"Update", "Send", "Request", "Push"}, worker[w].pc # "Idle",
               worker' = [worker EXCEPT ![w] = [@ EXCEPT !.pc = c]]
        PROVE  Goes([worker[w] EXCEPT !.pc = c])
    BY <2>3, <2>6
  <2>7. ASSUME NEW i \in Instances, worker' = [worker EXCEPT ![w] = [pc |-> "Update", map |-> i]]
        PROVE  Goes([pc |-> "Update", map |-> i])
    BY <2>7 DEF Worker
  <2>. QED
    <3>1. ASSUME NEW i \in Instances, RunTask(w, i) PROVE \E t : Goes(t)
      BY <2>7, <3>1 DEF RunTask
    <3>2. CASE Update(w)
      BY <2>4, <2>6, <3>2 DEF Update, Undefined
    <3>3. CASE SendMapInfo(w)
      BY <2>4, <2>5, <3>3 DEF SendMapInfo, Undefined
    <3>4. CASE TestRequest(w)
      BY <2>4, <2>5, <2>6, <3>4 DEF TestRequest, Undefined
    <3>5. CASE RequestDestroy(w)
      BY <2>4, <2>5, <3>5 DEF RequestDestroy, Undefined
    <3>. QED
      BY <3>1, <3>2, <3>3, <3>4, <3>5 DEF WorkerStep
<1>. QED
  BY <1>1

LEMMA ThreadsNext ==
  ASSUME TypeOK, ThreadsHold, [Next]_vars
  PROVE  ThreadsHold'
<1>. USE DEF TypeOK, ThreadsHold
<1>1. ASSUME NEW p \in Players, Login(p) PROVE ThreadsHold'
  BY <1>1 DEF Login
<1>2. ASSUME NEW p \in Players, Disconnect(p) PROVE ThreadsHold'
  <2>1. UNCHANGED <<maps, game, mgr, worker>>
    BY <1>2 DEF Disconnect, Undefined
  <2>. QED
    BY <2>1
<1>3. ASSUME NEW p \in Players, EnterNoMap(p) PROVE ThreadsHold'
  BY <1>3 DEF EnterNoMap, Undefined
<1>4. ASSUME NEW p \in Players, NEW m \in MapIds, FindMap(p, m) PROVE ThreadsHold'
  BY <1>4 DEF FindMap
<1>5. ASSUME NEW p \in Players, NEW m \in MapIds, NEW i \in Instances, CreateMap(p, m, i)
      PROVE  ThreadsHold'
  BY <1>5, MapAssumption DEF CreateMap
<1>6. CASE SetCallback
  BY <1>6 DEF SetCallback, Undefined
<1>7. CASE OnEnter
  <2>1. UNCHANGED <<maps, mgr, worker>> /\ (game' = game \/ game' = IdleGame)
    BY <1>7 DEF OnEnter, Undefined
  <2>. QED
    BY <2>1 DEF IdleGame
<1>8. CASE SubmitUpdates
  BY <1>8 DEF SubmitUpdates
<1>9. CASE RemoveMap
  BY <1>9 DEF RemoveMap
<1>10. CASE EraseMap
  BY <1>10 DEF EraseMap
<1>11. CASE Sleep
  BY <1>11 DEF Sleep
<1>12. ASSUME NEW w \in Workers, WorkerStep(w) PROVE ThreadsHold'
  <2>1. UNCHANGED <<maps, game, mgr>>
    BY <1>12 DEF WorkerStep, RunTask, Update, SendMapInfo, TestRequest, RequestDestroy, Undefined
  <2>2. \A v \in Workers : worker'[v].pc # "Idle" => worker'[v].map \in Instances
    BY <1>12, WorkersNext DEF Worker
  <2>. QED
    BY <2>1, <2>2
<1>13. ASSUME NEW i \in Instances, Elapse(i) PROVE ThreadsHold'
  BY <1>13 DEF Elapse
<1>14. CASE UNCHANGED vars
  BY <1>14 DEF vars
<1>. QED
  BY <1>1, <1>2, <1>3, <1>4, <1>5, <1>6, <1>7, <1>8, <1>9, <1>10, <1>11, <1>12, <1>13, <1>14
     DEF Next, GameStep, ManagerStep

LEMMA TypeNext ==
  ASSUME IInv, [Next]_vars
  PROVE  TypeOK'
<1>. USE DEF TypeOK
<1>1. TypeOK /\ ThreadsHold /\ AllCounted' /\ inst' \in [Instances -> Instance \cup {None}]
  BY CountedObjects, StepKinds DEF IInv, AllCounted
<1>2. ASSUME NEW p \in Players, Login(p) PROVE TypeOK'
  BY <1>1, <1>2 DEF Login
<1>3. ASSUME NEW p \in Players, Disconnect(p) PROVE TypeOK'
  <2>1. /\ UNCHANGED <<maps, destroyQ, game, mgr, worker, pending, evicted>>
        /\ online' \subseteq online
        /\ current' = current \/ current' = [current EXCEPT ![p] = None]
        /\ alive' \in BOOLEAN
    BY <1>1, <1>3 DEF Disconnect, Undefined
  <2>. QED
    BY <1>1, <2>1
<1>4. ASSUME Undefined PROVE TypeOK'
  BY <1>1, <1>4 DEF Undefined
<1>5. ASSUME NEW p \in Players, EnterNoMap(p) PROVE TypeOK'
  BY <1>4, <1>5 DEF EnterNoMap
<1>6. ASSUME NEW p \in Players, NEW m \in MapIds, FindMap(p, m) PROVE TypeOK'
  BY <1>1, <1>6 DEF FindMap
<1>7. ASSUME NEW p \in Players, NEW m \in MapIds, NEW i \in Instances, CreateMap(p, m, i)
      PROVE  TypeOK'
  BY <1>1, <1>7 DEF CreateMap
<1>8. CASE SetCallback
  BY <1>1, <1>4, <1>8 DEF SetCallback
<1>9. CASE OnEnter
  <2>1. CASE Undefined
    BY <1>4, <2>1
  <2>2. CASE ~Undefined
    <3>1. game' = IdleGame /\ current' = [current EXCEPT ![game.player] = game.map]
          /\ game.map \in Instances
          /\ UNCHANGED <<maps, destroyQ, online, mgr, worker, pending, evicted, alive>>
      BY <1>1, <1>9, <2>2 DEF OnEnter, ThreadsHold
    <3>. QED
      BY <1>1, <3>1 DEF IdleGame
  <2>. QED
    BY <2>1, <2>2
<1>10. CASE SubmitUpdates
  <2>1. pending' \in [Instances -> Nat]
    <3>1. pending' = [i \in Instances |-> IF i \in Mapped THEN pending[i] + 1 ELSE pending[i]]
      BY <1>10 DEF SubmitUpdates
    <3>2. \A i \in Instances : (IF i \in Mapped THEN pending[i] + 1 ELSE pending[i]) \in Nat
      BY <1>1
    <3>. QED
      BY <3>1, <3>2
  <2>2. mgr' = [mgr EXCEPT !.pc = "Remove"]
    BY <1>10 DEF SubmitUpdates
  <2>. QED
    BY <1>1, <1>10, <2>1, <2>2 DEF SubmitUpdates
<1>11. CASE RemoveMap
  <2>1. Head(destroyQ) \in Nat /\ Tail(destroyQ) \in Seq(Nat)
    BY <1>1, <1>11 DEF RemoveMap
  <2>2. mgr' = mgr \/ mgr' = [pc |-> "Erase", id |-> Head(destroyQ)]
    BY <1>11 DEF RemoveMap
  <2>3. evicted' \in BOOLEAN
    BY <1>1, <1>11 DEF RemoveMap
  <2>. QED
    BY <1>1, <1>11, <2>1, <2>2, <2>3 DEF RemoveMap
<1>12. CASE EraseMap
  BY <1>1, <1>12 DEF EraseMap, ThreadsHold
<1>13. CASE Sleep
  BY <1>1, <1>13 DEF Sleep
<1>14. ASSUME NEW w \in Workers, WorkerStep(w) PROVE TypeOK'
  <2>1. worker' \in [Workers -> Worker]
    BY <1>1, <1>14, WorkersNext DEF ThreadsHold, Worker
  <2>2. UNCHANGED <<maps, current, online, game, mgr, evicted>> /\ alive' \in BOOLEAN
    BY <1>1, <1>14
       DEF WorkerStep, RunTask, Update, SendMapInfo, TestRequest, RequestDestroy, Undefined
  <2>3. pending' \in [Instances -> Nat]
    BY <1>1, <1>14
       DEF WorkerStep, RunTask, Update, SendMapInfo, TestRequest, RequestDestroy, Undefined
  <2>4. destroyQ' \in Seq(Nat)
    <3>1. CASE RequestDestroy(w)
      <4>1. CASE UNCHANGED destroyQ
        BY <1>1, <4>1
      <4>2. CASE Live(worker[w].map) /\ destroyQ' = Append(destroyQ, inst[worker[w].map].id)
        <5>1. inst[worker[w].map].id \in Nat
          BY <1>1, <3>1, <4>2 DEF RequestDestroy, ThreadsHold, Live, Instance
        <5>. QED
          BY <1>1, <4>2, <5>1
      <4>. QED
        BY <3>1, <4>1, <4>2 DEF RequestDestroy, Undefined
    <3>2. CASE UNCHANGED destroyQ
      BY <1>1, <3>2
    <3>. QED
      BY <1>14, <3>1, <3>2
         DEF WorkerStep, RunTask, Update, SendMapInfo, TestRequest, Undefined
  <2>. QED
    BY <1>1, <2>1, <2>2, <2>3, <2>4 DEF Worker
<1>15. ASSUME NEW i \in Instances, Elapse(i) PROVE TypeOK'
  BY <1>1, <1>15 DEF Elapse
<1>16. CASE UNCHANGED vars
  BY <1>1, <1>16 DEF vars
<1>. QED
  BY <1>2, <1>3, <1>5, <1>6, <1>7, <1>8, <1>9, <1>10, <1>11, <1>12, <1>13, <1>14, <1>15, <1>16
     DEF Next, GameStep, ManagerStep

-----------------------------------------------------------------------------
(* The theorems *)

LEMMA InitIInv == Init => IInv
<1>. SUFFICES ASSUME Init PROVE IInv
  OBVIOUS
<1>1. TypeOK
  <2>1. game \in [pc : {"Idle", "Callback", "Enter"}, player : Players \cup {None},
                  map : Instances \cup {None}]
    BY DEF Init, IdleGame
  <2>2. mgr \in [pc : {"Submit", "Remove", "Erase"}, id : Nat]
    BY DEF Init
  <2>3. worker \in [Workers -> Worker]
    BY DEF Init, IdleWorker, Worker
  <2>4. /\ maps \in [MapIds -> Instances \cup {None}]
        /\ inst \in [Instances -> Instance \cup {None}]
        /\ current \in [Players -> Instances \cup {None}]
        /\ pending \in [Instances -> Nat]
    BY DEF Init
  <2>5. destroyQ \in Seq(Nat) /\ online \subseteq Players
    BY DEF Init
  <2>6. evicted \in BOOLEAN /\ alive \in BOOLEAN
    BY DEF Init
  <2>. QED
    BY <2>1, <2>2, <2>3, <2>4, <2>5, <2>6 DEF TypeOK, Worker
<1>2. ThreadsHold
  BY DEF Init, ThreadsHold, IdleGame, IdleWorker
<1>3. ListsFinite /\ CountIsSize
  BY DEF Init, ListsFinite, CountIsSize, Live
<1>4. TableSound /\ EntriesApart /\ CurrentMapLists
  BY DEF Init, TableSound, EntriesApart, CurrentMapLists, Live
<1>. QED
  BY <1>1, <1>2, <1>3, <1>4 DEF IInv

LEMMA NextIInv == IInv /\ [Next]_vars => IInv'
<1>. SUFFICES ASSUME IInv, [Next]_vars PROVE IInv'
  OBVIOUS
<1>1. ListsFinite' /\ CountIsSize'
  <2>1. AllCounted'
    BY CountedObjects, StepKinds DEF IInv, TypeOK
  <2>. QED
    BY <2>1 DEF AllCounted, Counted, Live, ListsFinite, CountIsSize
<1>. QED
  BY <1>1, TypeNext, ThreadsNext, TableNext, CurrentNext DEF IInv

\* The inductive invariant holds in every reachable state.
THEOREM InductiveInvariant == Spec => []IInv
BY InitIInv, NextIInv, PTL DEF Spec

\* The variables keep their types: m_playerCount never runs below zero.
THEOREM TypeCorrect == Spec => []TypeOK
<1>1. IInv => TypeOK
  BY DEF IInv
<1>. QED
  BY <1>1, InductiveInvariant, PTL

\* OnEnter, OnLeave and the disconnect keep m_playerCount equal to the size of
\* m_playerList, and m_has_player raised while somebody is in the map.
THEOREM CountCorrect == Spec => []CountIsSize
<1>1. IInv => CountIsSize
  BY DEF IInv
<1>. QED
  BY <1>1, InductiveInvariant, PTL

\* GetOrCreate and RemoveMap: an entry of m_maps is a live map made for its id, outside
\* the two statements of the deletion, and no live map is lost from the table.
THEOREM TableCorrect == Spec => []TableSound
<1>1. IInv => TableSound
  BY DEF IInv
<1>. QED
  BY <1>1, InductiveInvariant, PTL

\* RemoveMap and GetOrCreate: an address used again before its old entry is erased is the
\* only reason for two entries to lead to one object.
THEOREM EntriesCorrect == Spec => []EntriesApart
<1>1. IInv => EntriesApart
  BY DEF IInv
<1>. QED
  BY <1>1, InductiveInvariant, PTL

\* Until a map is deleted under a player, every current map is live and lists its player.
THEOREM CurrentCorrect == Spec => []CurrentMapLists
<1>1. IInv => CurrentMapLists
  BY DEF IInv
<1>. QED
  BY <1>1, InductiveInvariant, PTL
=============================================================================
