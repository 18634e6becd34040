--------------------------- MODULE BuffersProofs ----------------------------
(***************************************************************************)
(* However many cores share a device and in whatever order they come and   *)
(* go, a buffer is created once and lasts until its last user has left     *)
(* (the reference count counts the users to come as well), and an access   *)
(* to its contents is exact, inside the buffer and past its end.           *)
(***************************************************************************)
EXTENDS Buffers, FiniteSetTheorems, TLAPS

\* The cores that enter, or will enter, the scope of a buffer.
Users(k) == IF k.space = "hbm" THEN Cores ELSE {k.core}

\* Core c has made its call of allocate_buffer for id.
Passed(c, id) == id < next_buffer_id[c] /\ ~(pc[c] = "allocate" /\ buffer_id[c] = id)

\* Before the kernel all cores are in step and in no scope; in the kernel a core
\* allocates the ids past those of the setup one after the other.
Steps ==
    /\ ~running => \A c \in Cores :
          pc[c] = "run" /\ next_buffer_id[c] = next_buffer_id[0] /\ next_buffer_id[c] <= NumSetup + 1
    /\ running => \A c \in Cores : next_buffer_id[c] > NumSetup
    /\ \A c \in Cores : pc[c] = "allocate" =>
          /\ running /\ buffer_id[c] \in Ids /\ buffer_id[c] > NumSetup
          /\ next_buffer_id[c] = buffer_id[c] + 1

\* A buffer is created when the first core passes it, and once.
CreatedOnce ==
    \A k \in Keys :
        /\ created[k] \in {0, 1}
        /\ created[k] = 1 => \E c \in Cores : k = KeyOf(c, k.id) /\ Passed(c, k.id)
        /\ created[k] = 0 => left[k] = {} /\ k \notin mem

\* A buffer is in memory, and its reference count the number of its users that
\* have not left, until there is none.
Counted ==
    \A k \in Keys :
        /\ left[k] \subseteq Users(k)
        /\ created[k] = 1 => (k \in mem <=> Users(k) \ left[k] # {})
        /\ k \in mem => ref_count[k] = Cardinality(Users(k) \ left[k])

\* A core is in the scope of buffers that it passed and has not left, and it
\* leaves none that it has not entered.
Scoped ==
    /\ \A c \in Cores : \A k \in scope[c] :
          k.id \in Ids /\ k = KeyOf(c, k.id) /\ Passed(c, k.id) /\ c \notin left[k] /\ created[k] = 1
    /\ \A c \in Cores : \A id \in Ids : c \in left[KeyOf(c, id)] => Passed(c, id)

AllocationInv == TypeOK /\ Steps /\ CreatedOnce /\ Counted /\ Scoped

-----------------------------------------------------------------------------

\* The constants, in the form the provers use them.
LEMMA Constants ==
    /\ num_cores_per_device \in Nat /\ num_cores_per_device > 0 /\ Len(Spaces) \in Nat
    /\ NumSetup \in Nat /\ NumSetup <= Len(Spaces) /\ 0 \in Cores /\ Cores \subseteq Nat
    /\ \A id \in Ids : id \in Nat /\ Spaces[id] \in {"hbm", "vmem"}
  BY AllocationAssumption DEF Cores, Ids

\* The key of a core's buffer names the buffer, and the core is one of its users.
LEMMA KeyFacts ==
    ASSUME NEW c \in Cores, NEW id \in Ids
    PROVE  /\ KeyOf(c, id) \in Keys /\ KeyOf(c, id).id = id /\ c \in Users(KeyOf(c, id))
           /\ KeyOf(c, id).space = Spaces[id]
  BY Constants DEF KeyOf, Keys, Users

\* There are finitely many users, and a buffer starts with a reference of each.
LEMMA UserCount ==
    /\ \A k \in Keys : Users(k) \subseteq Cores /\ IsFiniteSet(Users(k))
                        /\ Cardinality(Users(k)) <= num_cores_per_device
    /\ \A c \in Cores, id \in Ids : InitialRefCount(id) = Cardinality(Users(KeyOf(c, id)))
<1>1. num_cores_per_device - 1 \in Int /\ 0 \in Int
  BY Constants
<1>2. IsFiniteSet(Cores) /\ Cardinality(Cores) = num_cores_per_device
  <2>1. /\ IsFiniteSet(0 .. (num_cores_per_device - 1))
        /\ Cardinality(0 .. (num_cores_per_device - 1)) =
              IF 0 > num_cores_per_device - 1 THEN 0 ELSE num_cores_per_device - 1 - 0 + 1
    BY <1>1, FS_Interval
  <2> QED
    BY <2>1, Constants DEF Cores
<1>3. ASSUME NEW k \in Keys
      PROVE  /\ Users(k) \subseteq Cores /\ IsFiniteSet(Users(k))
             /\ Cardinality(Users(k)) <= num_cores_per_device
  <2>1. k.core \in Cores /\ IsFiniteSet({k.core}) /\ Cardinality({k.core}) = 1
    BY FS_Singleton DEF Keys
  <2>2. CASE k.space = "hbm"
    BY <1>2, <2>2, Constants DEF Users
  <2>3. CASE k.space # "hbm"
    BY <2>1, <2>3, Constants DEF Users
  <2> QED
    BY <2>2, <2>3
<1>4. ASSUME NEW c \in Cores, NEW id \in Ids
      PROVE  InitialRefCount(id) = Cardinality(Users(KeyOf(c, id)))
  <2>1. CASE Spaces[id] = "hbm"
    BY <1>2, <2>1, KeyFacts DEF Users, InitialRefCount
  <2>2. CASE Spaces[id] # "hbm"
    <3>1. Users(KeyOf(c, id)) = {KeyOf(c, id).core}
      BY <2>2, KeyFacts DEF Users
    <3>2. Cardinality({KeyOf(c, id).core}) = 1
      BY FS_Singleton
    <3> QED
      BY <2>2, <3>1, <3>2 DEF InitialRefCount
  <2> QED
    BY <2>1, <2>2
<1> QED
  BY <1>3, <1>4

\* The number of users that have not left is what a reference count may be.
LEMMA UsersLeft ==
    ASSUME NEW k \in Keys, NEW gone, Users(k) \ gone # {}
    PROVE  /\ IsFiniteSet(Users(k) \ gone)
           /\ Cardinality(Users(k) \ gone) \in 1 .. num_cores_per_device
<1>1. (Users(k) \ gone) \in SUBSET Users(k) /\ IsFiniteSet(Users(k))
      /\ Cardinality(Users(k)) <= num_cores_per_device
  BY UserCount
<1>2. /\ IsFiniteSet(Users(k) \ gone)
      /\ Cardinality(Users(k) \ gone) <= Cardinality(Users(k))
  BY <1>1, FS_Subset
<1>3. Cardinality(Users(k) \ gone) # 0
  BY <1>2, FS_EmptySet
<1>4. Cardinality(Users(k) \ gone) \in Nat /\ Cardinality(Users(k)) \in Nat
  BY <1>1, <1>2, FS_CardinalityType
<1> QED
  BY <1>1, <1>2, <1>3, <1>4, Constants

\* The invariant holds before anything is allocated.
LEMMA AllocationInit == Init => AllocationInv
<1> SUFFICES ASSUME Init PROVE AllocationInv
  OBVIOUS
<1>1. mem = {}
  BY DEF Init, mem
<1>2. TypeOK
  BY <1>1, Constants DEF Init, TypeOK
<1>3. Steps
  BY Constants DEF Init, Steps
<1>4. CreatedOnce /\ Counted
  BY <1>1 DEF Init, CreatedOnce, Counted
<1>5. Scoped
  BY KeyFacts DEF Init, Scoped
<1> QED
  BY <1>2, <1>3, <1>4, <1>5 DEF AllocationInv

\* The device's thread allocates the next buffer for all cores: none of them
\* has passed its id.
LEMMA SetupStep ==
    ASSUME AllocationInv, AllocateForAllCores
    PROVE  AllocationInv'
<1>p. PICK id \in Ids : id = next_buffer_id[0]
  <2>1. next_buffer_id[0] \in 1 .. (Len(Spaces) + 1) /\ next_buffer_id[0] <= NumSetup
    BY Constants DEF AllocationInv, TypeOK, AllocateForAllCores
  <2>2. next_buffer_id[0] \in Ids
    BY <2>1, Constants DEF Ids
  <2> QED
    BY <2>2
<1> DEFINE new == {KeyOf(c, id) : c \in Cores}
<1>0. /\ next_buffer_id \in [Cores -> 1 .. (Len(Spaces) + 1)] /\ mem \subseteq Keys
      /\ \A c \in Cores : pc[c] = "run"
  BY DEF AllocationInv, TypeOK, Steps, AllocateForAllCores
<1>1. /\ ~running /\ id <= NumSetup /\ \A c \in Cores : next_buffer_id[c] = id
      /\ next_buffer_id' = [c \in Cores |-> id + 1]
      /\ ref_count' = [k \in mem \cup new |-> IF k \in new THEN InitialRefCount(id)
                                               ELSE ref_count[k]]
      /\ created' = [k \in Keys |-> IF k \in new THEN created[k] + 1 ELSE created[k]]
      /\ UNCHANGED <<running, pc, buffer_id, scope, left>>
  BY <1>p DEF AllocateForAllCores
<1>2. new \subseteq Keys
  BY KeyFacts
<1>3. \A k \in new : created[k] = 0 /\ left[k] = {} /\ created'[k] = 1
  <2> SUFFICES ASSUME NEW k \in new PROVE created[k] = 0 /\ left[k] = {} /\ created'[k] = 1
    OBVIOUS
  <2>1. k \in Keys /\ k.id = id
    BY <1>2, KeyFacts
  <2>2. \A c \in Cores : ~Passed(c, id)
    BY <1>0, <1>1, Constants DEF Passed
  <2>3. created[k] = 0 /\ left[k] = {}
    BY <2>1, <2>2 DEF AllocationInv, CreatedOnce
  <2> QED
    BY <1>1, <2>1, <2>3
<1>4. \A k \in Keys : k \notin new => created'[k] = created[k]
  BY <1>1
<1>5. mem' = mem \cup new
  BY <1>1 DEF mem
<1>6. \A c \in Cores, i \in Ids : Passed(c, i) => Passed(c, i)'
  BY <1>0, <1>1, Constants DEF Passed
<1>7. \A c \in Cores : Passed(c, id)'
  <2>1. id \in Nat /\ \A c \in Cores : next_buffer_id'[c] = id + 1 /\ pc'[c] = "run"
    BY <1>0, <1>1, Constants
  <2> QED
    BY <2>1 DEF Passed
<1>8. \A k \in new : ref_count'[k] = Cardinality(Users(k)) /\ Users(k) # {}
  <2> SUFFICES ASSUME NEW c \in Cores
               PROVE  /\ ref_count'[KeyOf(c, id)] = Cardinality(Users(KeyOf(c, id)))
                      /\ Users(KeyOf(c, id)) # {}
    OBVIOUS
  <2>1. InitialRefCount(id) = Cardinality(Users(KeyOf(c, id))) /\ Users(KeyOf(c, id)) # {}
    BY <1>2, UserCount, KeyFacts
  <2>2. ref_count'[KeyOf(c, id)] = InitialRefCount(id)
    BY <1>1
  <2> QED
    BY <2>1, <2>2
<1>9. \A k \in mem : k \notin new => ref_count'[k] = ref_count[k]
  BY <1>1
<1> HIDE DEF new
<1>10. TypeOK'
  <2>1. next_buffer_id' \in [Cores -> 1 .. (Len(Spaces) + 1)]
    <3>1. id + 1 \in 1 .. (Len(Spaces) + 1)
      BY <1>2, Constants DEF Ids
    <3> QED
      BY <1>1, <3>1
  <2>2. created' \in [Keys -> Nat]
    BY <1>1 DEF AllocationInv, TypeOK
  <2>3. \A k \in mem' : ref_count'[k] \in 1 .. num_cores_per_device
    <3>1. ASSUME NEW k \in new PROVE ref_count'[k] \in 1 .. num_cores_per_device
      <4>1. Users(k) \ {} = Users(k) /\ k \in Keys
        BY <1>2
      <4> QED
        BY <1>8, <4>1, UsersLeft
    <3> QED
      BY <1>5, <1>9, <3>1 DEF AllocationInv, TypeOK
  <2>4. mem' \subseteq Keys
    BY <1>0, <1>2, <1>5
  <2> QED
    BY <1>1, <2>1, <2>2, <2>3, <2>4 DEF AllocationInv, TypeOK
<1>11. Steps'
  BY <1>0, <1>1, <1>2, Constants DEF Steps, Ids
<1>12. CreatedOnce'
  <2> SUFFICES ASSUME NEW k \in Keys
               PROVE  /\ created'[k] \in {0, 1}
                      /\ created'[k] = 1 => \E c \in Cores : k = KeyOf(c, k.id) /\ Passed(c, k.id)'
                      /\ created'[k] = 0 => left'[k] = {} /\ k \notin mem'
    BY DEF CreatedOnce
  <2>0. k.id \in Ids
    BY DEF Keys
  <2>1. CASE k \in new
    <3>1. PICK c \in Cores : k = KeyOf(c, id)
      BY <2>1 DEF new
    <3>2. k.id = id
      BY <3>1, KeyFacts
    <3> QED
      BY <1>3, <1>7, <2>1, <3>1, <3>2
  <2>2. CASE k \notin new
    BY <1>1, <1>4, <1>5, <1>6, <2>0, <2>2 DEF AllocationInv, CreatedOnce
  <2> QED
    BY <2>1, <2>2
<1>13. Counted'
  <2> SUFFICES ASSUME NEW k \in Keys
               PROVE  /\ left'[k] \subseteq Users(k)
                      /\ created'[k] = 1 => (k \in mem' <=> Users(k) \ left'[k] # {})
                      /\ k \in mem' => ref_count'[k] = Cardinality(Users(k) \ left'[k])
    BY DEF Counted
  <2>1. CASE k \in new
    <3>1. Users(k) \ left'[k] = Users(k) /\ left'[k] = {}
      BY <1>1, <1>3, <2>1
    <3> QED
      BY <1>5, <1>8, <2>1, <3>1
  <2>2. CASE k \notin new
    BY <1>1, <1>4, <1>5, <1>9, <2>2 DEF AllocationInv, Counted
  <2> QED
    BY <2>1, <2>2
<1>14. Scoped'
  <2>1. \A c \in Cores : \A k \in scope[c] : k \in Keys /\ k \notin new
    BY <1>3 DEF AllocationInv, TypeOK, Scoped
  <2> QED
    BY <1>1, <1>4, <1>6, <2>1 DEF AllocationInv, Scoped
<1> QED
  BY <1>10, <1>11, <1>12, <1>13, <1>14 DEF AllocationInv

\* The kernel starts when the setup is done.
LEMMA StartStep ==
    ASSUME AllocationInv, StartKernel
    PROVE  AllocationInv'
<1>1. /\ ~running /\ next_buffer_id[0] = NumSetup + 1 /\ running' = TRUE
      /\ UNCHANGED <<next_buffer_id, ref_count, pc, buffer_id, scope, left, created>>
  BY DEF StartKernel
<1>2. mem' = mem /\ \A c, id : Passed(c, id)' = Passed(c, id)
  BY <1>1 DEF mem, Passed
<1>3. TypeOK'
  BY <1>1, <1>2 DEF AllocationInv, TypeOK
<1>4. Steps'
  BY <1>1, Constants DEF AllocationInv, Steps
<1>5. CreatedOnce' /\ Counted' /\ Scoped'
  BY <1>1, <1>2 DEF AllocationInv, CreatedOnce, Counted, Scoped
<1> QED
  BY <1>3, <1>4, <1>5 DEF AllocationInv

\* A core takes its next id and has not passed it yet.
LEMMA NextIdStep ==
    ASSUME AllocationInv, NEW c \in Cores, get_next_buffer_id(c)
    PROVE  AllocationInv'
<1>0. /\ next_buffer_id \in [Cores -> 1 .. (Len(Spaces) + 1)]
      /\ buffer_id \in [Cores -> 0 .. Len(Spaces)] /\ DOMAIN pc = Cores
  BY DEF AllocationInv, TypeOK
<1>1. /\ running /\ pc[c] = "run" /\ next_buffer_id[c] <= Len(Spaces)
      /\ buffer_id' = [buffer_id EXCEPT ![c] = next_buffer_id[c]]
      /\ next_buffer_id' = [next_buffer_id EXCEPT ![c] = next_buffer_id[c] + 1]
      /\ pc' = [pc EXCEPT ![c] = "allocate"]
      /\ UNCHANGED <<ref_count, running, scope, left, created>>
  BY DEF get_next_buffer_id
<1>2. next_buffer_id[c] \in Ids /\ next_buffer_id[c] > NumSetup
  BY <1>0, <1>1, Constants DEF AllocationInv, Steps, Ids
<1>3. mem' = mem
  BY <1>1 DEF mem
<1>4. \A d \in Cores, id \in Ids : Passed(d, id) => Passed(d, id)'
  <2> SUFFICES ASSUME NEW d \in Cores, NEW id \in Ids, Passed(d, id) PROVE Passed(d, id)'
    OBVIOUS
  <2>1. id \in Nat /\ id < next_buffer_id[d]
    BY Constants DEF Passed
  <2>2. CASE d = c
    BY <1>0, <1>1, <2>1, <2>2 DEF Passed
  <2>3. CASE d # c
    BY <1>0, <1>1, <2>3 DEF Passed
  <2> QED
    BY <2>2, <2>3
<1>5. TypeOK'
  <2>1. next_buffer_id[c] \in 0 .. Len(Spaces) /\ next_buffer_id[c] + 1 \in 1 .. (Len(Spaces) + 1)
    BY <1>2, Constants DEF Ids
  <2> QED
    BY <1>1, <1>3, <2>1 DEF AllocationInv, TypeOK
<1>6. Steps'
  <2>1. \A d \in Cores : next_buffer_id'[d] > NumSetup
    BY <1>0, <1>1, <1>2, Constants DEF AllocationInv, Steps
  <2>2. ASSUME NEW d \in Cores, pc'[d] = "allocate"
        PROVE  /\ buffer_id'[d] \in Ids /\ buffer_id'[d] > NumSetup
               /\ next_buffer_id'[d] = buffer_id'[d] + 1
    BY <1>0, <1>1, <1>2, <2>2 DEF AllocationInv, Steps
  <2> QED
    BY <1>1, <2>1, <2>2 DEF Steps
<1>7. CreatedOnce'
  <2>1. \A k \in Keys : k.id \in Ids
    BY DEF Keys
  <2> QED
    BY <1>1, <1>3, <1>4, <2>1 DEF AllocationInv, CreatedOnce
<1>8. Counted'
  BY <1>1, <1>3 DEF AllocationInv, Counted
<1>9. Scoped'
  BY <1>1, <1>4 DEF AllocationInv, Scoped
<1> QED
  BY <1>5, <1>6, <1>7, <1>8, <1>9 DEF AllocationInv

\* A core that allocates finds the buffer that a faster core made, or makes it:
\* it cannot have been freed, since the core itself has not left.
LEMMA AllocateStep ==
    ASSUME AllocationInv, NEW c \in Cores, allocate_buffer(c)
    PROVE  AllocationInv'
<1>p. PICK id \in Ids : id = buffer_id[c]
  BY DEF AllocationInv, Steps, allocate_buffer
<1> DEFINE k == KeyOf(c, id)
<1>0. /\ next_buffer_id \in [Cores -> 1 .. (Len(Spaces) + 1)]
      /\ DOMAIN pc = Cores /\ scope \in [Cores -> SUBSET Keys] /\ created \in [Keys -> Nat]
      /\ mem \subseteq Keys
  BY DEF AllocationInv, TypeOK
<1>1. /\ pc[c] = "allocate"
      /\ \/ /\ k \notin mem
            /\ ref_count' = Put(ref_count, k, InitialRefCount(id))
            /\ created' = [created EXCEPT ![k] = @ + 1]
         \/ k \in mem /\ UNCHANGED <<ref_count, created>>
      /\ scope' = [scope EXCEPT ![c] = @ \cup {k}]
      /\ pc' = [pc EXCEPT ![c] = "run"]
      /\ UNCHANGED <<next_buffer_id, running, buffer_id, left>>
  BY <1>p DEF allocate_buffer, MustCreate
<1>2. k \in Keys /\ k.id = id /\ c \in Users(k)
  BY KeyFacts
<1>3. ~Passed(c, id) /\ Passed(c, id)'
  <2>1. next_buffer_id[c] = id + 1 /\ id \in Nat
    BY <1>p, <1>1, Constants DEF AllocationInv, Steps
  <2>2. next_buffer_id'[c] = id + 1 /\ pc'[c] = "run"
    BY <1>0, <1>1, <2>1
  <2> QED
    BY <1>p, <1>1, <2>1, <2>2 DEF Passed
<1>4. \A d \in Cores, i \in Ids : Passed(d, i) => Passed(d, i)'
  BY <1>0, <1>1 DEF Passed
<1>5. c \notin left[k]
  BY <1>3 DEF AllocationInv, Scoped
<1>6. k \notin mem => created[k] = 0 /\ left[k] = {}
  BY <1>2, <1>5 DEF AllocationInv, CreatedOnce, Counted
<1>7. k \in mem => created[k] = 1
  BY <1>2 DEF AllocationInv, CreatedOnce
<1> HIDE DEF k
<1>8. created'[k] = 1 /\ \A j \in Keys : j # k => created'[j] = created[j]
  BY <1>0, <1>1, <1>2, <1>6, <1>7
<1>9. /\ mem' = mem \cup {k}
      /\ \A j \in mem : j # k => ref_count'[j] = ref_count[j]
  BY <1>1 DEF mem, Put
<1>10. ref_count'[k] = Cardinality(Users(k) \ left[k])
  <2>1. CASE k \in mem
    BY <1>1, <1>2, <2>1 DEF AllocationInv, Counted
  <2>2. CASE k \notin mem
    <3>1. Users(k) \ left[k] = Users(k)
      BY <1>6, <2>2
    <3>2. ref_count'[k] = InitialRefCount(id)
      BY <1>1, <2>2 DEF Put, mem
    <3>3. InitialRefCount(id) = Cardinality(Users(k))
      BY UserCount DEF k
    <3> QED
      BY <3>1, <3>2, <3>3
  <2> QED
    BY <2>1, <2>2
<1>11. TypeOK'
  <2>1. ref_count'[k] \in 1 .. num_cores_per_device
    BY <1>2, <1>5, <1>10, UsersLeft
  <2>2. mem' \subseteq Keys /\ \A j \in mem' : ref_count'[j] \in 1 .. num_cores_per_device
    BY <1>2, <1>9, <2>1 DEF AllocationInv, TypeOK
  <2>3. created' \in [Keys -> Nat]
    BY <1>0, <1>1
  <2>4. scope' \in [Cores -> SUBSET Keys]
    BY <1>0, <1>1, <1>2
  <2>5. pc' \in [Cores -> {"run", "allocate"}]
    BY <1>1 DEF AllocationInv, TypeOK
  <2> QED
    BY <1>1, <2>2, <2>3, <2>4, <2>5 DEF AllocationInv, TypeOK
<1>12. Steps'
  BY <1>0, <1>1 DEF AllocationInv, Steps
<1>13. CreatedOnce'
  <2>1. \A j \in Keys : j.id \in Ids
    BY DEF Keys
  <2>2. ASSUME NEW j \in Keys, j # k
        PROVE  /\ created'[j] \in {0, 1}
               /\ created'[j] = 1 => \E d \in Cores : j = KeyOf(d, j.id) /\ Passed(d, j.id)'
               /\ created'[j] = 0 => left'[j] = {} /\ j \notin mem'
    BY <1>1, <1>4, <1>8, <1>9, <2>1, <2>2 DEF AllocationInv, CreatedOnce
  <2>3. \E d \in Cores : k = KeyOf(d, k.id) /\ Passed(d, k.id)'
    BY <1>2, <1>3 DEF k
  <2> QED
    BY <1>8, <2>2, <2>3 DEF CreatedOnce
<1>14. Counted'
  <2>1. ASSUME NEW j \in Keys, j # k
        PROVE  /\ left'[j] \subseteq Users(j)
               /\ created'[j] = 1 => (j \in mem' <=> Users(j) \ left'[j] # {})
               /\ j \in mem' => ref_count'[j] = Cardinality(Users(j) \ left'[j])
    BY <1>1, <1>8, <1>9, <2>1 DEF AllocationInv, Counted
  <2>2. /\ left'[k] \subseteq Users(k) /\ k \in mem' /\ Users(k) \ left'[k] # {}
        /\ ref_count'[k] = Cardinality(Users(k) \ left'[k])
    BY <1>1, <1>2, <1>5, <1>9, <1>10 DEF AllocationInv, Counted
  <2> QED
    BY <2>1, <2>2 DEF Counted
<1>15. Scoped'
  <2>1. ASSUME NEW d \in Cores, NEW j \in scope'[d]
        PROVE  /\ j.id \in Ids /\ j = KeyOf(d, j.id) /\ Passed(d, j.id)'
               /\ d \notin left'[j] /\ created'[j] = 1
    <3>1. CASE j \in scope[d]
      BY <1>0, <1>1, <1>4, <1>8, <3>1 DEF AllocationInv, Scoped
    <3>2. CASE j \notin scope[d]
      <4>1. d = c /\ j = k
        BY <1>0, <1>1, <3>2
      <4>2. k = KeyOf(c, k.id)
        BY <1>2 DEF k
      <4> QED
        BY <1>1, <1>2, <1>3, <1>5, <1>8, <4>1, <4>2
    <3> QED
      BY <3>1, <3>2
  <2>2. \A d \in Cores, i \in Ids : d \in left'[KeyOf(d, i)] => Passed(d, i)'
    BY <1>1, <1>4 DEF AllocationInv, Scoped
  <2> QED
    BY <2>1, <2>2 DEF Scoped
<1> QED
  BY <1>11, <1>12, <1>13, <1>14, <1>15 DEF AllocationInv

\* A core that leaves takes its reference with it, and the buffer goes with the
\* last one.
LEMMA DeallocateStep ==
    ASSUME AllocationInv, NEW c \in Cores, NEW k \in scope[c], deallocate_buffer(c, k)
    PROVE  AllocationInv'
<1>0. /\ k \in Keys /\ mem \subseteq Keys /\ \A j \in mem : ref_count[j] \in Nat
      /\ scope \in [Cores -> SUBSET Keys] /\ left \in [Keys -> SUBSET Cores]
  BY DEF AllocationInv, TypeOK
<1>1. /\ k \in mem
      /\ \/ ref_count[k] = 1 /\ ref_count' = [x \in mem \ {k} |-> ref_count[x]]
         \/ ref_count[k] # 1 /\ ref_count' = [ref_count EXCEPT ![k] = @ - 1]
      /\ scope' = [scope EXCEPT ![c] = @ \ {k}]
      /\ left' = [left EXCEPT ![k] = @ \cup {c}]
      /\ UNCHANGED <<next_buffer_id, running, pc, buffer_id, created>>
  BY DEF deallocate_buffer, LastReference
<1>2. /\ k.id \in Ids /\ k = KeyOf(c, k.id) /\ Passed(c, k.id) /\ c \notin left[k]
      /\ created[k] = 1
  BY DEF AllocationInv, Scoped
<1>3. c \in Users(k)
  BY <1>2, KeyFacts
<1> DEFINE here == Users(k) \ left[k]
<1>4. /\ here # {} /\ IsFiniteSet(here) /\ Cardinality(here) \in 1 .. num_cores_per_device
      /\ c \in here /\ ref_count[k] = Cardinality(here)
  BY <1>0, <1>1, <1>2, <1>3, UsersLeft DEF AllocationInv, Counted
<1>5. Users(k) \ left'[k] = here \ {c}
  BY <1>0, <1>1
<1> HIDE DEF here
<1>6. IsFiniteSet(here \ {c}) /\ Cardinality(here \ {c}) = Cardinality(here) - 1
  BY <1>4, FS_RemoveElement
<1>7. Cardinality(here) = 1 <=> here \ {c} = {}
  <2>1. Cardinality(here \ {c}) = 0 <=> here \ {c} = {}
    BY <1>6, FS_EmptySet
  <2>2. Cardinality(here) \in Nat
    BY <1>4, Constants
  <2> QED
    BY <1>6, <2>1, <2>2
<1>8. \A d, id : Passed(d, id)' = Passed(d, id)
  BY <1>1 DEF Passed
<1>9. /\ mem' \subseteq mem
      /\ \A j \in mem : j # k => j \in mem' /\ ref_count'[j] = ref_count[j]
  BY <1>1 DEF mem
<1>10. \A j \in Keys : j # k => left'[j] = left[j]
  BY <1>0, <1>1
<1>11. /\ k \in mem' <=> here \ {c} # {}
       /\ k \in mem' => ref_count'[k] = Cardinality(here \ {c})
  BY <1>1, <1>4, <1>6, <1>7, Constants DEF mem
<1>12. TypeOK'
  <2>1. ref_count[k] \in 1 .. num_cores_per_device
    BY <1>1 DEF AllocationInv, TypeOK
  <2>2. k \in mem' => ref_count'[k] \in 1 .. num_cores_per_device
    BY <1>0, <1>5, <1>11, UsersLeft
  <2>3. mem' \subseteq Keys /\ \A j \in mem' : ref_count'[j] \in 1 .. num_cores_per_device
    BY <1>0, <1>9, <2>2 DEF AllocationInv, TypeOK
  <2>4. scope' \in [Cores -> SUBSET Keys] /\ left' \in [Keys -> SUBSET Cores]
    BY <1>0, <1>1
  <2> QED
    BY <1>1, <2>3, <2>4 DEF AllocationInv, TypeOK
<1>13. Steps'
  BY <1>1 DEF AllocationInv, Steps
<1>14. CreatedOnce'
  BY <1>0, <1>1, <1>2, <1>8, <1>9, <1>10 DEF AllocationInv, CreatedOnce
<1>15. Counted'
  <2>1. ASSUME NEW j \in Keys, j # k
        PROVE  /\ left'[j] \subseteq Users(j)
               /\ created'[j] = 1 => (j \in mem' <=> Users(j) \ left'[j] # {})
               /\ j \in mem' => ref_count'[j] = Cardinality(Users(j) \ left'[j])
    BY <1>1, <1>9, <1>10, <2>1 DEF AllocationInv, Counted
  <2>2. left'[k] \subseteq Users(k)
    BY <1>0, <1>1, <1>3 DEF AllocationInv, Counted
  <2> QED
    BY <1>5, <1>11, <2>1, <2>2 DEF Counted
<1>16. Scoped'
  <2>1. ASSUME NEW d \in Cores, NEW j \in scope'[d]
        PROVE  /\ j.id \in Ids /\ j = KeyOf(d, j.id) /\ Passed(d, j.id)'
               /\ d \notin left'[j] /\ created'[j] = 1
    <3>1. j \in scope[d] /\ j \in Keys /\ (d = c => j # k)
      BY <1>0, <1>1
    <3>2. d \notin left'[j]
      BY <1>0, <1>1, <1>10, <3>1 DEF AllocationInv, Scoped
    <3> QED
      BY <1>1, <1>8, <3>1, <3>2 DEF AllocationInv, Scoped
  <2>2. ASSUME NEW d \in Cores, NEW id \in Ids, d \in left'[KeyOf(d, id)]
        PROVE  Passed(d, id)'
    <3>1. CASE d \in left[KeyOf(d, id)]
      BY <1>8, <3>1 DEF AllocationInv, Scoped
    <3>2. CASE d \notin left[KeyOf(d, id)]
      <4>1. KeyOf(d, id) = k /\ d = c
        BY <1>0, <1>1, <1>10, <2>2, <3>2, KeyFacts
      <4>2. id = k.id
        BY <4>1, KeyFacts
      <4> QED
        BY <1>2, <1>8, <4>1, <4>2
    <3> QED
      BY <3>1, <3>2
  <2> QED
    BY <2>1, <2>2 DEF Scoped
<1> QED
  BY <1>12, <1>13, <1>14, <1>15, <1>16 DEF AllocationInv

\* Every step of the allocation keeps the invariant.
LEMMA AllocationNext == AllocationInv /\ [Next]_vars => AllocationInv'
<1> SUFFICES ASSUME AllocationInv, [Next]_vars PROVE AllocationInv'
  OBVIOUS
<1>1. CASE UNCHANGED vars
  <2>1. UNCHANGED <<next_buffer_id, ref_count, running, pc, buffer_id, scope, left, created>>
    BY <1>1 DEF vars
  <2>2. mem' = mem /\ \A c, id : Passed(c, id)' = Passed(c, id)
    BY <2>1 DEF mem, Passed
  <2>3. TypeOK' /\ Steps'
    BY <2>1, <2>2 DEF AllocationInv, TypeOK, Steps
  <2>4. CreatedOnce' /\ Counted' /\ Scoped'
    BY <2>1, <2>2 DEF AllocationInv, CreatedOnce, Counted, Scoped
  <2> QED
    BY <2>3, <2>4 DEF AllocationInv
<1>2. CASE Next
  BY <1>2, SetupStep, StartStep, NextIdStep, AllocateStep, DeallocateStep DEF Next
<1> QED
  BY <1>1, <1>2

\* A core in a scope finds its buffer, created once, and a buffer that all its
\* cores have left is freed.
LEMMA LastAsLongAsNeeded == AllocationInv => InScopeIsAllocated /\ FreedAfterLastCore
<1> SUFFICES ASSUME AllocationInv PROVE InScopeIsAllocated /\ FreedAfterLastCore
  OBVIOUS
<1>1. ASSUME NEW c \in Cores, NEW k \in scope[c] PROVE k \in mem /\ created[k] = 1
  <2>1. k \in Keys /\ k.id \in Ids /\ k = KeyOf(c, k.id) /\ c \notin left[k] /\ created[k] = 1
    BY DEF AllocationInv, TypeOK, Scoped
  <2>2. c \in Users(k)
    BY <2>1, KeyFacts
  <2> QED
    BY <2>1, <2>2 DEF AllocationInv, Counted
<1>2. ASSUME NEW id \in Ids, \A c \in Cores : c \in left[KeyOf(c, id)], NEW c \in Cores
      PROVE  KeyOf(c, id) \notin mem
  <2>1. KeyOf(c, id) \in Keys /\ KeyOf(c, id).space = Spaces[id]
    BY KeyFacts
  <2>2. Users(KeyOf(c, id)) \subseteq left[KeyOf(c, id)]
    <3>1. CASE Spaces[id] = "hbm"
      <4>1. \A d \in Cores : KeyOf(d, id) = KeyOf(c, id)
        BY <3>1 DEF KeyOf
      <4> QED
        BY <1>2, <2>1, <3>1, <4>1 DEF Users
    <3>2. CASE Spaces[id] # "hbm"
      <4>1. KeyOf(c, id).core = c
        BY <3>2 DEF KeyOf
      <4> QED
        BY <1>2, <2>1, <3>2, <4>1 DEF Users
    <3> QED
      BY <3>1, <3>2
  <2>3. created[KeyOf(c, id)] = 1
    BY <1>2, <2>1 DEF AllocationInv, CreatedOnce
  <2> QED
    BY <2>1, <2>2, <2>3 DEF AllocationInv, Counted
<1> QED
  BY <1>1, <1>2 DEF InScopeIsAllocated, FreedAfterLastCore

-----------------------------------------------------------------------------

\* What is known of a range: it starts inside the buffer or at its end.
LEMMA RangeFacts ==
    ASSUME NEW r \in C!Ranges
    PROVE  /\ Shape[1] \in Nat /\ Shape[2] \in Nat
           /\ r.start[1] \in 0 .. Shape[1] /\ r.start[2] \in 0 .. Shape[2]
           /\ r.shape[1] \in Nat \ {0} /\ r.shape[2] \in Nat \ {0}
<1>1. C!ContentConstants
  BY BuffersAssumption
<1>2. /\ Shape[1] \in Nat /\ Shape[2] \in Nat /\ MaxSize \in Nat
      /\ Starts \subseteq (0 .. Shape[1]) \X (0 .. Shape[2])
  BY <1>1 DEF C!ContentConstants
<1>3. r.start \in Starts /\ r.shape \in (1 .. MaxSize) \X (1 .. MaxSize)
  BY DEF C!Ranges
<1>4. r.start \in (0 .. Shape[1]) \X (0 .. Shape[2])
  BY <1>2, <1>3
<1> QED
  BY <1>2, <1>3, <1>4

\* The part of a range that is in bounds is what numpy leaves of the slices.
LEMMA InBoundsFacts ==
    ASSUME NEW r \in C!Ranges
    PROVE  /\ C!in_bounds_shape(r)[1] = IF r.start[1] + r.shape[1] <= Shape[1] THEN r.shape[1]
                                        ELSE Shape[1] - r.start[1]
           /\ C!in_bounds_shape(r)[2] = IF r.start[2] + r.shape[2] <= Shape[2] THEN r.shape[2]
                                        ELSE Shape[2] - r.start[2]
  BY DEF C!in_bounds_shape

\* A place of the in-bounds part is a place of the range and lies in the buffer.
LEMMA InBoundsPlace ==
    ASSUME NEW r \in C!Ranges, NEW p \in C!Idx(C!in_bounds_shape(r))
    PROVE  p \in C!Idx(r.shape) /\ C!At(r, p) \in C!Idx(Shape)
<1>1. /\ p = <<p[1], p[2]>> /\ p[1] \in Int /\ p[2] \in Int /\ 0 <= p[1] /\ 0 <= p[2]
      /\ p[1] <= C!in_bounds_shape(r)[1] - 1 /\ p[2] <= C!in_bounds_shape(r)[2] - 1
  BY DEF C!Idx
<1>2. p[1] \in 0 .. (r.shape[1] - 1) /\ p[2] \in 0 .. (r.shape[2] - 1)
  BY <1>1, RangeFacts, InBoundsFacts
<1>3. r.start[1] + p[1] \in 0 .. (Shape[1] - 1) /\ r.start[2] + p[2] \in 0 .. (Shape[2] - 1)
  BY <1>1, RangeFacts, InBoundsFacts
<1> QED
  BY <1>1, <1>2, <1>3 DEF C!Idx, C!At

\* The place of the range that a place of the buffer corresponds to.
From(r, q) == <<q[1] - r.start[1], q[2] - r.start[2]>>

\* It is the only one, and is in bounds if it is in the range.
LEMMA PlaceOf ==
    ASSUME NEW r \in C!Ranges, NEW q \in C!Idx(Shape)
    PROVE  /\ \A p \in C!Idx(r.shape) : C!At(r, p) = q =>
                 p = From(r, q) /\ p \in C!Idx(C!in_bounds_shape(r))
           /\ From(r, q) \in C!Idx(C!in_bounds_shape(r)) =>
                 From(r, q) \in C!Idx(r.shape) /\ C!At(r, From(r, q)) = q
<1>1. q = <<q[1], q[2]>> /\ q[1] \in Int /\ q[2] \in Int
      /\ q[1] <= Shape[1] - 1 /\ q[2] <= Shape[2] - 1
  BY DEF C!Idx
<1>2. ASSUME NEW p \in C!Idx(r.shape), C!At(r, p) = q
      PROVE  p = From(r, q) /\ p \in C!Idx(C!in_bounds_shape(r))
  <2>1. /\ p = <<p[1], p[2]>> /\ p[1] \in Int /\ p[2] \in Int /\ 0 <= p[1] /\ 0 <= p[2]
        /\ p[1] <= r.shape[1] - 1 /\ p[2] <= r.shape[2] - 1
    BY DEF C!Idx
  <2>2. q[1] = r.start[1] + p[1] /\ q[2] = r.start[2] + p[2]
    BY <1>2 DEF C!At
  <2>3. p[1] = q[1] - r.start[1] /\ p[2] = q[2] - r.start[2]
    BY <2>1, <2>2, RangeFacts
  <2>4. /\ p[1] \in 0 .. (C!in_bounds_shape(r)[1] - 1)
        /\ p[2] \in 0 .. (C!in_bounds_shape(r)[2] - 1)
    BY <1>1, <2>1, <2>2, RangeFacts, InBoundsFacts
  <2> QED
    BY <2>1, <2>3, <2>4 DEF From, C!Idx
<1>3. ASSUME From(r, q) \in C!Idx(C!in_bounds_shape(r))
      PROVE  From(r, q) \in C!Idx(r.shape) /\ C!At(r, From(r, q)) = q
  <2>1. C!At(r, From(r, q)) = <<r.start[1] + (q[1] - r.start[1]), r.start[2] + (q[2] - r.start[2])>>
    BY DEF C!At, From
  <2>2. r.start[1] + (q[1] - r.start[1]) = q[1] /\ r.start[2] + (q[2] - r.start[2]) = q[2]
    BY <1>1, RangeFacts
  <2> QED
    BY <1>1, <1>3, <2>1, <2>2, InBoundsPlace
<1> QED
  BY <1>2, <1>3

\* Reading a buffer through a range.
LEMMA ViewFacts ==
    ASSUME C!TypeOK, NEW r \in C!Ranges, NEW p \in C!Idx(C!in_bounds_shape(r))
    PROVE  C!View(content, r)[p] = content[C!At(r, p)] /\ C!View(content, r)[p] \in Values
  BY InBoundsPlace DEF C!View, C!TypeOK

\* Writing one through a range.
LEMMA AssignedFacts ==
    ASSUME C!TypeOK, NEW r \in C!Ranges, NEW value,
           \A p \in C!Idx(C!in_bounds_shape(r)) : value[p] \in Values
    PROVE  /\ C!Assigned(r, value) \in [C!Idx(Shape) -> Values]
           /\ \A q \in C!Idx(Shape) : C!Assigned(r, value)[q] =
                 IF From(r, q) \in C!Idx(C!in_bounds_shape(r)) THEN value[From(r, q)]
                 ELSE content[q]
  BY DEF C!Assigned, From, C!TypeOK

\* A range that is in bounds is the whole of its in-bounds part.
LEMMA WholeRange ==
    ASSUME NEW r \in C!Ranges, C!IsInBounds(r)
    PROVE  C!Idx(C!in_bounds_shape(r)) = C!Idx(r.shape)
  BY DEF C!IsInBounds, C!Idx

\* An access that raises, or that only reads, keeps the contents.
LEMMA GetIsExact ==
    ASSUME C!TypeOK, NEW r \in C!Ranges, C!get(r)
    PROVE  C!TypeOK' /\ C!WritesItsRange /\ C!HandsOutWhatItReplaces
<1>1. op' = [op |-> "get", rnge |-> r] /\ content' = content
  BY DEF C!get
<1>2. op'.op = "get" /\ op'.rnge = r
  BY <1>1
<1>3. C!WritesItsRange /\ C!HandsOutWhatItReplaces
  BY <1>1, <1>2 DEF C!WritesItsRange, C!HandsOutWhatItReplaces, C!Covers
<1>4. CASE C!IsInBounds(r) /\ outcome' = "done" /\ result' = C!View(content, r)
  <2>1. result' \in [C!Idx(r.shape) -> Values \cup {uninitialized}]
    <3>1. result' = [p \in C!Idx(r.shape) |-> content[C!At(r, p)]]
      BY <1>4, WholeRange DEF C!View
    <3>2. \A p \in C!Idx(r.shape) : content[C!At(r, p)] \in Values
      BY <1>4, WholeRange, InBoundsPlace DEF C!TypeOK
    <3> QED
      BY <3>1, <3>2
  <2> QED
    BY <1>1, <1>2, <1>3, <1>4, <2>1 DEF C!TypeOK
<1>5. CASE C!Raise
  BY <1>1, <1>3, <1>5 DEF C!Raise, C!TypeOK, C!NoArray
<1>6. CASE /\ outcome' = "done"
           /\ result' = [p \in C!Idx(r.shape) |->
                           IF p \in C!Idx(C!in_bounds_shape(r)) THEN C!View(content, r)[p]
                           ELSE uninitialized]
  <2>1. result' \in [C!Idx(r.shape) -> Values \cup {uninitialized}]
    BY <1>6, ViewFacts
  <2> QED
    BY <1>1, <1>2, <1>3, <1>6, <2>1 DEF C!TypeOK
<1> QED
  BY <1>3, <1>4, <1>5, <1>6 DEF C!get

\* A store, or a swap without a mask, writes its value to its range.
LEMMA FillIsExact ==
    ASSUME C!TypeOK, NEW r \in C!Ranges, NEW v \in Values, C!store(r, v) \/ C!swap(r, v)
    PROVE  C!TypeOK' /\ C!WritesItsRange /\ C!HandsOutWhatItReplaces
<1>1. /\ op'.op \in {"store", "swap"} /\ op'.rnge = r /\ op'.value = v
      /\ C!store(r, v) => op'.op = "store"
      /\ C!swap(r, v) => op'.op = "swap"
  BY DEF C!store, C!swap
<1>2. C!HandsOutWhatItReplaces
  BY <1>1 DEF C!HandsOutWhatItReplaces
<1>3. CASE C!Raise /\ content' = content
  BY <1>2, <1>3 DEF C!Raise, C!TypeOK, C!NoArray, C!WritesItsRange
<1>4. CASE C!IsInBounds(r) /\ content' = C!Assigned(r, [p \in C!Idx(r.shape) |-> v])
           /\ outcome' = "done"
  <2>1. \A p \in C!Idx(C!in_bounds_shape(r)) : [x \in C!Idx(r.shape) |-> v][p] = v
    BY <1>4, WholeRange
  <2>2. /\ content' \in [C!Idx(Shape) -> Values]
        /\ \A q \in C!Idx(Shape) : content'[q] =
              IF From(r, q) \in C!Idx(C!in_bounds_shape(r)) THEN v ELSE content[q]
    BY <1>4, <2>1, AssignedFacts
  <2>3. C!WritesItsRange
    <3> SUFFICES ASSUME NEW q \in C!Idx(Shape)
                 PROVE  content'[q] = IF C!Covers(op', q) THEN v ELSE content[q]
      BY <1>1, <1>4 DEF C!WritesItsRange
    <3>1. C!Covers(op', q) <=> \E p \in C!Idx(r.shape) : C!At(r, p) = q
      BY <1>1 DEF C!Covers
    <3>2. C!Covers(op', q) <=> From(r, q) \in C!Idx(C!in_bounds_shape(r))
      BY <3>1, PlaceOf
    <3> QED
      BY <2>2, <3>2
  <2>4. C!TypeOK'
    <3>1. CASE C!store(r, v)
      <4>1. result' = C!NoArray
        BY <3>1, <1>4 DEF C!store, C!Raise
      <4> QED
        BY <1>1, <1>4, <2>2, <3>1, <4>1 DEF C!TypeOK, C!NoArray
    <3>2. CASE C!swap(r, v)
      <4>1. result' = C!View(content', r)
        BY <1>4, <3>2 DEF C!swap, C!Raise
      <4>2. result' = [p \in C!Idx(r.shape) |-> content'[C!At(r, p)]]
        BY <1>4, <4>1, WholeRange DEF C!View
      <4>3. \A p \in C!Idx(r.shape) : content'[C!At(r, p)] \in Values
        BY <1>4, <2>2, WholeRange, InBoundsPlace
      <4>4. result' \in [C!Idx(r.shape) -> Values \cup {uninitialized}]
        BY <4>2, <4>3
      <4> QED
        BY <1>1, <1>4, <2>2, <3>2, <4>4 DEF C!TypeOK
    <3> QED
      BY <3>1, <3>2
  <2> QED
    BY <1>2, <2>3, <2>4
<1> QED
  BY <1>3, <1>4 DEF C!store, C!swap

\* A masked swap writes its value to the places of its range that are in bounds
\* and under the mask, and hands out what was there.
LEMMA MaskedSwapIsExact ==
    ASSUME C!TypeOK, NEW r \in C!Ranges, NEW v \in Values,
           NEW mask \in [C!Idx(r.shape) -> BOOLEAN], C!masked_swap(r, v, mask)
    PROVE  C!TypeOK' /\ C!WritesItsRange /\ C!HandsOutWhatItReplaces
<1>1. op'.op = "masked_swap" /\ op'.rnge = r /\ op'.value = v /\ op'.mask = mask
  BY DEF C!masked_swap
<1>2. CASE C!Raise /\ content' = content
  BY <1>1, <1>2 DEF C!Raise, C!TypeOK, C!NoArray, C!WritesItsRange, C!HandsOutWhatItReplaces
<1>3. CASE /\ outcome' = "done" /\ result' = C!Taken(r, v, mask)
           /\ content' = C!Assigned(r, C!Stored(r, v, mask))
  <2>1. \A p \in C!Idx(C!in_bounds_shape(r)) :
           C!Stored(r, v, mask)[p] = IF mask[p] THEN v ELSE content[C!At(r, p)]
    BY ViewFacts DEF C!Stored
  <2>2. \A p \in C!Idx(C!in_bounds_shape(r)) : C!Stored(r, v, mask)[p] \in Values
    BY <2>1, InBoundsPlace DEF C!TypeOK
  <2>3. /\ content' \in [C!Idx(Shape) -> Values]
        /\ \A q \in C!Idx(Shape) : content'[q] =
              IF From(r, q) \in C!Idx(C!in_bounds_shape(r)) THEN C!Stored(r, v, mask)[From(r, q)]
              ELSE content[q]
    BY <1>3, <2>2, AssignedFacts
  <2>4. C!WritesItsRange
    <3> SUFFICES ASSUME NEW q \in C!Idx(Shape)
                 PROVE  content'[q] = IF C!Covers(op', q) THEN v ELSE content[q]
      BY <1>1, <1>3 DEF C!WritesItsRange
    <3>1. C!Covers(op', q) <=> \E p \in C!Idx(r.shape) : C!At(r, p) = q /\ mask[p]
      BY <1>1 DEF C!Covers
    <3>2. C!Covers(op', q) <=>
             From(r, q) \in C!Idx(C!in_bounds_shape(r)) /\ mask[From(r, q)]
      BY <3>1, PlaceOf
    <3>3. From(r, q) \in C!Idx(C!in_bounds_shape(r)) => C!At(r, From(r, q)) = q
      BY PlaceOf
    <3> QED
      BY <2>1, <2>3, <3>2, <3>3
  <2>5. \A p \in C!Idx(r.shape) : result'[p] =
           IF p \in C!Idx(C!in_bounds_shape(r)) /\ mask[p] THEN C!View(content, r)[p] ELSE v
    BY <1>3 DEF C!Taken
  <2>6. C!HandsOutWhatItReplaces
    <3> SUFFICES ASSUME NEW p \in C!Idx(r.shape), mask[p], C!At(r, p) \in C!Idx(Shape)
                 PROVE  result'[p] = content[C!At(r, p)]
      BY <1>1 DEF C!HandsOutWhatItReplaces
    <3>1. p \in C!Idx(C!in_bounds_shape(r))
      BY PlaceOf
    <3> QED
      BY <2>5, <3>1, ViewFacts
  <2>7. result' \in [C!Idx(r.shape) -> Values \cup {uninitialized}]
    <3>1. C!Taken(r, v, mask) = [p \in C!Idx(r.shape) |-> C!Taken(r, v, mask)[p]]
      BY DEF C!Taken
    <3>2. \A p \in C!Idx(r.shape) : C!Taken(r, v, mask)[p] \in Values \cup {uninitialized}
      BY <1>3, <2>5, ViewFacts
    <3> QED
      BY <1>3, <3>1, <3>2
  <2>8. C!TypeOK'
    BY <1>1, <1>3, <2>3, <2>7 DEF C!TypeOK
  <2> QED
    BY <2>4, <2>6, <2>8
<1> QED
  BY <1>2, <1>3 DEF C!masked_swap

\* Every step of the allocation and the accesses is exact.
LEMMA ContentStep ==
    ASSUME C!TypeOK, [BuffersNext]_allVars
    PROVE  C!TypeOK' /\ [C!WritesItsRange /\ C!HandsOutWhatItReplaces]_contentVars
<1>1. CASE UNCHANGED contentVars
  BY <1>1 DEF contentVars, C!TypeOK
<1>2. CASE ReturnFromAccess
  <2>1. /\ op' = [op |-> "none"] /\ outcome' = "none" /\ result' = C!NoArray
        /\ content' = content
    BY <1>2 DEF ReturnFromAccess
  <2>2. op'.op = "none"
    BY <2>1
  <2> QED
    BY <2>1, <2>2
       DEF C!TypeOK, C!NoArray, C!WritesItsRange, C!HandsOutWhatItReplaces, C!Covers
<1>3. ASSUME NEW c \in Cores, Access(c)
      PROVE  C!TypeOK' /\ C!WritesItsRange /\ C!HandsOutWhatItReplaces
  <2>1. PICK r \in C!Ranges :
           \/ C!get(r)
           \/ \E v \in Values :
                 \/ C!store(r, v)
                 \/ C!swap(r, v)
                 \/ \E mask \in [C!Idx(r.shape) -> BOOLEAN] : C!masked_swap(r, v, mask)
    BY <1>3 DEF Access, C!Next
  <2> QED
    BY <2>1, GetIsExact, FillIsExact, MaskedSwapIsExact
<1>4. ASSUME AllocationStep PROVE UNCHANGED contentVars
  BY <1>4 DEF AllocationStep
<1> QED
  BY <1>1, <1>2, <1>3, <1>4 DEF BuffersNext, allVars

\* The accesses leave the allocation alone.
LEMMA AllocationGoesOn == [BuffersNext]_allVars => [Next]_vars
  BY DEF BuffersNext, allVars, AllocationStep, Access, ReturnFromAccess

\* The contents are typed in every reachable state.
LEMMA ContentTyped == BuffersSpec => []C!TypeOK
<1>1. BuffersInit => C!TypeOK
  BY DEF BuffersInit, C!Init, C!TypeOK, C!NoArray
<1>2. C!TypeOK /\ [BuffersNext]_allVars => C!TypeOK'
  BY ContentStep
<1> QED
  BY <1>1, <1>2, PTL DEF BuffersSpec

\* However the cores come and go, a core inside a run_scoped finds its buffer
\* in memory, created once and in its shape, and a buffer is freed when its last
\* core leaves (allocate_buffer, deallocate_buffer).
THEOREM BuffersLast == BuffersSpec => []BuffersLastAsLongAsNeeded
<1>1. BuffersInit => AllocationInv
  BY AllocationInit DEF BuffersInit
<1>2. AllocationInv /\ [BuffersNext]_allVars => AllocationInv'
  BY AllocationNext, AllocationGoesOn
<1>3. AllocationInv /\ C!TypeOK => BuffersLastAsLongAsNeeded
  BY LastAsLongAsNeeded DEF AllocationInv, BuffersLastAsLongAsNeeded, ResultHasShapeOfRange
<1> QED
  BY <1>1, <1>2, <1>3, ContentTyped, PTL DEF BuffersSpec

\* An access that raises leaves the buffer as it was, any other changes exactly
\* the places in its range and under its mask, and a masked swap hands out what
\* it replaces (get, store, swap).
THEOREM ExactAccesses == BuffersSpec => AccessesAreExact
<1>1. C!TypeOK /\ [BuffersNext]_allVars
        => [C!WritesItsRange /\ C!HandsOutWhatItReplaces]_contentVars
  BY ContentStep
<1>2. BuffersSpec => [][C!WritesItsRange /\ C!HandsOutWhatItReplaces]_contentVars
  BY <1>1, ContentTyped, PTL DEF BuffersSpec
<1> QED
  BY <1>2 DEF AccessesAreExact
=============================================================================
