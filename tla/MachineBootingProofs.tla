------------------------- MODULE MachineBootingProofs -------------------------
(* Proofs about MachineBooting, for any categories, machines, tests and      *)
(* deployments, any limits, and any number of crashes and faults.            *)
EXTENDS MachineBooting, FiniteSetTheorems, TLAPS

------------------------------------------------------------------------------
(* The invariant. Most of it speaks of a database: the one that is there and  *)
(* the one that a crash in the middle of a boot check would bring back.       *)

MachineType == [alive : BOOLEAN, cat : Categories \cup {Nothing},
                doing : Tests \cup Deploys \cup {Nothing}]
DbType == [desired : [Categories -> Int], booted : [Categories -> Nat],
           unbootable : SUBSET Categories, machine : [Machines -> MachineType],
           wish : [Tests -> Unwanted .. MaxTarget], target : [Tests -> 0 .. MaxTarget],
           prioritized : SUBSET Tests, queued : SUBSET Tests, missed : SUBSET Tests,
           deploy : [Deploys -> {"none", "pending", "running"}]]

(* A database has these fields and no others. *)
Rebuilt(e) ==
    [desired |-> e.desired, booted |-> e.booted, unbootable |-> e.unbootable,
     machine |-> e.machine, wish |-> e.wish, target |-> e.target,
     prioritized |-> e.prioritized, queued |-> e.queued, missed |-> e.missed,
     deploy |-> e.deploy]

(* What a machine does suits it, and deployments are on machines that live. *)
MachinesSound(d) ==
    \A m \in Machines :
        /\ d.machine[m].alive => d.machine[m].cat \in Categories
        /\ d.machine[m].doing \in Tests => d.machine[m].cat = CategoryOf[d.machine[m].doing]
        /\ d.machine[m].doing \in Deploys =>
              /\ d.machine[m].alive
              /\ d.machine[m].cat = CategoryOf[d.machine[m].doing]
              /\ d.deploy[d.machine[m].doing] = "running"

(* No deployment is on two machines. *)
OnePlace(d) ==
    \A m, n \in Machines :
        d.machine[m].doing \in Deploys /\ d.machine[m].doing = d.machine[n].doing => m = n

AliveOf(d, c) == {m \in Alive(d) : d.machine[m].cat = c}
BootedIs(d) == \A c \in Categories : d.booted[c] = Cardinality(AliveOf(d, c))

WithinLimits(d, S) ==
    /\ MaxCores > 0 => CoresOf(d, S) <= MaxCores
    /\ MaxWorkers > 0 => Cardinality(S) <= MaxWorkers

Frame(d) ==
    /\ d \in DbType /\ MachinesSound(d) /\ OnePlace(d) /\ BootedIs(d)
    /\ WithinLimits(d, Alive(d))

(* What a test wants is known once it has been updated. T: tests that are     *)
(* about to be.                                                             *)
Bootable(d) == {t \in Tests : CategoryOf[t] \notin d.unbootable}
FollowsBut(d, T) ==
    \A t \in Bootable(d) \ T : t \in d.queued \/ d.target[t] = Target(d, t)

(* Where tests want one run at most: a run is the only one of its test; the   *)
(* test wants it, and is not given another; a test that wants a run has one,   *)
(* waits for one, or is yet to be updated.                                   *)
OneRun(d, t) ==
    /\ \A m, n \in Doing(d, t) : m = n
    /\ Doing(d, t) # {} => d.wish[t] # 0
TestSound(d, t) ==
    /\ Doing(d, t) # {} => d.target[t] = 1 /\ t \notin d.prioritized
    /\ t \in d.prioritized => d.target[t] = 1 /\ d.wish[t] # 0
    /\ d.target[t] = 1 => t \in d.queued \/ t \in d.prioritized \/ Doing(d, t) # {}
TestsSound(d, T) ==
    \A t \in Bootable(d) : OneRun(d, t) /\ (t \notin T => TestSound(d, t))

WantedTests(d, c) == {t \in TestsOf(c) : d.target[t] = 1}
MissedOf(d, c) == d.missed \cap TestsOf(c)
CountsRight(d) ==
    \A c \in Categories \ d.unbootable :
        d.desired[c] = Cardinality(WantedTests(d, c)) + Cardinality(WantedDeploys(d, c))
                       - Cardinality(MissedOf(d, c))

DbInvBut(d, T) ==
    /\ Frame(d) /\ FollowsBut(d, T)
    /\ MaxTarget <= 1 => TestsSound(d, T) /\ CountsRight(d)
DbInv(d) == DbInvBut(d, {})

TxType == {Free} \cup [kind : {"boot"}, more : SUBSET Categories, less : SUBSET Categories,
                       saved : DbType]

(* What MachineManagement has in its books. *)
BookInv ==
    /\ booked \subseteq Machines /\ cores = CoresOf(db, booked) /\ WithinLimits(db, booked)
    /\ \A m \in booked : db.machine[m].cat \in Categories
    /\ up => Alive(db) \subseteq booked
    /\ up /\ ~TerminateMayFail => booked = Alive(db)

(* A machine that asks for work has none. *)
AskInv == asking \subseteq Machines /\ \A m \in asking : db.machine[m].doing = Nothing

OtherInv ==
    /\ tx \in TxType /\ up \in BOOLEAN
    /\ cloud \in [Machines -> {"none", "pending", "running", "gone"}]
    /\ known \in [VMs -> {"none", "creating", "available", "invalid"}]
    /\ image \in [VMs -> {"none", "creating", "available", "invalid"}]
    /\ ~up => tx = Free

SavedInv == tx # Free => DbInv(tx.saved)

Inv == DbInv(db) /\ SavedInv /\ BookInv /\ AskInv /\ OtherInv

------------------------------------------------------------------------------
(* Counting *)

(* What is counted is finite. *)
LEMMA FiniteParts ==
  ASSUME NEW S, S \subseteq Machines \/ S \subseteq Tests \/ S \subseteq Deploys
  PROVE  IsFiniteSet(S) /\ Cardinality(S) \in Nat
<1>1. IsFiniteSet(Machines) /\ IsFiniteSet(Tests) /\ IsFiniteSet(Deploys)
  BY MachineAssumption
<1>2. \A T : IsFiniteSet(T) /\ S \subseteq T => IsFiniteSet(S)
  BY FS_Subset
<1>3. IsFiniteSet(S)
  BY <1>1, <1>2
<1>4. QED  BY <1>3, FS_CardinalityType

(* Two sets with the same number of elements. *)
LEMMA SameNumber ==
  ASSUME NEW A, NEW B, IsFiniteSet(A), NEW f \in [A -> B],
         \A x, y \in A : f[x] = f[y] => x = y,
         \A b \in B : \E x \in A : f[x] = b
  PROVE  IsFiniteSet(B) /\ Cardinality(B) = Cardinality(A)
<1>1. f \in Bijection(A, B)
  BY DEF Bijection, Injection, Surjection, IsInjective
<1>2. QED  BY <1>1, FS_Bijection DEF ExistsBijection

(* A set in two parts. *)
LEMMA TwoParts ==
  ASSUME NEW A, NEW B, IsFiniteSet(A), IsFiniteSet(B), A \cap B = {}
  PROVE  /\ IsFiniteSet(A \cup B) /\ Cardinality(A \cup B) = Cardinality(A) + Cardinality(B)
         /\ Cardinality(A) \in Nat /\ Cardinality(B) \in Nat
<1>1. Cardinality(A) \in Nat /\ Cardinality(B) \in Nat
  BY FS_CardinalityType
<1>2. QED  BY <1>1, FS_Union, FS_EmptySet

(* The cores of machines. *)
LEMMA CoreSlotsAre ==
  ASSUME NEW d, NEW S, NEW x
  PROVE  x \in CoreSlots(d, S) <=>
           \E m \in S : \E i \in 1 .. Cores[d.machine[m].cat] : x = <<m, i>>
BY DEF CoreSlots

(* The cores of one machine. *)
LEMMA OneMachine ==
  ASSUME NEW m, NEW n \in Nat
  PROVE  IsFiniteSet({m} \X (1 .. n)) /\ Cardinality({m} \X (1 .. n)) = n
<1>1. IsFiniteSet({m}) /\ Cardinality({m}) = 1
  BY FS_Singleton
<1>2. IsFiniteSet(1 .. n) /\ Cardinality(1 .. n) = n
  BY FS_Interval
<1>3. /\ IsFiniteSet({m} \X (1 .. n))
      /\ Cardinality({m} \X (1 .. n)) = Cardinality({m}) * Cardinality(1 .. n)
  BY <1>1, <1>2, FS_Product
<1>4. 1 * n = n
  OBVIOUS
<1>5. QED  BY <1>1, <1>2, <1>3, <1>4

(* There are finitely many. *)
LEMMA CoresCount ==
  ASSUME NEW d, NEW S, S \subseteq Machines, \A m \in S : d.machine[m].cat \in Categories
  PROVE  IsFiniteSet(CoreSlots(d, S)) /\ CoresOf(d, S) \in Nat
<1>1. IsFiniteSet(S)
  BY FiniteParts
<1>2. PICK T : T = {{m} \X (1 .. Cores[d.machine[m].cat]) : m \in S}
  OBVIOUS
<1>3. PICK f : f = [m \in S |-> {m} \X (1 .. Cores[d.machine[m].cat])]
  OBVIOUS
<1>4. f \in Surjection(S, T)
  <2>1. f \in [S -> T]
    BY <1>2, <1>3
  <2>2. \A b \in T : \E m \in S : f[m] = b
    BY <1>2, <1>3
  <2>3. QED  BY <2>1, <2>2 DEF Surjection
<1>5. IsFiniteSet(T)
  BY <1>1, <1>4, FS_Surjection
<1>6. \A U \in T : IsFiniteSet(U)
  <2> SUFFICES ASSUME NEW m \in S
               PROVE  IsFiniteSet({m} \X (1 .. Cores[d.machine[m].cat]))
    BY <1>2
  <2>1. Cores[d.machine[m].cat] \in Nat
    BY MachineAssumption
  <2>2. QED  BY <2>1, OneMachine
<1>7. IsFiniteSet(CoreSlots(d, S))
  BY <1>2, <1>5, <1>6, FS_UNION DEF CoreSlots
<1>8. QED  BY <1>7, FS_CardinalityType DEF CoresOf

(* One more machine. *)
LEMMA CoresAdd ==
  ASSUME NEW d, NEW S, S \subseteq Machines, NEW m \in Machines, m \notin S,
         \A n \in S \cup {m} : d.machine[n].cat \in Categories
  PROVE  CoresOf(d, S \cup {m}) = CoresOf(d, S) + Cores[d.machine[m].cat]
<1>1. PICK A : A = {m} \X (1 .. Cores[d.machine[m].cat])
  OBVIOUS
<1>2. Cores[d.machine[m].cat] \in Nat
  BY MachineAssumption
<1>3. IsFiniteSet(A) /\ Cardinality(A) = Cores[d.machine[m].cat]
  BY <1>1, <1>2, OneMachine
<1>4. CoreSlots(d, S \cup {m}) = CoreSlots(d, S) \cup A
  BY <1>1 DEF CoreSlots
<1>5. CoreSlots(d, S) \cap A = {}
  BY <1>1, CoreSlotsAre
<1>6. IsFiniteSet(CoreSlots(d, S))
  BY CoresCount
<1>7. QED  BY <1>3, <1>4, <1>5, <1>6, TwoParts DEF CoresOf

(* Fewer machines. *)
LEMMA CoresDrop ==
  ASSUME NEW d, NEW S, S \subseteq Machines, NEW T, T \subseteq S,
         \A n \in S : d.machine[n].cat \in Categories
  PROVE  /\ CoresOf(d, S \ T) = CoresOf(d, S) - CoresOf(d, T)
         /\ CoresOf(d, T) <= CoresOf(d, S)
         /\ CoresOf(d, T) \in Nat /\ CoresOf(d, S) \in Nat
<1>1. /\ IsFiniteSet(CoreSlots(d, T)) /\ CoresOf(d, T) \in Nat
      /\ IsFiniteSet(CoreSlots(d, S \ T)) /\ CoresOf(d, S \ T) \in Nat
  BY CoresCount
<1>2. CoreSlots(d, S) = CoreSlots(d, S \ T) \cup CoreSlots(d, T)
  BY DEF CoreSlots
<1>3. CoreSlots(d, S \ T) \cap CoreSlots(d, T) = {}
  BY CoreSlotsAre
<1>4. CoresOf(d, S) = CoresOf(d, S \ T) + CoresOf(d, T)
  BY <1>1, <1>2, <1>3, TwoParts DEF CoresOf
<1>5. QED  BY <1>1, <1>4

(* Fewer machines stay within the limits. *)
LEMMA LimitsKept ==
  ASSUME NEW d, NEW S, S \subseteq Machines, NEW T, T \subseteq S,
         \A n \in S : d.machine[n].cat \in Categories, WithinLimits(d, S)
  PROVE  WithinLimits(d, T)
<1>1. CoresOf(d, T) <= CoresOf(d, S) /\ CoresOf(d, T) \in Nat /\ CoresOf(d, S) \in Nat
  BY CoresDrop
<1>2. Cardinality(T) <= Cardinality(S) /\ Cardinality(T) \in Nat /\ Cardinality(S) \in Nat
  BY FiniteParts, FS_Subset
<1>3. MaxCores \in Nat /\ MaxWorkers \in Nat
  BY MachineAssumption
<1>4. QED  BY <1>1, <1>2, <1>3 DEF WithinLimits

(* Only the categories of machines matter. *)
LEMMA CoresSame ==
  ASSUME NEW d, NEW e, NEW S, \A m \in S : d.machine[m].cat = e.machine[m].cat
  PROVE  CoresOf(d, S) = CoresOf(e, S) /\ (WithinLimits(d, S) <=> WithinLimits(e, S))
<1>1. CoreSlots(d, S) = CoreSlots(e, S)
  BY DEF CoreSlots
<1>2. CoresOf(d, S) = CoresOf(e, S)
  BY <1>1 DEF CoresOf
<1>3. QED  BY <1>2 DEF WithinLimits

(* Where a test wants one run at most, runs are counted by their tests. *)
LEMMA WantedCount ==
  ASSUME NEW d \in DbType, MaxTarget <= 1, NEW c
  PROVE  Cardinality(WantedRuns(d, c)) = Cardinality(WantedTests(d, c))
<1>1. WantedTests(d, c) \subseteq Tests /\ IsFiniteSet(WantedTests(d, c))
  <2>1. WantedTests(d, c) \subseteq Tests
    BY DEF WantedTests, TestsOf
  <2>2. QED  BY <2>1, FiniteParts
<1>2. \A t \in Tests : d.target[t] \in {0, 1}
  BY MachineAssumption DEF DbType
<1>3. \A x : x \in WantedRuns(d, c) <=>
             \E t \in TestsOf(c) : \E i \in 1 .. d.target[t] : x = <<t, i>>
  BY DEF WantedRuns
<1>4. 1 .. 0 = {} /\ 1 .. 1 = {1}
  OBVIOUS
<1>5. \A x : x \in WantedRuns(d, c) <=> \E t \in WantedTests(d, c) : x = <<t, 1>>
  BY <1>2, <1>3, <1>4 DEF WantedTests, TestsOf
<1>6. PICK f : f = [t \in WantedTests(d, c) |-> <<t, 1>>]
  OBVIOUS
<1>7. /\ f \in [WantedTests(d, c) -> WantedRuns(d, c)]
      /\ \A x, y \in WantedTests(d, c) : f[x] = f[y] => x = y
      /\ \A b \in WantedRuns(d, c) : \E x \in WantedTests(d, c) : f[x] = b
  BY <1>5, <1>6
<1>8. QED  BY <1>1, <1>7, SameNumber

(* What is counted can be. *)
LEMMA CountsFinite ==
  ASSUME NEW d \in DbType, NEW c
  PROVE  /\ IsFiniteSet(WantedTests(d, c)) /\ Cardinality(WantedTests(d, c)) \in Nat
         /\ IsFiniteSet(WantedDeploys(d, c)) /\ Cardinality(WantedDeploys(d, c)) \in Nat
         /\ IsFiniteSet(MissedOf(d, c)) /\ Cardinality(MissedOf(d, c)) \in Nat
<1>1. /\ WantedTests(d, c) \subseteq Tests /\ WantedDeploys(d, c) \subseteq Deploys
      /\ MissedOf(d, c) \subseteq Tests
  BY DEF WantedTests, WantedDeploys, MissedOf, TestsOf
<1>2. QED  BY <1>1, FiniteParts

------------------------------------------------------------------------------
(* What becomes of a database *)

SameMachines(d, e) ==
    \A m \in Machines : /\ e.machine[m].alive = d.machine[m].alive
                        /\ e.machine[m].cat = d.machine[m].cat
NothingNew(d, e) ==
    \A m \in Machines : e.machine[m].doing \in {d.machine[m].doing, Nothing}
Stops(d, e, S) ==
    \A m \in Machines : e.machine[m].doing = IF m \in S THEN Nothing ELSE d.machine[m].doing

(* The machines that live are the same. *)
LEMMA SameAlive ==
  ASSUME NEW d, NEW e, SameMachines(d, e)
  PROVE  /\ Alive(e) = Alive(d) /\ \A c : AliveOf(e, c) = AliveOf(d, c)
         /\ \A S \in SUBSET Machines : /\ CoresOf(e, S) = CoresOf(d, S)
                                       /\ WithinLimits(e, S) <=> WithinLimits(d, S)
<1>1. Alive(e) = Alive(d)
  BY DEF SameMachines, Alive
<1>2. \A c : AliveOf(e, c) = AliveOf(d, c)
  BY <1>1 DEF SameMachines, Alive, AliveOf
<1>3. QED  BY <1>1, <1>2, CoresSame DEF SameMachines

(* No machine does anything new, and deployments that go on do so. *)
LEMMA FrameKept ==
  ASSUME NEW d, Frame(d), NEW e \in DbType, e.booted = d.booted, SameMachines(d, e),
         NothingNew(d, e),
         \A m \in Machines : e.machine[m].doing \in Deploys =>
             e.deploy[e.machine[m].doing] = d.deploy[e.machine[m].doing]
  PROVE  Frame(e)
<1>0. Nothing \notin Tests \cup Deploys
  BY MachineAssumption
<1>1. /\ Alive(e) = Alive(d) /\ \A c : AliveOf(e, c) = AliveOf(d, c)
      /\ Alive(d) \subseteq Machines
      /\ \A S \in SUBSET Machines : WithinLimits(e, S) <=> WithinLimits(d, S)
  BY SameAlive DEF Alive
<1>2. MachinesSound(e)
  BY <1>0 DEF Frame, MachinesSound, SameMachines, NothingNew
<1>3. OnePlace(e)
  BY <1>0 DEF Frame, OnePlace, NothingNew
<1>4. BootedIs(e)
  BY <1>1 DEF Frame, BootedIs
<1>5. WithinLimits(e, Alive(e))
  BY <1>1 DEF Frame
<1>6. QED  BY <1>2, <1>3, <1>4, <1>5 DEF Frame

(* Tests go on wanting what they wanted: a run that ends has its test queued. *)
LEMMA TestsKept ==
  ASSUME NEW d, NEW e, NEW T, d.queued \subseteq e.queued, d.unbootable \subseteq e.unbootable,
         e.target = d.target, e.wish = d.wish, e.prioritized = d.prioritized,
         \A t \in Tests : \/ Doing(e, t) = Doing(d, t)
                          \/ Doing(e, t) \subseteq Doing(d, t) /\ t \in e.queued
  PROVE  /\ FollowsBut(d, T) => FollowsBut(e, T)
         /\ TestsSound(d, T) => TestsSound(e, T)
<1>1. \A t \in Bootable(e) : t \in Bootable(d) /\ Target(e, t) = Target(d, t)
  BY DEF Bootable, Target
<1>2. ASSUME FollowsBut(d, T)  PROVE FollowsBut(e, T)
  BY <1>1, <1>2 DEF FollowsBut
<1>3. ASSUME TestsSound(d, T), NEW t \in Bootable(e)
      PROVE  OneRun(e, t) /\ (t \notin T => TestSound(e, t))
  <2>1. OneRun(d, t) /\ (t \notin T => TestSound(d, t)) /\ t \in Tests
    BY <1>1, <1>3 DEF TestsSound, Bootable
  <2>2. Doing(e, t) \subseteq Doing(d, t) /\ (Doing(e, t) = Doing(d, t) \/ t \in e.queued)
    BY <2>1
  <2>3. OneRun(e, t)
    BY <2>1, <2>2 DEF OneRun
  <2>4. ASSUME TestSound(d, t)  PROVE TestSound(e, t)
    BY <2>2, <2>4 DEF TestSound
  <2>5. QED  BY <2>1, <2>3, <2>4
<1>4. QED  BY <1>2, <1>3 DEF TestsSound

(* What is counted stays the same. *)
LEMMA CountsKept ==
  ASSUME NEW d, NEW e, d.unbootable \subseteq e.unbootable, e.target = d.target,
         \A c \in Categories \ e.unbootable : e.desired[c] = d.desired[c],
         e.missed = d.missed, e.deploy = d.deploy, CountsRight(d)
  PROVE  CountsRight(e)
<1>1. \A c : /\ WantedTests(e, c) = WantedTests(d, c) /\ WantedDeploys(e, c) = WantedDeploys(d, c)
             /\ MissedOf(e, c) = MissedOf(d, c)
  BY DEF WantedTests, WantedDeploys, MissedOf
<1>2. QED  BY <1>1 DEF CountsRight

(* Machines stop what they do, and nothing else changes. *)
LEMMA WithoutIs ==
  ASSUME NEW d \in DbType, NEW S, NEW e, e = Without(d, S)
  PROVE  /\ e \in DbType /\ SameMachines(d, e) /\ NothingNew(d, e)
         /\ e.booted = d.booted /\ e.unbootable = d.unbootable
         /\ e.desired = d.desired /\ e.wish = d.wish /\ e.target = d.target
         /\ e.prioritized = d.prioritized /\ e.queued = d.queued /\ e.missed = d.missed
         /\ e.deploy = d.deploy
         /\ Stops(d, e, S)
<1>1. PICK f : f = [m \in Machines |-> IF m \in S THEN [d.machine[m] EXCEPT !.doing = Nothing]
                                       ELSE d.machine[m]]
  OBVIOUS
<1>2. /\ f \in [Machines -> MachineType]
      /\ \A m \in Machines : /\ f[m].alive = d.machine[m].alive /\ f[m].cat = d.machine[m].cat
                             /\ f[m].doing = IF m \in S THEN Nothing ELSE d.machine[m].doing
  BY <1>1 DEF DbType, MachineType
<1>3. e = [d EXCEPT !.machine = f]
  BY <1>1 DEF Without
<1>4. /\ e.machine = f /\ e \in DbType
      /\ e.booted = d.booted /\ e.unbootable = d.unbootable
      /\ e.desired = d.desired /\ e.wish = d.wish /\ e.target = d.target
      /\ e.prioritized = d.prioritized /\ e.queued = d.queued /\ e.missed = d.missed
      /\ e.deploy = d.deploy
  BY <1>2, <1>3 DEF DbType
<1>5. QED  BY <1>2, <1>4 DEF SameMachines, NothingNew, Stops

(* Tests that are canceled are queued, and nothing else changes. *)
LEMMA CanceledIs ==
  ASSUME NEW d \in DbType, NEW S, S \subseteq Machines, NEW e, e = RunsCanceled(d, S)
  PROVE  /\ e \in DbType /\ SameMachines(d, e) /\ NothingNew(d, e)
         /\ e.booted = d.booted /\ e.unbootable = d.unbootable
         /\ e.desired = d.desired /\ e.wish = d.wish /\ e.target = d.target
         /\ e.prioritized = d.prioritized /\ e.missed = d.missed /\ e.deploy = d.deploy
         /\ e.queued = d.queued \cup (Tests \cap {d.machine[m].doing : m \in S})
         /\ Stops(d, e, S)
<1>1. PICK g : g = Without(d, S)
  OBVIOUS
<1>2. PICK q : q = d.queued \cup (Tests \cap {d.machine[m].doing : m \in S})
  OBVIOUS
<1>3. /\ g \in DbType /\ SameMachines(d, g) /\ NothingNew(d, g)
      /\ g.booted = d.booted /\ g.unbootable = d.unbootable
      /\ g.desired = d.desired /\ g.wish = d.wish /\ g.target = d.target
      /\ g.prioritized = d.prioritized /\ g.queued = d.queued /\ g.missed = d.missed
      /\ g.deploy = d.deploy
      /\ Stops(d, g, S)
  BY <1>1, WithoutIs
<1>4. e = [g EXCEPT !.queued = q]
  BY <1>1, <1>2, <1>3 DEF RunsCanceled
<1>5. q \in SUBSET Tests
  BY <1>2 DEF DbType
<1>6. /\ e \in DbType /\ e.machine = g.machine /\ e.queued = q
      /\ e.booted = g.booted /\ e.unbootable = g.unbootable
      /\ e.desired = g.desired /\ e.wish = g.wish /\ e.target = g.target
      /\ e.prioritized = g.prioritized /\ e.missed = g.missed /\ e.deploy = g.deploy
  BY <1>3, <1>4, <1>5 DEF DbType
<1>7. QED  BY <1>2, <1>3, <1>6 DEF SameMachines, NothingNew, Stops

(* Who does what, afterwards. *)
LEMMA DoingAfter ==
  ASSUME NEW d, NEW e, NEW S,
         Stops(d, e, S),
         NEW t \in Tests \cup Deploys
  PROVE  Doing(e, t) = Doing(d, t) \ S
BY MachineAssumption DEF Doing, Stops

(* Runs are canceled, and their tests queued. *)
LEMMA CancelDb ==
  ASSUME NEW d, DbInv(d), NEW S, S \subseteq Machines, NEW e, e = RunsCanceled(d, S)
  PROVE  DbInv(e) /\ SameMachines(d, e) /\ NothingNew(d, e)
<1>1. d \in DbType /\ Frame(d)
  BY DEF DbInv, DbInvBut, Frame
<1>2. /\ e \in DbType /\ SameMachines(d, e) /\ NothingNew(d, e)
      /\ e.booted = d.booted /\ e.unbootable = d.unbootable
      /\ e.desired = d.desired /\ e.wish = d.wish /\ e.target = d.target
      /\ e.prioritized = d.prioritized /\ e.missed = d.missed /\ e.deploy = d.deploy
      /\ e.queued = d.queued \cup (Tests \cap {d.machine[m].doing : m \in S})
      /\ Stops(d, e, S)
  BY <1>1, CanceledIs
<1>3. Frame(e)
  BY <1>1, <1>2, FrameKept
<1>4. ASSUME NEW t \in Tests
      PROVE  \/ Doing(e, t) = Doing(d, t)
             \/ Doing(e, t) \subseteq Doing(d, t) /\ t \in e.queued
  <2>1. Doing(e, t) = Doing(d, t) \ S
    BY <1>2, DoingAfter
  <2>2. CASE Doing(d, t) \cap S = {}
    BY <2>1, <2>2
  <2>3. CASE Doing(d, t) \cap S # {}
    <3>1. t \in {d.machine[m].doing : m \in S}
      BY <2>3 DEF Doing
    <3>2. QED  BY <1>2, <2>1, <3>1
  <2>4. QED  BY <2>2, <2>3
<1>5. /\ FollowsBut(d, {}) => FollowsBut(e, {})
      /\ TestsSound(d, {}) => TestsSound(e, {})
  <2>1. d.queued \subseteq e.queued /\ d.unbootable \subseteq e.unbootable
    BY <1>2
  <2>2. QED  BY <1>2, <1>4, <2>1, TestsKept
<1>6. CountsRight(d) => CountsRight(e)
  BY <1>2, CountsKept
<1>7. QED  BY <1>2, <1>3, <1>5, <1>6 DEF DbInv, DbInvBut

(* _updateTestPriority, field by field; it may take the test off the queue.   *)
UpdatedFields(d, t, e) ==
    /\ e \in DbType /\ SameMachines(d, e) /\ NothingNew(d, e)
    /\ e.booted = d.booted /\ e.unbootable = d.unbootable /\ e.wish = d.wish
    /\ e.missed = d.missed /\ e.deploy = d.deploy
    /\ \A s \in Tests : e.target[s] = IF s = t THEN Target(d, t) ELSE d.target[s]
    /\ \A c \in Categories :
         e.desired[c] = IF c = CategoryOf[t] THEN d.desired[c] + Target(d, t) - d.target[t]
                                             ELSE d.desired[c]
    /\ \A s \in Tests : s # t => (s \in e.prioritized <=> s \in d.prioritized)
    /\ t \in e.prioritized <=> Target(d, t) > Cardinality(Doing(e, t))
    /\ d.queued \ {t} \subseteq e.queued
    /\ Stops(d, e, Stopped(d, t))

(* What a test wants. *)
LEMMA TargetType ==
  ASSUME NEW d \in DbType, NEW t \in Tests
  PROVE  Target(d, t) \in 0 .. MaxTarget /\ d.target[t] \in 0 .. MaxTarget /\ MaxTarget \in Nat
<1>1. MaxTarget \in Nat /\ d.wish[t] \in Unwanted .. MaxTarget /\ d.target[t] \in 0 .. MaxTarget
  BY MachineAssumption DEF DbType
<1>2. d.wish[t] # Unwanted => d.wish[t] \in 0 .. MaxTarget
  BY <1>1 DEF Unwanted
<1>3. QED  BY <1>1, <1>2 DEF Target

(* A test is updated. *)
LEMMA UpdatedIs ==
  ASSUME NEW d \in DbType, NEW t \in Tests, NEW e,
         e = Updated(d, t) \/ e = [Updated(d, t) EXCEPT !.queued = @ \ {t}]
  PROVE  UpdatedFields(d, t, e)
<1>1. PICK g : g = RunsCanceled(d, Stopped(d, t))
  OBVIOUS
<1>2. Stopped(d, t) \subseteq Machines
  BY DEF Stopped, Doing
<1>3. /\ g \in DbType /\ SameMachines(d, g) /\ NothingNew(d, g)
      /\ g.booted = d.booted /\ g.unbootable = d.unbootable
      /\ g.desired = d.desired /\ g.wish = d.wish /\ g.target = d.target
      /\ g.prioritized = d.prioritized /\ g.missed = d.missed /\ g.deploy = d.deploy
      /\ d.queued \subseteq g.queued
      /\ Stops(d, g, Stopped(d, t))
  BY <1>1, <1>2, CanceledIs
<1>4. PICK n : n = Target(d, t)
  OBVIOUS
<1>5. n \in 0 .. MaxTarget /\ d.target[t] \in 0 .. MaxTarget /\ MaxTarget \in Nat
  BY <1>4, TargetType
<1>6. CategoryOf[t] \in Categories
  BY MachineAssumption
<1>7. PICK w : w = [d.desired EXCEPT ![CategoryOf[t]] = d.desired[CategoryOf[t]] + n - d.target[t]]
  OBVIOUS
<1>8. PICK a : a = [d.target EXCEPT ![t] = n]
  OBVIOUS
<1>9. PICK p : p = IF n > Cardinality(Doing(g, t)) THEN d.prioritized \cup {t}
                   ELSE d.prioritized \ {t}
  OBVIOUS
<1>10. /\ w \in [Categories -> Int]
       /\ \A c \in Categories : w[c] = IF c = CategoryOf[t] THEN d.desired[c] + n - d.target[t]
                                                           ELSE d.desired[c]
  <2>1. d.desired \in [Categories -> Int]
    BY DEF DbType
  <2>2. d.desired[CategoryOf[t]] + n - d.target[t] \in Int
    BY <1>5, <1>6, <2>1
  <2>3. QED  BY <1>6, <1>7, <2>1, <2>2
<1>11. /\ a \in [Tests -> 0 .. MaxTarget]
       /\ \A s \in Tests : a[s] = IF s = t THEN n ELSE d.target[s]
  BY <1>5, <1>8 DEF DbType
<1>12. /\ p \in SUBSET Tests
       /\ \A s \in Tests : s # t => (s \in p <=> s \in d.prioritized)
       /\ t \in p <=> n > Cardinality(Doing(g, t))
  BY <1>9 DEF DbType
<1>13. PICK u : u = [g EXCEPT !.target = a, !.desired = w, !.prioritized = p]
  OBVIOUS
<1>14. /\ u \in DbType /\ u.machine = g.machine /\ u.queued = g.queued
       /\ u.booted = g.booted /\ u.unbootable = g.unbootable /\ u.wish = g.wish
       /\ u.missed = g.missed /\ u.deploy = g.deploy
       /\ u.target = a /\ u.desired = w /\ u.prioritized = p
  BY <1>3, <1>10, <1>11, <1>12, <1>13 DEF DbType
<1>15. Updated(d, t) = u
  BY <1>1, <1>3, <1>4, <1>7, <1>8, <1>9, <1>13 DEF Updated
<1>16. /\ e \in DbType /\ e.machine = g.machine
       /\ e.booted = g.booted /\ e.unbootable = g.unbootable /\ e.wish = g.wish
       /\ e.missed = g.missed /\ e.deploy = g.deploy
       /\ e.target = a /\ e.desired = w /\ e.prioritized = p
       /\ d.queued \ {t} \subseteq e.queued
  <2>1. CASE e = u
    BY <1>3, <1>14, <2>1
  <2>2. CASE e = [u EXCEPT !.queued = @ \ {t}]
    <3>1. PICK q : q = u.queued \ {t}
      OBVIOUS
    <3>2. q \in SUBSET Tests /\ d.queued \ {t} \subseteq q
      BY <1>3, <1>14, <3>1 DEF DbType
    <3>3. e = [u EXCEPT !.queued = q]
      BY <1>14, <2>2, <3>1 DEF DbType
    <3>4. QED  BY <1>14, <3>2, <3>3 DEF DbType
  <2>3. QED  BY <1>15, <2>1, <2>2
<1>17. SameMachines(d, e) /\ NothingNew(d, e) /\ Stops(d, e, Stopped(d, t))
  BY <1>3, <1>16 DEF SameMachines, NothingNew, Stops
<1>18. Doing(e, t) = Doing(g, t)
  BY <1>16 DEF Doing
<1>19. QED  BY <1>3, <1>4, <1>10, <1>11, <1>12, <1>16, <1>17, <1>18 DEF UpdatedFields

(* The counts follow the one test. *)
LEMMA UpdatedCounts ==
  ASSUME NEW d \in DbType, NEW t \in Tests, NEW e, UpdatedFields(d, t, e), MaxTarget <= 1,
         CountsRight(d)
  PROVE  CountsRight(e)
<1> SUFFICES ASSUME NEW c \in Categories \ e.unbootable
             PROVE  e.desired[c] = Cardinality(WantedTests(e, c)) + Cardinality(WantedDeploys(e, c))
                                   - Cardinality(MissedOf(e, c))
  BY DEF CountsRight
<1>1. WantedDeploys(e, c) = WantedDeploys(d, c) /\ MissedOf(e, c) = MissedOf(d, c)
  BY DEF UpdatedFields, WantedDeploys, MissedOf
<1>2. d.desired[c] = Cardinality(WantedTests(d, c)) + Cardinality(WantedDeploys(d, c))
                     - Cardinality(MissedOf(d, c))
  BY DEF CountsRight, UpdatedFields
<1>3. /\ IsFiniteSet(WantedTests(d, c)) /\ Cardinality(WantedTests(d, c)) \in Nat
      /\ Cardinality(WantedDeploys(d, c)) \in Nat /\ Cardinality(MissedOf(d, c)) \in Nat
  BY CountsFinite
<1>4. \A s \in Tests : e.target[s] = IF s = t THEN Target(d, t) ELSE d.target[s]
  BY DEF UpdatedFields
<1>5. e.desired[c] = IF c = CategoryOf[t] THEN d.desired[c] + Target(d, t) - d.target[t]
                                          ELSE d.desired[c]
  BY DEF UpdatedFields
<1>6. CASE c # CategoryOf[t]
  <2>1. WantedTests(e, c) = WantedTests(d, c)
    BY <1>4, <1>6 DEF WantedTests, TestsOf
  <2>2. QED  BY <1>1, <1>2, <1>5, <1>6, <2>1
<1>7. CASE c = CategoryOf[t]
  <2>1. Target(d, t) \in {0, 1} /\ d.target[t] \in {0, 1}
    BY TargetType
  <2>2. /\ t \in WantedTests(d, c) <=> d.target[t] = 1
        /\ WantedTests(e, c) = IF Target(d, t) = 1 THEN WantedTests(d, c) \cup {t}
                               ELSE WantedTests(d, c) \ {t}
    BY <1>4, <1>7 DEF WantedTests, TestsOf
  <2>3. Cardinality(WantedTests(e, c)) =
          Cardinality(WantedTests(d, c)) + Target(d, t) - d.target[t]
    <3>1. CASE Target(d, t) = 1
      <4>1. Cardinality(WantedTests(e, c)) = IF t \in WantedTests(d, c)
                                             THEN Cardinality(WantedTests(d, c))
                                             ELSE Cardinality(WantedTests(d, c)) + 1
        BY <1>3, <2>2, <3>1, FS_AddElement
      <4>2. QED  BY <1>3, <2>1, <2>2, <3>1, <4>1
    <3>2. CASE Target(d, t) = 0
      <4>1. WantedTests(e, c) = WantedTests(d, c) \ {t}
        BY <2>2, <3>2
      <4>2. Cardinality(WantedTests(d, c) \ {t}) = IF t \in WantedTests(d, c)
                                                    THEN Cardinality(WantedTests(d, c)) - 1
                                                    ELSE Cardinality(WantedTests(d, c))
        BY <1>3, FS_RemoveElement
      <4>3. QED  BY <1>3, <2>1, <2>2, <3>2, <4>1, <4>2
    <3>3. QED  BY <2>1, <3>1, <3>2
  <2>4. QED  BY <1>1, <1>2, <1>3, <1>5, <1>7, <2>1, <2>3
<1>8. QED  BY <1>6, <1>7

(* After the update of a test everything about it is right. *)
LEMMA UpdatedDb ==
  ASSUME NEW d, NEW t \in Tests, DbInvBut(d, {t}), NEW e,
         e = Updated(d, t) \/ e = [Updated(d, t) EXCEPT !.queued = @ \ {t}]
  PROVE  DbInv(e) /\ SameMachines(d, e) /\ NothingNew(d, e)
<1>1. d \in DbType /\ Frame(d)
  BY DEF DbInvBut, Frame
<1>2. UpdatedFields(d, t, e)
  BY <1>1, UpdatedIs
<1>3. Frame(e)
  BY <1>1, <1>2, FrameKept DEF UpdatedFields
<1>4. \A s \in Tests : Doing(e, s) = IF s = t THEN Doing(d, t) \ Stopped(d, t) ELSE Doing(d, s)
  <2> SUFFICES ASSUME NEW s \in Tests
               PROVE  Doing(e, s) = IF s = t THEN Doing(d, t) \ Stopped(d, t) ELSE Doing(d, s)
    OBVIOUS
  <2>1. Doing(e, s) = Doing(d, s) \ Stopped(d, t)
    <3>1. Stops(d, e, Stopped(d, t))
      BY <1>2 DEF UpdatedFields
    <3>2. QED  BY <3>1, DoingAfter
  <2>2. s # t => Doing(d, s) \cap Stopped(d, t) = {}
    BY DEF Stopped, Doing
  <2>3. QED  BY <2>1, <2>2
<1>5. Bootable(e) = Bootable(d) /\ \A s \in Tests : Target(e, s) = Target(d, s)
  BY <1>2 DEF UpdatedFields, Bootable, Target
<1>6. FollowsBut(e, {})
  <2> SUFFICES ASSUME NEW s \in Bootable(e)  PROVE s \in e.queued \/ e.target[s] = Target(e, s)
    BY DEF FollowsBut
  <2>1. s \in Tests
    BY DEF Bootable
  <2>2. CASE s = t
    BY <1>2, <1>5, <2>1, <2>2 DEF UpdatedFields
  <2>3. CASE s # t
    <3>1. s \in d.queued \/ d.target[s] = Target(d, s)
      BY <1>5, <2>3 DEF DbInvBut, FollowsBut
    <3>2. QED  BY <1>2, <1>5, <2>1, <2>3, <3>1 DEF UpdatedFields
  <2>4. QED  BY <2>2, <2>3
<1>7. ASSUME MaxTarget <= 1, NEW s \in Bootable(e)
      PROVE  OneRun(e, s) /\ TestSound(e, s)
  <2>1. s \in Tests /\ OneRun(d, s) /\ (s # t => TestSound(d, s))
    BY <1>5, <1>7 DEF DbInvBut, TestsSound, Bootable
  <2>2. CASE s # t
    <3>1. /\ Doing(e, s) = Doing(d, s) /\ e.wish = d.wish /\ e.target[s] = d.target[s]
          /\ s \in e.prioritized <=> s \in d.prioritized
          /\ s \in d.queued => s \in e.queued
      BY <1>2, <1>4, <2>1, <2>2 DEF UpdatedFields
    <3>2. OneRun(e, s)
      BY <2>1, <3>1 DEF OneRun
    <3>3. TestSound(e, s)
      BY <2>1, <2>2, <3>1 DEF TestSound
    <3>4. QED  BY <3>2, <3>3
  <2>3. CASE s = t
    <3>1. /\ e.wish = d.wish /\ e.target[t] = Target(d, t)
          /\ t \in e.prioritized <=> Target(d, t) > Cardinality(Doing(e, t))
      BY <1>2 DEF UpdatedFields
    <3>2. Doing(e, t) \subseteq Doing(d, t)
      BY <1>4
    <3>3. OneRun(e, t)
      BY <2>1, <2>3, <3>1, <3>2 DEF OneRun
    <3>4. Doing(e, t) \subseteq Machines
      BY DEF Doing
    <3>5. /\ IsFiniteSet(Doing(e, t)) /\ Cardinality(Doing(e, t)) \in Nat
          /\ Cardinality(Doing(e, t)) = 0 <=> Doing(e, t) = {}
      BY <3>4, FiniteParts, FS_EmptySet
    <3>6. CategoryOf[t] \notin d.unbootable
      BY <1>2, <2>3 DEF Bootable, UpdatedFields
    <3>7. d.wish[t] \in {-1, 0, 1} /\ Unwanted = -1
      BY <1>1, <1>7, MachineAssumption DEF DbType, Unwanted
    <3>8. CASE d.wish[t] = 1
      <4>1. Target(d, t) = 1
        BY <3>6, <3>7, <3>8 DEF Target
      <4>2. QED  BY <2>3, <3>1, <3>3, <3>5, <3>8, <4>1 DEF TestSound
    <3>9. CASE d.wish[t] # 1
      <4>1. Target(d, t) = 0
        BY <3>6, <3>7, <3>9 DEF Target
      <4>2. Doing(e, t) = {}
        <5>1. CASE d.wish[t] = 0
          BY <2>1, <2>3, <3>2, <5>1 DEF OneRun
        <5>2. CASE d.wish[t] = Unwanted
          BY <1>4, <5>2 DEF Stopped
        <5>3. QED  BY <3>7, <3>9, <5>1, <5>2
      <4>3. QED  BY <2>3, <3>1, <3>3, <3>5, <4>1, <4>2 DEF TestSound
    <3>10. QED  BY <3>8, <3>9
  <2>4. QED  BY <2>2, <2>3
<1>8. ASSUME MaxTarget <= 1  PROVE CountsRight(e)
  BY <1>1, <1>2, <1>8, UpdatedCounts DEF DbInvBut
<1>9. QED  BY <1>2, <1>3, <1>6, <1>7, <1>8 DEF DbInv, DbInvBut, TestsSound, UpdatedFields

(* Sound is sound enough for an update. *)
LEMMA ButOne ==
  ASSUME NEW d, DbInv(d), NEW t
  PROVE  DbInvBut(d, {t})
<1>1. FollowsBut(d, {t})
  BY DEF DbInv, DbInvBut, FollowsBut
<1>2. MaxTarget <= 1 => TestsSound(d, {t}) /\ CountsRight(d)
  BY DEF DbInv, DbInvBut, TestsSound
<1>3. QED  BY <1>1, <1>2 DEF DbInv, DbInvBut

(* Users change what a test wants, and the test is queued. *)
LEMMA WishDb ==
  ASSUME NEW d, DbInv(d), NEW t \in Tests, NEW n \in Unwanted .. MaxTarget, n # 0, NEW e,
         e = [d EXCEPT !.wish[t] = n, !.queued = @ \cup {t}]
  PROVE  DbInv(e) /\ SameMachines(d, e) /\ NothingNew(d, e)
<1>1. d \in DbType /\ Frame(d)
  BY DEF DbInv, DbInvBut, Frame
<1>2. PICK w : w = [d.wish EXCEPT ![t] = n]
  OBVIOUS
<1>3. PICK q : q = d.queued \cup {t}
  OBVIOUS
<1>4. /\ w \in [Tests -> Unwanted .. MaxTarget] /\ w[t] = n
      /\ \A s \in Tests : s # t => w[s] = d.wish[s]
      /\ q \in SUBSET Tests
  BY <1>1, <1>2, <1>3 DEF DbType
<1>5. e = [d EXCEPT !.wish = w, !.queued = q]
  BY <1>1, <1>2, <1>3 DEF DbType
<1>6. /\ e \in DbType /\ e.wish = w /\ e.queued = q
      /\ e.booted = d.booted /\ e.unbootable = d.unbootable /\ e.machine = d.machine
      /\ e.desired = d.desired /\ e.target = d.target
      /\ e.prioritized = d.prioritized /\ e.missed = d.missed /\ e.deploy = d.deploy
  BY <1>1, <1>4, <1>5 DEF DbType
<1>7. SameMachines(d, e) /\ NothingNew(d, e) /\ \A s : Doing(e, s) = Doing(d, s)
  BY <1>6 DEF SameMachines, NothingNew, Doing
<1>8. Frame(e)
  BY <1>1, <1>6, <1>7, FrameKept
<1>9. FollowsBut(e, {})
  <2> SUFFICES ASSUME NEW s \in Bootable(e)  PROVE s \in e.queued \/ e.target[s] = Target(e, s)
    BY DEF FollowsBut
  <2>1. CASE s = t
    BY <1>3, <1>6, <2>1
  <2>2. CASE s # t
    <3>1. s \in Bootable(d) /\ s \in Tests /\ Target(e, s) = Target(d, s)
      BY <1>4, <1>6, <2>2 DEF Bootable, Target
    <3>2. s \in d.queued \/ d.target[s] = Target(d, s)
      BY <3>1 DEF DbInv, DbInvBut, FollowsBut
    <3>3. QED  BY <1>3, <1>6, <3>1, <3>2
  <2>3. QED  BY <2>1, <2>2
<1>10. ASSUME MaxTarget <= 1, NEW s \in Bootable(e)  PROVE OneRun(e, s) /\ TestSound(e, s)
  <2>1. s \in Tests /\ OneRun(d, s) /\ TestSound(d, s)
    BY <1>6, <1>10 DEF DbInv, DbInvBut, TestsSound, Bootable
  <2>2. d.wish[s] # 0 => e.wish[s] # 0
    BY <1>4, <1>6, <2>1
  <2>3. s \in d.queued => s \in e.queued
    BY <1>3, <1>6
  <2>4. OneRun(e, s)
    BY <1>7, <2>1, <2>2 DEF OneRun
  <2>5. TestSound(e, s)
    BY <1>6, <1>7, <2>1, <2>2, <2>3 DEF TestSound
  <2>6. QED  BY <2>4, <2>5
<1>11. CountsRight(d) => CountsRight(e)
  BY <1>6, CountsKept
<1>12. QED  BY <1>7, <1>8, <1>9, <1>10, <1>11 DEF DbInv, DbInvBut, TestsSound

(* startNewTest gives a test that waits to a machine that does nothing.       *)
LEMMA RunDb ==
  ASSUME NEW d, DbInv(d), NEW m \in Machines, d.machine[m].doing = Nothing,
         NEW t \in d.prioritized, CategoryOf[t] = d.machine[m].cat, NEW e,
         e = [d EXCEPT !.machine[m].doing = t]
  PROVE  DbInvBut(e, {t}) /\ SameMachines(d, e) /\ t \in Tests
<1>0. /\ d \in DbType /\ Frame(d) /\ t \in Tests
      /\ Nothing \notin Tests \cup Deploys /\ Tests \cap Deploys = {}
  BY MachineAssumption DEF DbInv, DbInvBut, Frame, DbType
<1>1. PICK f : f = [d.machine EXCEPT ![m] = [d.machine[m] EXCEPT !.doing = t]]
  OBVIOUS
<1>2. /\ f \in [Machines -> MachineType] /\ f[m].doing = t
      /\ \A n \in Machines : f[n].alive = d.machine[n].alive /\ f[n].cat = d.machine[n].cat
      /\ \A n \in Machines : n # m => f[n].doing = d.machine[n].doing
  BY <1>0, <1>1 DEF DbType, MachineType
<1>3. e = [d EXCEPT !.machine = f]
  BY <1>0, <1>1 DEF DbType
<1>4. /\ e \in DbType /\ e.machine = f
      /\ e.booted = d.booted /\ e.unbootable = d.unbootable
      /\ e.desired = d.desired /\ e.wish = d.wish /\ e.target = d.target
      /\ e.prioritized = d.prioritized /\ e.queued = d.queued /\ e.missed = d.missed
      /\ e.deploy = d.deploy
  BY <1>0, <1>2, <1>3 DEF DbType
<1>5. SameMachines(d, e)
  BY <1>2, <1>4 DEF SameMachines
<1>6. /\ Alive(e) = Alive(d) /\ \A c : AliveOf(e, c) = AliveOf(d, c)
      /\ Alive(d) \subseteq Machines
      /\ \A S \in SUBSET Machines : WithinLimits(e, S) <=> WithinLimits(d, S)
  BY <1>5, SameAlive DEF Alive
<1>7. MachinesSound(e) /\ OnePlace(e)
  <2>1. MachinesSound(d) /\ OnePlace(d)
    BY <1>0 DEF Frame
  <2>2. MachinesSound(e)
    BY <1>0, <1>2, <1>4, <2>1 DEF MachinesSound
  <2>3. OnePlace(e)
    BY <1>0, <1>2, <1>4, <2>1 DEF OnePlace
  <2>4. QED  BY <2>2, <2>3
<1>8. BootedIs(e) /\ WithinLimits(e, Alive(e))
  BY <1>0, <1>4, <1>6 DEF Frame, BootedIs
<1>9. Frame(e)
  BY <1>4, <1>7, <1>8 DEF Frame
<1>10. \A s \in Tests : Doing(e, s) = IF s = t THEN Doing(d, t) \cup {m} ELSE Doing(d, s)
  BY <1>0, <1>2, <1>4 DEF Doing
<1>11. FollowsBut(e, {t})
  BY <1>4 DEF DbInv, DbInvBut, FollowsBut, Bootable, Target
<1>12. ASSUME MaxTarget <= 1, NEW s \in Bootable(e)
       PROVE  OneRun(e, s) /\ (s \notin {t} => TestSound(e, s))
  <2>1. s \in Tests /\ OneRun(d, s) /\ TestSound(d, s)
    BY <1>4, <1>12 DEF DbInv, DbInvBut, TestsSound, Bootable
  <2>2. CASE s = t
    <3>1. Doing(d, t) = {} /\ d.wish[t] # 0
      BY <2>1, <2>2 DEF TestSound
    <3>2. Doing(e, t) = {m}
      BY <1>0, <1>10, <3>1
    <3>3. QED  BY <1>4, <2>2, <3>1, <3>2 DEF OneRun
  <2>3. CASE s # t
    <3>1. Doing(e, s) = Doing(d, s)
      BY <1>10, <2>1, <2>3
    <3>2. QED  BY <1>4, <2>1, <3>1 DEF OneRun, TestSound
  <2>4. QED  BY <2>2, <2>3
<1>13. CountsRight(d) => CountsRight(e)
  BY <1>4, CountsKept
<1>14. QED  BY <1>0, <1>5, <1>9, <1>11, <1>12, <1>13 DEF DbInv, DbInvBut, TestsSound

(* recordTestResults: the run is over, and the test wants one less. *)
LEMMA RecordDb ==
  ASSUME NEW d, DbInv(d), NEW m \in Machines, NEW t \in Tests, d.machine[m].doing = t,
         NEW e, e = [Without(d, {m}) EXCEPT !.wish[t] = IF @ > 0 THEN @ - 1 ELSE @]
  PROVE  DbInvBut(e, {t}) /\ SameMachines(d, e) /\ NothingNew(d, e)
<1>0. d \in DbType /\ Frame(d)
  BY DEF DbInv, DbInvBut, Frame
<1>1. PICK g : g = Without(d, {m})
  OBVIOUS
<1>2. /\ g \in DbType /\ SameMachines(d, g) /\ NothingNew(d, g)
      /\ g.booted = d.booted /\ g.unbootable = d.unbootable
      /\ g.desired = d.desired /\ g.wish = d.wish /\ g.target = d.target
      /\ g.prioritized = d.prioritized /\ g.queued = d.queued /\ g.missed = d.missed
      /\ g.deploy = d.deploy
      /\ Stops(d, g, {m})
  BY <1>0, <1>1, WithoutIs
<1>3. PICK k : k = IF d.wish[t] > 0 THEN d.wish[t] - 1 ELSE d.wish[t]
  OBVIOUS
<1>4. k \in Unwanted .. MaxTarget
  <2>1. d.wish[t] \in Unwanted .. MaxTarget /\ MaxTarget \in Nat
    BY <1>0, MachineAssumption DEF DbType
  <2>2. QED  BY <1>3, <2>1 DEF Unwanted
<1>5. PICK w : w = [d.wish EXCEPT ![t] = k]
  OBVIOUS
<1>6. w \in [Tests -> Unwanted .. MaxTarget] /\ \A s \in Tests : s # t => w[s] = d.wish[s]
  BY <1>0, <1>4, <1>5 DEF DbType
<1>7. e = [g EXCEPT !.wish = w]
  BY <1>1, <1>2, <1>3, <1>5 DEF DbType
<1>8. /\ e \in DbType /\ e.machine = g.machine /\ e.wish = w
      /\ e.booted = d.booted /\ e.unbootable = d.unbootable
      /\ e.desired = d.desired /\ e.target = d.target
      /\ e.prioritized = d.prioritized /\ e.queued = d.queued /\ e.missed = d.missed
      /\ e.deploy = d.deploy
  BY <1>2, <1>6, <1>7 DEF DbType
<1>9. SameMachines(d, e) /\ NothingNew(d, e)
  BY <1>2, <1>8 DEF SameMachines, NothingNew
<1>10. Frame(e)
  BY <1>0, <1>8, <1>9, FrameKept
<1>11. \A s \in Tests : Doing(e, s) = Doing(d, s) \ {m}
  <2>1. Stops(d, e, {m})
    BY <1>2, <1>8 DEF Stops
  <2>2. QED  BY <2>1, DoingAfter
<1>12. FollowsBut(e, {t})
  <2> SUFFICES ASSUME NEW s \in Bootable(e), s # t
               PROVE  s \in e.queued \/ e.target[s] = Target(e, s)
    BY DEF FollowsBut
  <2>1. s \in Bootable(d) /\ Target(e, s) = Target(d, s)
    BY <1>6, <1>8 DEF Bootable, Target
  <2>2. QED  BY <1>8, <2>1 DEF DbInv, DbInvBut, FollowsBut
<1>13. ASSUME MaxTarget <= 1, NEW s \in Bootable(e)
       PROVE  OneRun(e, s) /\ (s \notin {t} => TestSound(e, s))
  <2>1. s \in Tests /\ OneRun(d, s) /\ TestSound(d, s)
    BY <1>8, <1>13 DEF DbInv, DbInvBut, TestsSound, Bootable
  <2>2. CASE s = t
    <3>1. Doing(e, t) = {}
      <4>1. m \in Doing(d, t)
        BY DEF Doing
      <4>2. QED  BY <1>11, <2>1, <2>2, <4>1 DEF OneRun
    <3>2. QED  BY <2>2, <3>1 DEF OneRun
  <2>3. CASE s # t
    <3>1. Doing(e, s) = Doing(d, s) /\ e.wish[s] = d.wish[s]
      BY <1>6, <1>8, <1>11, <2>1, <2>3 DEF Doing
    <3>2. QED  BY <1>8, <2>1, <3>1 DEF OneRun, TestSound
  <2>4. QED  BY <2>2, <2>3
<1>14. CountsRight(d) => CountsRight(e)
  BY <1>8, CountsKept
<1>15. QED  BY <1>9, <1>10, <1>12, <1>13, <1>14 DEF DbInv, DbInvBut, TestsSound

(* A deployment is created, or is over. *)
DeployFields(d, x, new, k, g) ==
    /\ g \in DbType /\ g.machine = d.machine
    /\ g.booted = d.booted /\ g.unbootable = d.unbootable
    /\ g.wish = d.wish /\ g.target = d.target
    /\ g.prioritized = d.prioritized /\ g.queued = d.queued /\ g.missed = d.missed
    /\ \A c \in Categories : g.desired[c] = IF c = CategoryOf[x] THEN d.desired[c] + k
                                                                 ELSE d.desired[c]
    /\ \A y \in Deploys : g.deploy[y] = IF y = x THEN new ELSE d.deploy[y]

(* The database says so. *)
LEMMA DeployIs ==
  ASSUME NEW d \in DbType, NEW x \in Deploys, NEW new \in {"none", "pending"}, NEW k \in {1, -1},
         NEW g, g = [d EXCEPT !.deploy[x] = new, !.desired[CategoryOf[x]] = @ + k]
  PROVE  DeployFields(d, x, new, k, g)
<1>0. CategoryOf[x] \in Categories
  BY MachineAssumption
<1>1. PICK w : w = [d.desired EXCEPT ![CategoryOf[x]] = d.desired[CategoryOf[x]] + k]
  OBVIOUS
<1>2. PICK p : p = [d.deploy EXCEPT ![x] = new]
  OBVIOUS
<1>3. /\ w \in [Categories -> Int] /\ p \in [Deploys -> {"none", "pending", "running"}]
      /\ \A c \in Categories : w[c] = IF c = CategoryOf[x] THEN d.desired[c] + k ELSE d.desired[c]
      /\ \A y \in Deploys : p[y] = IF y = x THEN new ELSE d.deploy[y]
  <2>1. d.desired[CategoryOf[x]] + k \in Int
    BY <1>0 DEF DbType
  <2>2. QED  BY <1>0, <1>1, <1>2, <2>1 DEF DbType
<1>4. g = [d EXCEPT !.deploy = p, !.desired = w]
  BY <1>0, <1>1, <1>2 DEF DbType
<1>5. /\ g \in DbType /\ g.desired = w /\ g.deploy = p /\ g.machine = d.machine
      /\ g.booted = d.booted /\ g.unbootable = d.unbootable
      /\ g.wish = d.wish /\ g.target = d.target
      /\ g.prioritized = d.prioritized /\ g.queued = d.queued /\ g.missed = d.missed
  BY <1>0, <1>3, <1>4 DEF DbType
<1>6. QED  BY <1>3, <1>5 DEF DeployFields

(* Its machines stop, and one more or one less is desired. *)
LEMMA DeployDb ==
  ASSUME NEW d, DbInv(d), NEW x \in Deploys, NEW new \in {"none", "pending"},
         NEW k \in {1, -1}, IF k = 1 THEN d.deploy[x] = "none" /\ new = "pending"
                                     ELSE d.deploy[x] # "none" /\ new = "none",
         NEW g, DeployFields(d, x, new, k, g),
         NEW S, S = Doing(d, x), NEW e, e = Without(g, S)
  PROVE  DbInv(e) /\ SameMachines(d, e) /\ NothingNew(d, e)
<1>0. d \in DbType /\ Frame(d) /\ CategoryOf[x] \in Categories
  BY MachineAssumption DEF DbInv, DbInvBut, Frame
<1>1. /\ e \in DbType /\ SameMachines(g, e) /\ NothingNew(g, e)
      /\ e.booted = g.booted /\ e.unbootable = g.unbootable
      /\ e.desired = g.desired /\ e.wish = g.wish /\ e.target = g.target
      /\ e.prioritized = g.prioritized /\ e.queued = g.queued /\ e.missed = g.missed
      /\ e.deploy = g.deploy /\ Stops(g, e, S)
  <2>1. g \in DbType
    BY DEF DeployFields
  <2>2. QED  BY <2>1, WithoutIs
<1>3. /\ \A c \in Categories : e.desired[c] = IF c = CategoryOf[x] THEN d.desired[c] + k
                                                                   ELSE d.desired[c]
      /\ \A y \in Deploys : e.deploy[y] = IF y = x THEN new ELSE d.deploy[y]
  BY <1>1 DEF DeployFields
<1>6. /\ e \in DbType /\ e.booted = d.booted /\ e.unbootable = d.unbootable
      /\ e.wish = d.wish /\ e.target = d.target
      /\ e.prioritized = d.prioritized /\ e.queued = d.queued /\ e.missed = d.missed
      /\ SameMachines(d, e) /\ NothingNew(d, e) /\ Stops(d, e, S)
  <2>1. g.machine = d.machine
    BY DEF DeployFields
  <2>2. SameMachines(d, e) /\ NothingNew(d, e) /\ Stops(d, e, S)
    BY <1>1, <2>1 DEF SameMachines, NothingNew, Stops
  <2>3. QED  BY <1>1, <2>2 DEF DeployFields
<1>7. \A m \in Machines : e.machine[m].doing # x
  <2>1. Nothing # x
    BY MachineAssumption
  <2>2. QED  BY <1>6, <2>1 DEF Doing, Stops
<1>8. Frame(e)
  <2>1. \A m \in Machines : e.machine[m].doing \in Deploys =>
            e.deploy[e.machine[m].doing] = d.deploy[e.machine[m].doing]
    BY <1>3, <1>6, <1>7
  <2>2. QED  BY <1>0, <1>6, <2>1, FrameKept
<1>9. \A t \in Tests : Doing(e, t) = Doing(d, t)
  <2> SUFFICES ASSUME NEW t \in Tests  PROVE Doing(e, t) = Doing(d, t)
    OBVIOUS
  <2>1. Doing(e, t) = Doing(d, t) \ S
    BY <1>6, DoingAfter
  <2>2. Doing(d, t) \cap Doing(d, x) = {}
    BY MachineAssumption DEF Doing
  <2>3. QED  BY <2>1, <2>2
<1>10. /\ FollowsBut(d, {}) => FollowsBut(e, {})
       /\ TestsSound(d, {}) => TestsSound(e, {})
  BY <1>6, <1>9, TestsKept
<1>11. ASSUME CountsRight(d)  PROVE CountsRight(e)
  <2> SUFFICES ASSUME NEW c \in Categories \ e.unbootable
               PROVE  e.desired[c] = Cardinality(WantedTests(e, c))
                                     + Cardinality(WantedDeploys(e, c))
                                     - Cardinality(MissedOf(e, c))
    BY DEF CountsRight
  <2>1. WantedTests(e, c) = WantedTests(d, c) /\ MissedOf(e, c) = MissedOf(d, c)
    BY <1>6 DEF WantedTests, MissedOf
  <2>2. d.desired[c] = Cardinality(WantedTests(d, c)) + Cardinality(WantedDeploys(d, c))
                       - Cardinality(MissedOf(d, c))
    BY <1>6, <1>11 DEF CountsRight
  <2>3. /\ IsFiniteSet(WantedDeploys(d, c)) /\ Cardinality(WantedTests(d, c)) \in Nat
        /\ Cardinality(WantedDeploys(d, c)) \in Nat /\ Cardinality(MissedOf(d, c)) \in Nat
    BY <1>0, CountsFinite
  <2>4. /\ e.desired[c] = IF c = CategoryOf[x] THEN d.desired[c] + k ELSE d.desired[c]
        /\ \A y \in Deploys : e.deploy[y] = IF y = x THEN new ELSE d.deploy[y]
    BY <1>3
  <2>5. CASE c # CategoryOf[x]
    <3>1. WantedDeploys(e, c) = WantedDeploys(d, c)
      BY <2>4, <2>5 DEF WantedDeploys
    <3>2. QED  BY <2>1, <2>2, <2>4, <2>5, <3>1
  <2>6. CASE c = CategoryOf[x] /\ k = 1
    <3>1. WantedDeploys(e, c) = WantedDeploys(d, c) \cup {x} /\ x \notin WantedDeploys(d, c)
      BY <2>4, <2>6 DEF WantedDeploys
    <3>2. Cardinality(WantedDeploys(e, c)) = Cardinality(WantedDeploys(d, c)) + 1
      BY <2>3, <3>1, FS_AddElement
    <3>3. QED  BY <2>1, <2>2, <2>3, <2>4, <2>6, <3>2
  <2>7. CASE c = CategoryOf[x] /\ k = -1
    <3>1. WantedDeploys(e, c) = WantedDeploys(d, c) \ {x} /\ x \in WantedDeploys(d, c)
      BY <2>4, <2>7 DEF WantedDeploys
    <3>2. Cardinality(WantedDeploys(d, c) \ {x}) = IF x \in WantedDeploys(d, c)
                                                    THEN Cardinality(WantedDeploys(d, c)) - 1
                                                    ELSE Cardinality(WantedDeploys(d, c))
      BY <2>3, FS_RemoveElement
    <3>3. QED  BY <2>1, <2>2, <2>3, <2>4, <2>7, <3>1, <3>2
  <2>8. QED  BY <2>5, <2>6, <2>7
<1>12. QED  BY <1>6, <1>8, <1>10, <1>11 DEF DbInv, DbInvBut

(* A deployment is given to a machine that does nothing. *)
LEMMA StartDeploymentDb ==
  ASSUME NEW d, DbInv(d), NEW m \in Machines, d.machine[m].alive, d.machine[m].doing = Nothing,
         NEW x \in Deploys, d.deploy[x] = "pending", CategoryOf[x] = d.machine[m].cat, NEW e,
         e = [d EXCEPT !.deploy[x] = "running", !.machine[m].doing = x]
  PROVE  DbInv(e) /\ SameMachines(d, e)
<1>0. /\ d \in DbType /\ Frame(d)
      /\ Nothing \notin Tests \cup Deploys /\ Tests \cap Deploys = {}
  BY MachineAssumption DEF DbInv, DbInvBut, Frame
<1>1. PICK f : f = [d.machine EXCEPT ![m] = [d.machine[m] EXCEPT !.doing = x]]
  OBVIOUS
<1>2. /\ f \in [Machines -> MachineType] /\ f[m].doing = x
      /\ \A n \in Machines : f[n].alive = d.machine[n].alive /\ f[n].cat = d.machine[n].cat
      /\ \A n \in Machines : n # m => f[n].doing = d.machine[n].doing
  BY <1>0, <1>1 DEF DbType, MachineType
<1>3. PICK p : p = [d.deploy EXCEPT ![x] = "running"]
  OBVIOUS
<1>4. /\ p \in [Deploys -> {"none", "pending", "running"}]
      /\ \A y \in Deploys : p[y] = IF y = x THEN "running" ELSE d.deploy[y]
  BY <1>0, <1>3 DEF DbType
<1>5. e = [d EXCEPT !.deploy = p, !.machine = f]
  BY <1>0, <1>1, <1>3 DEF DbType
<1>6. /\ e \in DbType /\ e.machine = f /\ e.deploy = p
      /\ e.booted = d.booted /\ e.unbootable = d.unbootable
      /\ e.desired = d.desired /\ e.wish = d.wish /\ e.target = d.target
      /\ e.prioritized = d.prioritized /\ e.queued = d.queued /\ e.missed = d.missed
  <2>1. PICK M : M = MachineType
    OBVIOUS
  <2>2. f \in [Machines -> M]
    BY <1>2, <2>1
  <2>3. QED  BY <1>0, <1>4, <1>5, <2>1, <2>2 DEF DbType
<1>7. SameMachines(d, e)
  BY <1>2, <1>6 DEF SameMachines
<1>8. /\ Alive(e) = Alive(d) /\ \A c : AliveOf(e, c) = AliveOf(d, c)
      /\ Alive(d) \subseteq Machines
      /\ \A S \in SUBSET Machines : WithinLimits(e, S) <=> WithinLimits(d, S)
  BY <1>7, SameAlive DEF Alive
<1>9. MachinesSound(e) /\ OnePlace(e)
  <2>1. MachinesSound(d) /\ OnePlace(d)
    BY <1>0 DEF Frame
  <2>2. \A n \in Machines : d.machine[n].doing # x
    BY <2>1 DEF MachinesSound
  <2>3. MachinesSound(e)
    BY <1>0, <1>2, <1>4, <1>6, <2>1 DEF MachinesSound
  <2>4. OnePlace(e)
    BY <1>0, <1>2, <1>6, <2>1, <2>2 DEF OnePlace
  <2>5. QED  BY <2>3, <2>4
<1>10. BootedIs(e) /\ WithinLimits(e, Alive(e))
  BY <1>0, <1>6, <1>8 DEF Frame, BootedIs
<1>11. Frame(e)
  BY <1>6, <1>9, <1>10 DEF Frame
<1>12. \A t \in Tests : Doing(e, t) = Doing(d, t)
  BY <1>0, <1>2, <1>6 DEF Doing
<1>13. /\ FollowsBut(d, {}) => FollowsBut(e, {})
       /\ TestsSound(d, {}) => TestsSound(e, {})
  BY <1>6, <1>12, TestsKept
<1>14. CountsRight(d) => CountsRight(e)
  <2>1. \A c : /\ WantedTests(e, c) = WantedTests(d, c)
               /\ WantedDeploys(e, c) = WantedDeploys(d, c)
               /\ MissedOf(e, c) = MissedOf(d, c)
    BY <1>4, <1>6 DEF WantedTests, WantedDeploys, MissedOf
  <2>2. QED  BY <1>6, <2>1 DEF CountsRight
<1>15. QED  BY <1>7, <1>11, <1>13, <1>14 DEF DbInv, DbInvBut

(* A category is given up; tests that waited for it are queued. *)
LEMMA UnbootableDb ==
  ASSUME NEW d, DbInv(d), NEW c \in Categories, NEW Q, Q \subseteq Tests, NEW e,
         e = [d EXCEPT !.unbootable = @ \cup {c}, !.desired[c] = 0, !.queued = @ \cup Q]
  PROVE  DbInv(e) /\ SameMachines(d, e) /\ NothingNew(d, e)
<1>0. d \in DbType /\ Frame(d)
  BY DEF DbInv, DbInvBut, Frame
<1>1. PICK w : w = [d.desired EXCEPT ![c] = 0]
  OBVIOUS
<1>2. PICK U : U = d.unbootable \cup {c}
  OBVIOUS
<1>3. PICK q : q = d.queued \cup Q
  OBVIOUS
<1>4. /\ w \in [Categories -> Int] /\ \A k \in Categories : k # c => w[k] = d.desired[k]
      /\ U \in SUBSET Categories /\ q \in SUBSET Tests
  BY <1>0, <1>1, <1>2, <1>3 DEF DbType
<1>5. e = [d EXCEPT !.unbootable = U, !.desired = w, !.queued = q]
  BY <1>0, <1>1, <1>2, <1>3 DEF DbType
<1>6. /\ e \in DbType /\ e.unbootable = U /\ e.desired = w /\ e.queued = q
      /\ e.booted = d.booted /\ e.machine = d.machine
      /\ e.wish = d.wish /\ e.target = d.target
      /\ e.prioritized = d.prioritized /\ e.missed = d.missed /\ e.deploy = d.deploy
  BY <1>0, <1>4, <1>5 DEF DbType
<1>7. SameMachines(d, e) /\ NothingNew(d, e) /\ \A t : Doing(e, t) = Doing(d, t)
  BY <1>6 DEF SameMachines, NothingNew, Doing
<1>8. Frame(e)
  BY <1>0, <1>6, <1>7, FrameKept
<1>9. d.queued \subseteq e.queued /\ d.unbootable \subseteq e.unbootable
  BY <1>2, <1>3, <1>6
<1>10. /\ FollowsBut(d, {}) => FollowsBut(e, {})
       /\ TestsSound(d, {}) => TestsSound(e, {})
  BY <1>6, <1>7, <1>9, TestsKept
<1>11. \A k \in Categories \ e.unbootable : e.desired[k] = d.desired[k]
  BY <1>2, <1>4, <1>6
<1>12. CountsRight(d) => CountsRight(e)
  <2>1. \A k : /\ WantedTests(e, k) = WantedTests(d, k)
               /\ WantedDeploys(e, k) = WantedDeploys(d, k)
               /\ MissedOf(e, k) = MissedOf(d, k)
    BY <1>6 DEF WantedTests, WantedDeploys, MissedOf
  <2>2. QED  BY <1>9, <1>11, <2>1 DEF CountsRight
<1>13. QED  BY <1>7, <1>8, <1>10, <1>12 DEF DbInv, DbInvBut

(* Machines end: _machineTerminated. *)
OfCat(d, dead, c) == {m \in dead : d.machine[m].cat = c}
DeployedOn(d, dead, c) == {m \in OfCat(d, dead, c) : d.machine[m].doing \in Deploys}
LostDeploys(d, dead, c) == {x \in Deploys : CategoryOf[x] = c /\ Doing(d, x) \cap dead # {}}
LostRuns(d, dead) == Tests \cap {d.machine[m].doing : m \in dead}

(* What is left of each field; the counters come last. *)
TerminatedFields(d, dead, e) ==
    /\ e.wish = d.wish /\ e.target = d.target /\ e.unbootable = d.unbootable
    /\ e.prioritized = d.prioritized /\ e.missed = d.missed
    /\ e.queued = d.queued \cup LostRuns(d, dead)
    /\ e.machine \in [Machines -> MachineType]
    /\ \A m \in Machines :
         /\ e.machine[m].alive <=> d.machine[m].alive /\ m \notin dead
         /\ e.machine[m].cat = d.machine[m].cat
    /\ Stops(d, e, dead)
    /\ \A x \in Deploys : e.deploy[x] = IF Doing(d, x) \cap dead # {} THEN "none"
                                        ELSE d.deploy[x]
    /\ \A c \in Categories :
         /\ e.booted[c] = d.booted[c] - Cardinality(OfCat(d, dead, c))
         /\ e.desired[c] = d.desired[c] - Cardinality(DeployedOn(d, dead, c))

(* MachinesTerminated, field by field: all but the type of booted, which      *)
(* needs the machines to have been counted.                                 *)
LEMMA TerminatedIs ==
  ASSUME NEW d, DbInv(d), NEW S, NEW dead, dead = S \cap Alive(d),
         NEW e, e = MachinesTerminated(d, S)
  PROVE  /\ TerminatedFields(d, dead, e)
         /\ e.booted \in [Categories -> Nat] => e \in DbType
<1>0. d \in DbType /\ dead \subseteq Machines
  BY DEF DbInv, DbInvBut, Frame, Alive
<1>1. PICK f : f = [m \in Machines |->
                      IF m \in dead THEN [d.machine[m] EXCEPT !.alive = FALSE, !.doing = Nothing]
                      ELSE d.machine[m]]
  OBVIOUS
<1>2. PICK b : b = [c \in Categories |-> d.booted[c] - Cardinality(OfCat(d, dead, c))]
  OBVIOUS
<1>3. PICK w : w = [c \in Categories |-> d.desired[c] - Cardinality(DeployedOn(d, dead, c))]
  OBVIOUS
<1>4. PICK p : p = [x \in Deploys |-> IF Doing(d, x) \cap dead # {} THEN "none" ELSE d.deploy[x]]
  OBVIOUS
<1>5. PICK q : q = d.queued \cup LostRuns(d, dead)
  OBVIOUS
<1>6. e = [d EXCEPT !.machine = f, !.booted = b, !.desired = w, !.deploy = p, !.queued = q]
  BY <1>1, <1>2, <1>3, <1>4, <1>5 DEF MachinesTerminated, OfCat, DeployedOn, LostRuns
<1>7. /\ e.machine = f /\ e.booted = b /\ e.desired = w /\ e.deploy = p /\ e.queued = q
      /\ e.wish = d.wish /\ e.target = d.target /\ e.unbootable = d.unbootable
      /\ e.prioritized = d.prioritized /\ e.missed = d.missed
      /\ e = Rebuilt(e)
  BY <1>0, <1>6 DEF DbType, Rebuilt
<1>8. /\ f \in [Machines -> MachineType]
      /\ \A m \in Machines :
           /\ f[m].alive = (d.machine[m].alive /\ m \notin dead)
           /\ f[m].cat = d.machine[m].cat
           /\ f[m].doing = IF m \in dead THEN Nothing ELSE d.machine[m].doing
  <2>1. d.machine \in [Machines -> MachineType]
    BY <1>0 DEF DbType
  <2>2. QED  BY <1>1, <2>1 DEF MachineType
<1>9. w \in [Categories -> Int]
  <2>1. \A c : DeployedOn(d, dead, c) \subseteq Machines
    BY <1>0 DEF OfCat, DeployedOn
  <2>2. \A c : Cardinality(DeployedOn(d, dead, c)) \in Nat
    BY <2>1, FiniteParts
  <2>3. \A c \in Categories : d.desired[c] \in Int
    BY <1>0 DEF DbType
  <2>4. ASSUME NEW c \in Categories
        PROVE  d.desired[c] - Cardinality(DeployedOn(d, dead, c)) \in Int
    <3>1. PICK i \in Int : i = d.desired[c]
      BY <2>3
    <3>2. PICK n \in Nat : n = Cardinality(DeployedOn(d, dead, c))
      BY <2>2
    <3>3. i - n \in Int
      OBVIOUS
    <3>4. QED  BY <3>1, <3>2, <3>3
  <2>5. QED  BY <1>3, <2>4
<1>10. p \in [Deploys -> {"none", "pending", "running"}] /\ q \in SUBSET Tests
  BY <1>0, <1>4, <1>5 DEF DbType, LostRuns
<1>11. ASSUME b \in [Categories -> Nat]  PROVE e \in DbType
  <2>1. PICK M : M = MachineType
    OBVIOUS
  <2>2. f \in [Machines -> M]
    BY <1>8, <2>1
  <2>3. /\ d.wish \in [Tests -> Unwanted .. MaxTarget] /\ d.target \in [Tests -> 0 .. MaxTarget]
        /\ d.unbootable \in SUBSET Categories /\ d.prioritized \in SUBSET Tests
        /\ d.missed \in SUBSET Tests
    BY <1>0 DEF DbType
  <2>4. QED  BY <1>7, <1>9, <1>10, <1>11, <2>1, <2>2, <2>3 DEF DbType, Rebuilt
<1>12. /\ \A c \in Categories :
            /\ e.booted[c] = d.booted[c] - Cardinality(OfCat(d, dead, c))
            /\ e.desired[c] = d.desired[c] - Cardinality(DeployedOn(d, dead, c))
       /\ \A x \in Deploys : e.deploy[x] = IF Doing(d, x) \cap dead # {} THEN "none"
                                           ELSE d.deploy[x]
  BY <1>2, <1>3, <1>4, <1>7
<1>13. /\ \A m \in Machines :
           /\ e.machine[m].alive <=> d.machine[m].alive /\ m \notin dead
           /\ e.machine[m].cat = d.machine[m].cat
       /\ Stops(d, e, dead)
  BY <1>7, <1>8 DEF Stops
<1>14. QED  BY <1>5, <1>7, <1>8, <1>11, <1>12, <1>13 DEF TerminatedFields

(* The deployments on the machines were counted once each. *)
LEMMA LostAreCounted ==
  ASSUME NEW d, DbInv(d), NEW dead, dead \subseteq Machines, NEW c \in Categories
  PROVE  /\ LostDeploys(d, dead, c) \subseteq WantedDeploys(d, c)
         /\ Cardinality(WantedDeploys(d, c) \ LostDeploys(d, dead, c)) =
              Cardinality(WantedDeploys(d, c)) - Cardinality(DeployedOn(d, dead, c))
         /\ Cardinality(DeployedOn(d, dead, c)) \in Nat
<1>0. d \in DbType /\ MachinesSound(d) /\ OnePlace(d)
  BY DEF DbInv, DbInvBut, Frame
<1>1. PICK A : A = DeployedOn(d, dead, c)
  OBVIOUS
<1>2. PICK L : L = LostDeploys(d, dead, c)
  OBVIOUS
<1>3. A \subseteq Machines /\ IsFiniteSet(A) /\ Cardinality(A) \in Nat
  <2>1. A \subseteq Machines
    BY <1>1 DEF DeployedOn, OfCat
  <2>2. QED  BY <2>1, FiniteParts
<1>4. PICK f : f = [m \in A |-> d.machine[m].doing]
  OBVIOUS
<1>5. f \in [A -> L]
  <2>1. ASSUME NEW m \in A  PROVE d.machine[m].doing \in L
    <3>1. m \in dead /\ m \in Machines /\ d.machine[m].cat = c /\ d.machine[m].doing \in Deploys
      BY <1>1, <1>3 DEF DeployedOn, OfCat
    <3>2. m \in Doing(d, d.machine[m].doing) /\ CategoryOf[d.machine[m].doing] = c
      BY <1>0, <3>1 DEF Doing, MachinesSound
    <3>3. QED  BY <1>2, <3>1, <3>2 DEF LostDeploys
  <2>2. QED  BY <1>4, <2>1
<1>6. \A x, y \in A : f[x] = f[y] => x = y
  BY <1>0, <1>1, <1>3, <1>4 DEF DeployedOn, OnePlace
<1>7. \A x \in L : \E m \in A : f[m] = x
  <2> SUFFICES ASSUME NEW x \in L  PROVE \E m \in A : f[m] = x
    OBVIOUS
  <2>1. PICK m \in dead : m \in Machines /\ d.machine[m].doing = x
    BY <1>2 DEF LostDeploys, Doing
  <2>2. x \in Deploys /\ CategoryOf[x] = c
    BY <1>2 DEF LostDeploys
  <2>3. d.machine[m].cat = c
    BY <1>0, <2>1, <2>2 DEF MachinesSound
  <2>4. m \in A
    BY <1>1, <2>1, <2>2, <2>3 DEF DeployedOn, OfCat
  <2>5. QED  BY <1>4, <2>1, <2>4
<1>8. IsFiniteSet(L) /\ Cardinality(L) = Cardinality(A)
  BY <1>3, <1>5, <1>6, <1>7, SameNumber
<1>9. L \subseteq WantedDeploys(d, c)
  <2> SUFFICES ASSUME NEW x \in L  PROVE x \in WantedDeploys(d, c)
    OBVIOUS
  <2>1. x \in Deploys /\ CategoryOf[x] = c /\ \E m \in Machines : d.machine[m].doing = x
    BY <1>2 DEF LostDeploys, Doing
  <2>2. QED  BY <1>0, <2>1 DEF WantedDeploys, MachinesSound
<1>10. WantedDeploys(d, c) \cap L = L
  BY <1>9
<1>11. Cardinality(WantedDeploys(d, c) \ L) =
         Cardinality(WantedDeploys(d, c)) - Cardinality(WantedDeploys(d, c) \cap L)
  BY <1>0, CountsFinite, FS_Difference
<1>12. QED  BY <1>1, <1>2, <1>3, <1>8, <1>9, <1>10, <1>11

(* The counters lose what the machines were counted for. *)
LEMMA TerminatedDb ==
  ASSUME NEW d, DbInv(d), NEW S, NEW e, e = MachinesTerminated(d, S)
  PROVE  /\ DbInv(e) /\ Alive(e) = Alive(d) \ S /\ NothingNew(d, e)
         /\ \A m \in Machines : e.machine[m].cat = d.machine[m].cat
<1>0. /\ d \in DbType /\ Frame(d) /\ MachinesSound(d) /\ OnePlace(d) /\ BootedIs(d)
      /\ Nothing \notin Tests \cup Deploys
  BY MachineAssumption DEF DbInv, DbInvBut, Frame
<1>1. PICK dead : dead = S \cap Alive(d)
  OBVIOUS
<1>2. TerminatedFields(d, dead, e) /\ (e.booted \in [Categories -> Nat] => e \in DbType)
  BY <1>1, TerminatedIs
<1>3. /\ \A m \in Machines :
           /\ e.machine[m].alive <=> d.machine[m].alive /\ m \notin dead
           /\ e.machine[m].cat = d.machine[m].cat
           /\ e.machine[m].doing = IF m \in dead THEN Nothing ELSE d.machine[m].doing
      /\ \A x \in Deploys : e.deploy[x] = IF Doing(d, x) \cap dead # {} THEN "none"
                                          ELSE d.deploy[x]
  BY <1>2 DEF TerminatedFields, Stops
<1>4. Alive(e) = Alive(d) \ S /\ Alive(d) \subseteq Machines /\ dead \subseteq Alive(d)
  BY <1>1, <1>3 DEF Alive
<1>5. ASSUME NEW c \in Categories
      PROVE  e.booted[c] = Cardinality(AliveOf(e, c)) /\ e.booted[c] \in Nat
  <2>1. AliveOf(e, c) = AliveOf(d, c) \ OfCat(d, dead, c) /\ OfCat(d, dead, c) \subseteq AliveOf(d, c)
    BY <1>1, <1>3, <1>4 DEF AliveOf, OfCat
  <2>2. AliveOf(d, c) \subseteq Machines
    BY <1>4 DEF AliveOf
  <2>3. IsFiniteSet(AliveOf(d, c)) /\ IsFiniteSet(AliveOf(e, c)) /\ Cardinality(AliveOf(e, c)) \in Nat
    BY <2>1, <2>2, FiniteParts
  <2>4. AliveOf(d, c) \cap OfCat(d, dead, c) = OfCat(d, dead, c)
    BY <2>1
  <2>5. Cardinality(AliveOf(e, c)) = Cardinality(AliveOf(d, c)) - Cardinality(OfCat(d, dead, c))
    BY <2>1, <2>3, <2>4, FS_Difference
  <2>6. d.booted[c] = Cardinality(AliveOf(d, c))
    BY <1>0 DEF BootedIs
  <2>7. e.booted[c] = d.booted[c] - Cardinality(OfCat(d, dead, c))
    BY <1>2 DEF TerminatedFields
  <2>8. QED  BY <2>3, <2>5, <2>6, <2>7
<1>6. e \in DbType
  <2>1. e.booted = [c \in Categories |-> d.booted[c] - Cardinality(OfCat(d, dead, c))]
    BY <1>0, <1>1 DEF MachinesTerminated, OfCat, DbType
  <2>2. e.booted \in [Categories -> Nat]
    BY <1>5, <2>1
  <2>3. QED  BY <1>2, <2>2
<1>7. MachinesSound(e)
  <2>1. ASSUME NEW m \in Machines, e.machine[m].doing \in Deploys
        PROVE  /\ m \notin dead /\ d.machine[m].doing = e.machine[m].doing
               /\ d.machine[m].alive /\ d.deploy[e.machine[m].doing] = "running"
               /\ d.machine[m].cat = CategoryOf[e.machine[m].doing]
               /\ Doing(d, e.machine[m].doing) \cap dead = {}
    <3>1. m \notin dead /\ d.machine[m].doing = e.machine[m].doing
      BY <1>0, <1>3, <2>1
    <3>2. Doing(d, e.machine[m].doing) = {m}
      BY <1>0, <2>1, <3>1 DEF Doing, OnePlace
    <3>3. QED  BY <1>0, <2>1, <3>1, <3>2 DEF MachinesSound
  <2>2. ASSUME NEW m \in Machines
        PROVE  /\ e.machine[m].alive => e.machine[m].cat \in Categories
               /\ e.machine[m].doing \in Tests => e.machine[m].cat = CategoryOf[e.machine[m].doing]
    BY <1>0, <1>3 DEF MachinesSound
  <2>3. ASSUME NEW m \in Machines, e.machine[m].doing \in Deploys
        PROVE  /\ e.machine[m].alive /\ e.machine[m].cat = CategoryOf[e.machine[m].doing]
               /\ e.deploy[e.machine[m].doing] = "running"
    BY <1>3, <2>1, <2>3
  <2>4. QED  BY <2>2, <2>3 DEF MachinesSound
<1>8. OnePlace(e)
  BY <1>0, <1>3 DEF OnePlace
<1>9. WithinLimits(e, Alive(e))
  <2>1. /\ Alive(d) \subseteq Machines /\ Alive(e) \subseteq Alive(d)
        /\ \A n \in Alive(d) : d.machine[n].cat \in Categories
        /\ WithinLimits(d, Alive(d))
    BY <1>0, <1>4 DEF Frame, MachinesSound, Alive
  <2>2. WithinLimits(d, Alive(e))
    BY <2>1, LimitsKept
  <2>3. \A n \in Alive(e) : e.machine[n].cat = d.machine[n].cat
    BY <1>3, <2>1
  <2>4. QED  BY <2>2, <2>3, CoresSame
<1>10. Frame(e)
  <2>1. BootedIs(e)
    BY <1>5 DEF BootedIs
  <2>2. QED  BY <1>6, <1>7, <1>8, <1>9, <2>1 DEF Frame
<1>11. NothingNew(d, e)
  BY <1>3 DEF NothingNew
<1>12. ASSUME NEW t \in Tests
       PROVE  \/ Doing(e, t) = Doing(d, t)
              \/ Doing(e, t) \subseteq Doing(d, t) /\ t \in e.queued
  <2>1. Doing(e, t) = Doing(d, t) \ dead
    BY <1>2, DoingAfter DEF TerminatedFields
  <2>2. CASE Doing(d, t) \cap dead = {}
    BY <2>1, <2>2
  <2>3. CASE Doing(d, t) \cap dead # {}
    <3>1. t \in LostRuns(d, dead)
      BY <2>3 DEF Doing, LostRuns
    <3>2. QED  BY <1>2, <2>1, <3>1 DEF TerminatedFields
  <2>4. QED  BY <2>2, <2>3
<1>13. /\ FollowsBut(d, {}) => FollowsBut(e, {})
       /\ TestsSound(d, {}) => TestsSound(e, {})
  <2>1. /\ d.queued \subseteq e.queued /\ d.unbootable \subseteq e.unbootable
        /\ e.target = d.target /\ e.wish = d.wish /\ e.prioritized = d.prioritized
    BY <1>2 DEF TerminatedFields
  <2>2. QED  BY <1>12, <2>1, TestsKept
<1>14. ASSUME CountsRight(d)  PROVE CountsRight(e)
  <2> SUFFICES ASSUME NEW c \in Categories \ e.unbootable
               PROVE  e.desired[c] = Cardinality(WantedTests(e, c))
                                     + Cardinality(WantedDeploys(e, c))
                                     - Cardinality(MissedOf(e, c))
    BY DEF CountsRight
  <2>1. /\ WantedTests(e, c) = WantedTests(d, c) /\ MissedOf(e, c) = MissedOf(d, c)
        /\ e.unbootable = d.unbootable
        /\ e.desired[c] = d.desired[c] - Cardinality(DeployedOn(d, dead, c))
    BY <1>2 DEF TerminatedFields, WantedTests, MissedOf
  <2>2. WantedDeploys(e, c) = WantedDeploys(d, c) \ LostDeploys(d, dead, c)
    BY <1>3 DEF WantedDeploys, LostDeploys
  <2>3. /\ Cardinality(WantedDeploys(e, c)) =
             Cardinality(WantedDeploys(d, c)) - Cardinality(DeployedOn(d, dead, c))
        /\ Cardinality(DeployedOn(d, dead, c)) \in Nat
    BY <1>4, <2>2, LostAreCounted
  <2>4. d.desired[c] = Cardinality(WantedTests(d, c)) + Cardinality(WantedDeploys(d, c))
                       - Cardinality(MissedOf(d, c))
    BY <1>14, <2>1 DEF CountsRight
  <2>5. /\ Cardinality(WantedTests(d, c)) \in Nat /\ Cardinality(WantedDeploys(d, c)) \in Nat
        /\ Cardinality(MissedOf(d, c)) \in Nat
    BY <1>0, CountsFinite
  <2>6. QED  BY <2>1, <2>3, <2>4, <2>5
<1>15. QED  BY <1>3, <1>4, <1>10, <1>11, <1>13, <1>14 DEF DbInv, DbInvBut

(* The counts after a restart. *)
BusyMachines(d, c) ==
    {m \in Machines : d.machine[m].doing \in Tests /\ CategoryOf[d.machine[m].doing] = c}
BusyTests(d, c) == {t \in TestsOf(c) : Doing(d, t) # {}}
WaitingTests(d, c) == {t \in d.prioritized : CategoryOf[t] = c}
MissedNow(d, c) == Missed(d) \cap TestsOf(c)

(* Runs, tests that wait for one, and those that are missed are what tests    *)
(* want.                                                                    *)
LEMMA RecountRight ==
  ASSUME NEW d, DbInv(d), MaxTarget <= 1, NEW c \in Categories \ d.unbootable
  PROVE  Cardinality(WantedTests(d, c)) =
           Cardinality(BusyMachines(d, c)) + Cardinality(WaitingTests(d, c))
           + Cardinality(MissedNow(d, c))
<1>0. d \in DbType /\ TestsSound(d, {})
  BY DEF DbInv, DbInvBut, Frame
<1>1. /\ IsFiniteSet(BusyMachines(d, c)) /\ IsFiniteSet(BusyTests(d, c))
      /\ IsFiniteSet(WaitingTests(d, c)) /\ IsFiniteSet(MissedNow(d, c))
  <2>1. /\ BusyMachines(d, c) \subseteq Machines /\ BusyTests(d, c) \subseteq Tests
        /\ WaitingTests(d, c) \subseteq Tests /\ MissedNow(d, c) \subseteq Tests
    BY <1>0 DEF BusyMachines, BusyTests, WaitingTests, MissedNow, TestsOf, DbType
  <2>2. QED  BY <2>1, FiniteParts
<1>2. \A t \in Tests : d.target[t] \in {0, 1}
  BY <1>0, MachineAssumption DEF DbType
<1>3. \A t \in TestsOf(c) : /\ OneRun(d, t) /\ TestSound(d, t)
                            /\ t \in Tests /\ CategoryOf[t] = c
  BY <1>0 DEF TestsSound, TestsOf, Bootable
<1>4. ASSUME NEW t \in TestsOf(c)
      PROVE  /\ t \in WantedTests(d, c) <=>
                  t \in BusyTests(d, c) \/ t \in WaitingTests(d, c) \/ t \in MissedNow(d, c)
             /\ ~(t \in BusyTests(d, c) /\ t \in WaitingTests(d, c))
             /\ ~(t \in BusyTests(d, c) /\ t \in MissedNow(d, c))
             /\ ~(t \in WaitingTests(d, c) /\ t \in MissedNow(d, c))
  <2>1. /\ t \in WantedTests(d, c) <=> d.target[t] = 1
        /\ t \in BusyTests(d, c) <=> Doing(d, t) # {}
        /\ t \in WaitingTests(d, c) <=> t \in d.prioritized
        /\ t \in MissedNow(d, c) <=>
             t \in d.queued /\ d.target[t] > 0 /\ t \notin d.prioritized /\ Doing(d, t) = {}
    BY <1>3 DEF WantedTests, BusyTests, WaitingTests, MissedNow, Missed
  <2>2. d.target[t] > 0 <=> d.target[t] = 1
    BY <1>2, <1>3
  <2>3. QED  BY <1>3, <2>1, <2>2 DEF TestSound
<1>5. /\ WantedTests(d, c) \subseteq TestsOf(c) /\ BusyTests(d, c) \subseteq TestsOf(c)
      /\ WaitingTests(d, c) \subseteq TestsOf(c) /\ MissedNow(d, c) \subseteq TestsOf(c)
  BY <1>0 DEF WantedTests, BusyTests, WaitingTests, MissedNow, TestsOf, DbType
<1>6. PICK B : B = BusyTests(d, c)
  OBVIOUS
<1>7. PICK P : P = WaitingTests(d, c)
  OBVIOUS
<1>8. PICK M : M = MissedNow(d, c)
  OBVIOUS
<1>9. WantedTests(d, c) = (B \cup P) \cup M /\ B \cap P = {} /\ (B \cup P) \cap M = {}
  BY <1>4, <1>5, <1>6, <1>7, <1>8
<1>10. /\ IsFiniteSet(B \cup P) /\ Cardinality(B \cup P) = Cardinality(B) + Cardinality(P)
       /\ Cardinality(B) \in Nat /\ Cardinality(P) \in Nat
  BY <1>1, <1>6, <1>7, <1>9, TwoParts
<1>11. Cardinality((B \cup P) \cup M) = Cardinality(B \cup P) + Cardinality(M)
  BY <1>1, <1>8, <1>9, <1>10, TwoParts
<1>12. Cardinality(BusyTests(d, c)) = Cardinality(BusyMachines(d, c))
  <2>1. PICK f : f = [m \in BusyMachines(d, c) |-> d.machine[m].doing]
    OBVIOUS
  <2>2. f \in [BusyMachines(d, c) -> BusyTests(d, c)]
    BY <2>1 DEF BusyMachines, BusyTests, TestsOf, Doing
  <2>3. ASSUME NEW x \in BusyMachines(d, c), NEW y \in BusyMachines(d, c), f[x] = f[y]
        PROVE  x = y
    <3>1. PICK t : t = d.machine[x].doing
      OBVIOUS
    <3>2. t \in TestsOf(c) /\ x \in Doing(d, t) /\ y \in Doing(d, t)
      BY <2>1, <2>3, <3>1 DEF BusyMachines, TestsOf, Doing
    <3>3. OneRun(d, t)
      BY <1>3, <3>2
    <3>4. QED  BY <3>2, <3>3 DEF OneRun
  <2>4. \A t \in BusyTests(d, c) : \E m \in BusyMachines(d, c) : f[m] = t
    BY <2>1 DEF BusyMachines, BusyTests, TestsOf, Doing
  <2>5. QED  BY <1>1, <2>2, <2>3, <2>4, SameNumber
<1>13. QED  BY <1>6, <1>7, <1>8, <1>9, <1>10, <1>11, <1>12

(* Counting again (_checkMachineCategoryCounts) keeps the database sound: what *)
(* is too little in the counts is known to be missed.                       *)
LEMMA RecountedDb ==
  ASSUME NEW d, DbInv(d), NEW e, e = Recounted(d)
  PROVE  DbInv(e) /\ SameMachines(d, e) /\ NothingNew(d, e)
<1>0. d \in DbType /\ Frame(d) /\ BootedIs(d)
  BY DEF DbInv, DbInvBut, Frame
<1>1. PICK w : w = [c \in Categories |-> Cardinality(BusyMachines(d, c))
                                         + Cardinality(WaitingTests(d, c))
                                         + Cardinality(WantedDeploys(d, c))]
  OBVIOUS
<1>2. PICK b : b = [c \in Categories |-> Cardinality(AliveOf(d, c))]
  OBVIOUS
<1>3. PICK z : z = Missed(d)
  OBVIOUS
<1>4. e = [d EXCEPT !.desired = w, !.booted = b, !.missed = z]
  BY <1>1, <1>2, <1>3
     DEF Recounted, Runs, Prioritized, BusyMachines, WaitingTests, WantedDeploys, AliveOf
<1>5. \A c : /\ Cardinality(BusyMachines(d, c)) \in Nat /\ Cardinality(WaitingTests(d, c)) \in Nat
             /\ Cardinality(WantedDeploys(d, c)) \in Nat /\ Cardinality(AliveOf(d, c)) \in Nat
  <2>1. \A c : /\ BusyMachines(d, c) \subseteq Machines /\ WaitingTests(d, c) \subseteq Tests
               /\ WantedDeploys(d, c) \subseteq Deploys /\ AliveOf(d, c) \subseteq Machines
    BY <1>0 DEF BusyMachines, WaitingTests, WantedDeploys, AliveOf, Alive, DbType
  <2>2. QED  BY <2>1, FiniteParts
<1>6. w \in [Categories -> Int] /\ b \in [Categories -> Nat] /\ z \in SUBSET Tests
  <2>1. \A c \in Categories : Cardinality(BusyMachines(d, c)) + Cardinality(WaitingTests(d, c))
                              + Cardinality(WantedDeploys(d, c)) \in Int
    BY <1>5
  <2>2. z \in SUBSET Tests
    BY <1>0, <1>3 DEF Missed, DbType
  <2>3. QED  BY <1>1, <1>2, <1>5, <2>1, <2>2
<1>7. /\ e \in DbType /\ e.desired = w /\ e.booted = b /\ e.missed = z
      /\ e.machine = d.machine /\ e.wish = d.wish /\ e.target = d.target
      /\ e.unbootable = d.unbootable /\ e.deploy = d.deploy
      /\ e.prioritized = d.prioritized /\ e.queued = d.queued
  BY <1>0, <1>4, <1>6 DEF DbType
<1>8. e.booted = d.booted
  BY <1>0, <1>2, <1>7 DEF BootedIs, DbType
<1>9. SameMachines(d, e) /\ NothingNew(d, e) /\ \A t : Doing(e, t) = Doing(d, t)
  BY <1>7 DEF SameMachines, NothingNew, Doing
<1>10. Frame(e)
  BY <1>0, <1>7, <1>8, <1>9, FrameKept
<1>11. /\ FollowsBut(d, {}) => FollowsBut(e, {})
       /\ TestsSound(d, {}) => TestsSound(e, {})
  BY <1>7, <1>9, TestsKept
<1>12. ASSUME MaxTarget <= 1  PROVE CountsRight(e)
  <2> SUFFICES ASSUME NEW c \in Categories \ e.unbootable
               PROVE  e.desired[c] = Cardinality(WantedTests(e, c))
                                     + Cardinality(WantedDeploys(e, c))
                                     - Cardinality(MissedOf(e, c))
    BY DEF CountsRight
  <2>1. WantedTests(e, c) = WantedTests(d, c) /\ WantedDeploys(e, c) = WantedDeploys(d, c)
    BY <1>7 DEF WantedTests, WantedDeploys
  <2>2. MissedOf(e, c) = MissedNow(d, c)
    BY <1>3, <1>7 DEF MissedOf, MissedNow
  <2>3. Cardinality(WantedTests(d, c)) =
          Cardinality(BusyMachines(d, c)) + Cardinality(WaitingTests(d, c))
          + Cardinality(MissedNow(d, c))
    BY <1>7, <1>12, RecountRight
  <2>4. e.desired[c] = Cardinality(BusyMachines(d, c)) + Cardinality(WaitingTests(d, c))
                       + Cardinality(WantedDeploys(d, c))
    BY <1>1, <1>7
  <2>5. Cardinality(MissedOf(e, c)) \in Nat
    BY <1>7, CountsFinite
  <2>6. QED  BY <1>5, <2>1, <2>2, <2>3, <2>4, <2>5
<1>13. QED  BY <1>9, <1>10, <1>11, <1>12 DEF DbInv, DbInvBut

(* The database with one more machine. *)
Booted(d, c, m) ==
    [d EXCEPT !.machine[m] = [alive |-> TRUE, cat |-> c, doing |-> Nothing],
              !.booted[c] = @ + 1]

(* A machine is booted. *)
LEMMA BootDb ==
  ASSUME NEW d, DbInv(d), NEW c \in Categories, NEW m \in Machines, m \notin Alive(d),
         d.machine[m].doing = Nothing, NEW e,
         e = Booted(d, c, m),
         WithinLimits(e, Alive(d) \cup {m})
  PROVE  /\ DbInv(e) /\ Alive(e) = Alive(d) \cup {m} /\ e.machine[m].cat = c
         /\ \A n \in Machines \ {m} : e.machine[n] = d.machine[n]
         /\ NothingNew(d, e)
<1>0. /\ d \in DbType /\ MachinesSound(d) /\ OnePlace(d) /\ BootedIs(d)
      /\ Nothing \notin Tests \cup Deploys
  BY MachineAssumption DEF DbInv, DbInvBut, Frame
<1>1. PICK f : f = [d.machine EXCEPT ![m] = [alive |-> TRUE, cat |-> c, doing |-> Nothing]]
  OBVIOUS
<1>2. PICK b : b = [d.booted EXCEPT ![c] = d.booted[c] + 1]
  OBVIOUS
<1>3. e = [d EXCEPT !.machine = f, !.booted = b]
  BY <1>0, <1>1, <1>2 DEF DbType, Booted
<1>4. /\ f \in [Machines -> MachineType] /\ f[m].alive /\ f[m].cat = c /\ f[m].doing = Nothing
      /\ \A n \in Machines \ {m} : f[n] = d.machine[n]
  BY <1>0, <1>1 DEF DbType, MachineType
<1>5. /\ b \in [Categories -> Nat] /\ b[c] = d.booted[c] + 1
      /\ \A k \in Categories : k # c => b[k] = d.booted[k]
  BY <1>0, <1>2 DEF DbType
<1>6. /\ e \in DbType /\ e.machine = f /\ e.booted = b
      /\ e.desired = d.desired /\ e.wish = d.wish /\ e.target = d.target
      /\ e.unbootable = d.unbootable /\ e.deploy = d.deploy
      /\ e.prioritized = d.prioritized /\ e.queued = d.queued /\ e.missed = d.missed
  <2>1. PICK M : M = MachineType
    OBVIOUS
  <2>2. f \in [Machines -> M]
    BY <1>4, <2>1
  <2>3. QED  BY <1>0, <1>3, <1>5, <2>1, <2>2 DEF DbType
<1>8. Alive(e) = Alive(d) \cup {m}
  BY <1>4, <1>6 DEF Alive
<1>9. \A n \in Machines : e.machine[n].doing = d.machine[n].doing
  BY <1>4, <1>6
<1>10. MachinesSound(e)
  <2>1. ASSUME NEW n \in Machines
        PROVE  /\ e.machine[n].alive => e.machine[n].cat \in Categories
               /\ e.machine[n].doing \in Tests => e.machine[n].cat = CategoryOf[e.machine[n].doing]
               /\ e.machine[n].doing \in Deploys =>
                    /\ e.machine[n].alive
                    /\ e.machine[n].cat = CategoryOf[e.machine[n].doing]
                    /\ e.deploy[e.machine[n].doing] = "running"
    <3>1. CASE n = m
      BY <1>0, <1>4, <1>6, <3>1
    <3>2. CASE n # m
      BY <1>0, <1>4, <1>6, <3>2 DEF MachinesSound
    <3>3. QED  BY <3>1, <3>2
  <2>2. QED  BY <2>1 DEF MachinesSound
<1>11. OnePlace(e)
  BY <1>0, <1>9 DEF OnePlace
<1>12. BootedIs(e)
  <2> SUFFICES ASSUME NEW k \in Categories  PROVE e.booted[k] = Cardinality(AliveOf(e, k))
    BY DEF BootedIs
  <2>1. d.booted[k] = Cardinality(AliveOf(d, k)) /\ AliveOf(d, k) \subseteq Machines
    BY <1>0 DEF BootedIs, AliveOf, Alive
  <2>2. IsFiniteSet(AliveOf(d, k)) /\ m \notin AliveOf(d, k)
    BY <2>1, FiniteParts DEF AliveOf
  <2>3. CASE k = c
    <3>1. AliveOf(e, k) = AliveOf(d, k) \cup {m}
      BY <1>4, <1>6, <1>8, <2>3 DEF AliveOf, Alive
    <3>2. Cardinality(AliveOf(e, k)) = Cardinality(AliveOf(d, k)) + 1
      BY <2>2, <3>1, FS_AddElement
    <3>3. QED  BY <1>5, <1>6, <2>1, <2>3, <3>2
  <2>4. CASE k # c
    <3>1. AliveOf(e, k) = AliveOf(d, k)
      BY <1>4, <1>6, <1>8, <2>4 DEF AliveOf, Alive
    <3>2. QED  BY <1>5, <1>6, <2>1, <2>4, <3>1
  <2>5. QED  BY <2>3, <2>4
<1>13. Frame(e)
  BY <1>6, <1>8, <1>10, <1>11, <1>12 DEF Frame
<1>14. \A t : Doing(e, t) = Doing(d, t)
  BY <1>9 DEF Doing
<1>15. /\ FollowsBut(d, {}) => FollowsBut(e, {})
       /\ TestsSound(d, {}) => TestsSound(e, {})
  BY <1>6, <1>14, TestsKept
<1>16. CountsRight(d) => CountsRight(e)
  BY <1>6, CountsKept
<1>17. NothingNew(d, e)
  BY <1>9 DEF NothingNew
<1>18. DbInv(e)
  BY <1>13, <1>15, <1>16 DEF DbInv, DbInvBut
<1>19. QED  BY <1>4, <1>6, <1>8, <1>17, <1>18

------------------------------------------------------------------------------
(* What becomes of the books *)

CloudType == [Machines -> {"none", "pending", "running", "gone"}]
ImageType == [VMs -> {"none", "creating", "available", "invalid"}]

(* The books stay as they are, and the machines. *)
LEMMA BooksStay ==
  ASSUME Inv, DbInv(db'), SameMachines(db, db'), UNCHANGED <<booked, cores, up>>
  PROVE  BookInv'
<1>1. /\ Alive(db') = Alive(db) /\ booked \subseteq Machines
      /\ CoresOf(db', booked) = CoresOf(db, booked)
      /\ WithinLimits(db', booked) <=> WithinLimits(db, booked)
      /\ \A m \in booked : db'.machine[m].cat = db.machine[m].cat
  <2>1. booked \in SUBSET Machines
    BY DEF Inv, BookInv
  <2>2. QED  BY <2>1, SameAlive DEF SameMachines
<1>2. QED  BY <1>1 DEF Inv, BookInv

(* Machines are ended: what the cloud refuses to end stays in the books.     *)
LEMMA TerminateStep ==
  ASSUME Inv, up, up' = up, NEW d, DbInv(d), SameMachines(db, d), NEW S, Terminate(d, S)
  PROVE  DbInv(db') /\ BookInv' /\ cloud' \in CloudType /\ NothingNew(d, db')
<1>1. /\ booked \subseteq Machines /\ cores = CoresOf(db, booked) /\ WithinLimits(db, booked)
      /\ \A m \in booked : db.machine[m].cat \in Categories
      /\ Alive(db) \subseteq booked /\ (~TerminateMayFail => booked = Alive(db))
      /\ cloud \in CloudType
  BY DEF Inv, BookInv, OtherInv, CloudType
<1>2. db' = MachinesTerminated(d, S)
  BY DEF Terminate
<1>3. PICK done \in SUBSET (S \cap booked) :
        /\ TerminateMayFail \/ done = S \cap booked
        /\ cloud' = [m \in Machines |-> IF m \in done THEN "gone" ELSE cloud[m]]
        /\ booked' = booked \ done
        /\ cores' = cores - CoresOf(d, done)
  BY DEF Terminate, TerminateWorkers
<1>4. /\ DbInv(db') /\ Alive(db') = Alive(d) \ S /\ NothingNew(d, db')
      /\ \A m \in Machines : db'.machine[m].cat = d.machine[m].cat
  BY <1>2, TerminatedDb
<1>5. /\ Alive(d) = Alive(db) /\ done \in SUBSET Machines
      /\ \A m \in Machines : db'.machine[m].cat = db.machine[m].cat
  BY <1>1, <1>4, SameAlive DEF SameMachines
<1>6. CoresOf(d, done) = CoresOf(db, done)
  BY <1>5, SameAlive
<1>7. CoresOf(db, booked \ done) = CoresOf(db, booked) - CoresOf(db, done)
  BY <1>1, <1>3, CoresDrop
<1>8. WithinLimits(db, booked \ done)
  <2>1. booked \ done \subseteq booked
    OBVIOUS
  <2>2. QED  BY <1>1, <2>1, LimitsKept
<1>9. /\ CoresOf(db, booked \ done) = CoresOf(db', booked \ done)
      /\ WithinLimits(db, booked \ done) <=> WithinLimits(db', booked \ done)
  BY <1>1, <1>5, CoresSame
<1>10. /\ booked' \subseteq Machines /\ cores' = CoresOf(db', booked')
       /\ WithinLimits(db', booked')
       /\ \A m \in booked' : db'.machine[m].cat \in Categories
  BY <1>1, <1>3, <1>5, <1>6, <1>7, <1>8, <1>9
<1>11. /\ Alive(db') \subseteq booked'
       /\ ~TerminateMayFail => booked' = Alive(db')
  BY <1>1, <1>3, <1>4, <1>5
<1>12. cloud' \in CloudType
  BY <1>1, <1>3 DEF CloudType
<1>13. QED  BY <1>4, <1>10, <1>11, <1>12 DEF BookInv

(* All together. *)

(* All together. *)
LEMMA Together ==
  ASSUME Inv, DbInv(db'), BookInv', AskInv', up' \in BOOLEAN,
         cloud' \in CloudType, known' \in ImageType, image' \in ImageType,
         \/ tx' = Free
         \/ tx' = tx /\ up' = up
         \/ up' /\ tx' \in TxType /\ DbInv(tx'.saved)
  PROVE  Inv'
<1>1. SavedInv'
  BY DEF Inv, SavedInv
<1>2. OtherInv'
  BY DEF Inv, OtherInv, TxType, CloudType, ImageType
<1>3. QED  BY <1>1, <1>2 DEF Inv

(* What there is, in one place. *)
LEMMA Facts ==
  ASSUME Inv
  PROVE  /\ DbInv(db) /\ db \in DbType /\ up \in BOOLEAN /\ tx \in TxType
         /\ cloud \in CloudType /\ known \in ImageType /\ image \in ImageType
         /\ asking \subseteq Machines /\ AskInv
         /\ SameMachines(db, db) /\ NothingNew(db, db)
BY DEF Inv, DbInv, DbInvBut, Frame, AskInv, OtherInv, CloudType, ImageType, SameMachines, NothingNew

(* Machines that still ask have got nothing. *)
LEMMA AskKept ==
  ASSUME Inv, NEW d, asking' \subseteq asking,
         \A m \in asking' : d.machine[m].doing \in {db.machine[m].doing, Nothing},
         NothingNew(d, db')
  PROVE  AskInv'
<1>1. asking \subseteq Machines /\ \A m \in asking : db.machine[m].doing = Nothing
  BY DEF Inv, AskInv
<1>2. ASSUME NEW m \in asking'  PROVE db'.machine[m].doing = Nothing
  <2>1. m \in asking /\ m \in Machines /\ d.machine[m].doing = Nothing
    BY <1>1
  <2>2. QED  BY <2>1 DEF NothingNew
<1>3. QED  BY <1>1, <1>2 DEF AskInv

(* Nobody stops: nothing changes. *)
LEMMA WithoutNone ==
  ASSUME NEW d \in DbType
  PROVE  Without(d, {}) = d
<1>1. PICK f : f = [m \in Machines |-> IF m \in {} THEN [d.machine[m] EXCEPT !.doing = Nothing]
                                       ELSE d.machine[m]]
  OBVIOUS
<1>2. d.machine \in [Machines -> MachineType]
  BY DEF DbType
<1>3. f = d.machine
  BY <1>1, <1>2
<1>4. Without(d, {}) = [d EXCEPT !.machine = d.machine]
  BY <1>1, <1>3 DEF Without
<1>5. QED  BY <1>4 DEF DbType

------------------------------------------------------------------------------
(* One lemma for each kind of step. *)

(* The database changes, the machines do not. *)
LEMMA ChangeStep ==
  ASSUME Inv, DbInv(db'), SameMachines(db, db'), NothingNew(db, db'),
         asking' \subseteq asking, UNCHANGED <<booked, cores, known, image, up>>,
         cloud' \in CloudType, tx' = tx \/ tx' = Free
  PROVE  Inv'
<1>1. BookInv'
  BY BooksStay
<1>2. \A m \in asking' : db.machine[m].doing \in {db.machine[m].doing, Nothing}
  OBVIOUS
<1>3. AskInv'
  BY <1>2, AskKept
<1>4. QED  BY <1>1, <1>3, Facts, Together

(* The database changes and machines are ended. *)
LEMMA EndingStep ==
  ASSUME Inv, up, UNCHANGED <<tx, known, image, up>>,
         NEW d, DbInv(d), SameMachines(db, d), asking' \subseteq asking,
         \A m \in asking' : d.machine[m].doing \in {db.machine[m].doing, Nothing},
         NEW S, Terminate(d, S)
  PROVE  Inv'
<1>1. DbInv(db') /\ BookInv' /\ cloud' \in CloudType /\ NothingNew(d, db')
  BY TerminateStep
<1>2. AskInv'
  BY <1>1, AskKept
<1>3. QED  BY <1>1, <1>2, Facts, Together

(* ... where nothing new is done. *)
LEMMA EndingQuietly ==
  ASSUME Inv, up, UNCHANGED <<tx, known, image, asking, up>>,
         NEW d, DbInv(d), SameMachines(db, d), NothingNew(db, d),
         NEW S, Terminate(d, S)
  PROVE  Inv'
<1>1. asking' \subseteq asking /\ asking' \subseteq Machines
  BY Facts
<1>2. \A m \in asking' : d.machine[m].doing \in {db.machine[m].doing, Nothing}
  BY <1>1 DEF NothingNew
<1>3. QED  BY <1>1, <1>2, EndingStep

(* Users change what a test wants. *)
LEMMA WishSteps ==
  ASSUME Inv, NEW t \in Tests, Want(t) \/ Unwant(t)
  PROVE  Inv'
<1>1. /\ UNCHANGED <<tx, known, image, asking, up, booked, cores, cloud>>
  BY DEF Want, Unwant, Rest
<1>2. /\ MaxTarget \in Nat /\ MaxTarget > 0 /\ db.wish[t] \in Int /\ db.wish[t] >= -1 /\ Unwanted = -1
  BY MachineAssumption, Facts DEF DbType, Unwanted
<1>3. PICK n \in Unwanted .. MaxTarget : n # 0 /\ db' = [db EXCEPT !.wish[t] = n, !.queued = @ \cup {t}]
  <2>1. CASE Want(t)
    <3>1. PICK n : n = IF db.wish[t] = Unwanted THEN 1 ELSE db.wish[t] + 1
      OBVIOUS
    <3>2. db.wish[t] < MaxTarget /\ db' = [db EXCEPT !.wish[t] = n, !.queued = @ \cup {t}]
      BY <2>1, <3>1 DEF Want
    <3>3. n \in Unwanted .. MaxTarget /\ n # 0
      BY <1>2, <3>1, <3>2
    <3>4. QED  BY <3>2, <3>3
  <2>2. CASE Unwant(t)
    <3>1. db' = [db EXCEPT !.wish[t] = Unwanted, !.queued = @ \cup {t}]
      BY <2>2 DEF Unwant
    <3>2. Unwanted \in Unwanted .. MaxTarget /\ Unwanted # 0
      BY <1>2
    <3>3. QED  BY <3>1, <3>2
  <2>3. QED  BY <2>1, <2>2
<1>4. PICK e : e = db'
  OBVIOUS
<1>5. DbInv(e) /\ SameMachines(db, e) /\ NothingNew(db, e)
  BY <1>3, <1>4, Facts, WishDb
<1>6. QED  BY <1>1, <1>4, <1>5, Facts, ChangeStep

(* What a test gets follows what it wants. *)
LEMMA UpdateStep ==
  ASSUME Inv, NEW t \in Tests, UpdateTestPriority(t)
  PROVE  Inv'
<1>1. up /\ UNCHANGED <<tx, known, image, asking, up>>
  BY DEF UpdateTestPriority, Rest, Unlocked
<1>2. PICK e : e = [Updated(db, t) EXCEPT !.queued = @ \ {t}]
  OBVIOUS
<1>3. PICK S : Terminate(e, S)
  BY <1>2 DEF UpdateTestPriority
<1>4. DbInvBut(db, {t})
  BY Facts, ButOne
<1>5. DbInv(e) /\ SameMachines(db, e) /\ NothingNew(db, e)
  BY <1>2, <1>4, UpdatedDb
<1>6. QED  BY <1>1, <1>3, <1>5, EndingQuietly

(* Somebody asks for a deployment, or it is over. *)
LEMMA CreateStep ==
  ASSUME Inv, NEW x \in Deploys, CreateDeployment(x)
  PROVE  Inv'
<1>1. /\ UNCHANGED <<tx, known, image, asking, up, booked, cores, cloud>>
      /\ db.deploy[x] = "none"
  BY DEF CreateDeployment, Rest
<1>2. PICK e : e = db'
  OBVIOUS
<1>3. e = [db EXCEPT !.deploy[x] = "pending", !.desired[CategoryOf[x]] = @ + 1]
  BY <1>2 DEF CreateDeployment
<1>4. DeployFields(db, x, "pending", 1, e)
  BY <1>3, Facts, DeployIs
<1>5. Doing(db, x) = {}
  <2>1. MachinesSound(db)
    BY Facts DEF DbInv, DbInvBut, Frame
  <2>2. QED  BY <1>1, <2>1 DEF MachinesSound, Doing
<1>6. e = Without(e, {})
  BY <1>4, WithoutNone DEF DeployFields
<1>7. DbInv(e) /\ SameMachines(db, e) /\ NothingNew(db, e)
  BY <1>1, <1>4, <1>5, <1>6, Facts, DeployDb
<1>8. QED  BY <1>1, <1>2, <1>7, Facts, ChangeStep

(* ... by a request or by itself. *)
LEMMA OverStep ==
  ASSUME Inv, NEW x \in Deploys, CancelDeployment(x) \/ DeploymentExits(x)
  PROVE  Inv'
<1>1. db.deploy[x] # "none" /\ DeploymentOver(x)
  <2>1. CASE CancelDeployment(x)
    BY <2>1 DEF CancelDeployment
  <2>2. CASE DeploymentExits(x)
    <3>1. PICK m \in Machines : db.machine[m].doing = x
      BY <2>2 DEF DeploymentExits, Doing
    <3>2. MachinesSound(db)
      BY Facts DEF DbInv, DbInvBut, Frame
    <3>3. db.deploy[x] = "running"
      BY <3>1, <3>2 DEF MachinesSound
    <3>4. QED  BY <2>2, <3>3 DEF DeploymentExits
  <2>3. QED  BY <2>1, <2>2
<1>2. up /\ UNCHANGED <<tx, known, image, asking, up>>
  BY <1>1 DEF DeploymentOver, Rest, Unlocked
<1>3. PICK g : g = [db EXCEPT !.deploy[x] = "none", !.desired[CategoryOf[x]] = @ + (-1)]
  OBVIOUS
<1>4. DeployFields(db, x, "none", -1, g)
  BY <1>3, Facts, DeployIs
<1>5. PICK e : e = Without(g, Doing(db, x))
  OBVIOUS
<1>6. PICK S : Terminate(e, S)
  <2>1. CategoryOf[x] \in Categories /\ db.desired \in [Categories -> Int]
    BY MachineAssumption, Facts DEF DbType
  <2>2. db.desired[CategoryOf[x]] - 1 = db.desired[CategoryOf[x]] + (-1)
    BY <2>1
  <2>3. g = [db EXCEPT !.deploy[x] = "none", !.desired[CategoryOf[x]] = @ - 1]
    BY <1>3, <2>2
  <2>4. QED  BY <1>1, <1>5, <2>3 DEF DeploymentOver
<1>7. DbInv(e) /\ SameMachines(db, e) /\ NothingNew(db, e)
  BY <1>1, <1>4, <1>5, Facts, DeployDb
<1>8. QED  BY <1>2, <1>6, <1>7, EndingQuietly

(* A worker gets a deployment, which has not asked for a test.               *)
LEMMA StartDeploymentStep ==
  ASSUME Inv, NEW m \in Machines, NEW x \in Deploys, StartNewDeployment(m, x)
  PROVE  Inv'
<1>1. /\ UNCHANGED <<tx, known, image, asking, up, booked, cores, cloud>>
      /\ m \notin asking /\ m \in Alive(db) /\ db.machine[m].doing = Nothing
      /\ db.deploy[x] = "pending" /\ CategoryOf[x] = db.machine[m].cat
  BY DEF StartNewDeployment, Rest
<1>2. db' = [db EXCEPT !.deploy[x] = "running", !.machine[m].doing = x]
  BY DEF StartNewDeployment
<1>3. PICK e : e = db'
  OBVIOUS
<1>4. DbInv(e) /\ SameMachines(db, e)
  BY <1>1, <1>2, <1>3, Facts, StartDeploymentDb DEF Alive
<1>5. \A n \in asking : e.machine[n].doing = db.machine[n].doing
  <2>1. asking \subseteq Machines /\ \A n \in Machines : n # m => db'.machine[n] = db.machine[n]
    BY <1>2, Facts DEF DbType
  <2>2. QED  BY <1>1, <1>3, <2>1
<1>6. AskInv'
  BY <1>1, <1>3, <1>5, Facts DEF AskInv
<1>7. BookInv'
  BY <1>1, <1>3, <1>4, BooksStay
<1>8. QED  BY <1>1, <1>3, <1>4, <1>6, <1>7, Facts, Together

(* A worker that has asked gets a test. *)
LEMMA StartTestStep ==
  ASSUME Inv, NEW m \in Machines, StartNewTest(m)
  PROVE  Inv'
<1>1. /\ up /\ UNCHANGED <<tx, known, image, up>> /\ m \in asking /\ asking' = asking \ {m}
      /\ db.machine[m].doing = Nothing
  BY Facts DEF StartNewTest, Unlocked, AskInv
<1>2. CASE UNCHANGED <<db, check, booked, cores, cloud>>
  BY <1>1, <1>2, Facts, ChangeStep
<1>3. ASSUME NEW t \in db.prioritized, CategoryOf[t] = db.machine[m].cat, NEW S,
             Terminate(Updated([db EXCEPT !.machine[m].doing = t], t), S)
      PROVE  Inv'
  <2>1. PICK d : d = [db EXCEPT !.machine[m].doing = t]
    OBVIOUS
  <2>2. DbInvBut(d, {t}) /\ SameMachines(db, d) /\ t \in Tests
    BY <1>1, <1>3, <2>1, Facts, RunDb
  <2>3. PICK e : e = Updated(d, t)
    OBVIOUS
  <2>4. DbInv(e) /\ SameMachines(d, e) /\ NothingNew(d, e)
    BY <2>2, <2>3, UpdatedDb
  <2>5. SameMachines(db, e)
    BY <2>2, <2>4 DEF SameMachines
  <2>6. \A n \in Machines : n # m => d.machine[n] = db.machine[n]
    BY <2>1, Facts DEF DbType
  <2>7. \A n \in asking' : e.machine[n].doing \in {db.machine[n].doing, Nothing}
    BY <1>1, <2>4, <2>6, Facts DEF NothingNew
  <2>8. Terminate(e, S)
    BY <1>3, <2>1, <2>3
  <2>9. asking' \subseteq asking
    BY <1>1
  <2>10. QED  BY <1>1, <2>4, <2>5, <2>7, <2>8, <2>9, EndingStep
<1>4. QED  BY <1>2, <1>3 DEF StartNewTest

(* A worker reports results. *)
LEMMA RecordStep ==
  ASSUME Inv, NEW m \in Machines, RecordTestResults(m)
  PROVE  Inv'
<1>1. up /\ UNCHANGED <<tx, known, image, asking, up>> /\ db.machine[m].doing \in Tests
  BY DEF RecordTestResults, Rest, Talks, Unlocked
<1>2. PICK t \in Tests : t = db.machine[m].doing
  BY <1>1
<1>3. PICK d : d = [Without(db, {m}) EXCEPT !.wish[t] = IF @ > 0 THEN @ - 1 ELSE @]
  OBVIOUS
<1>4. DbInvBut(d, {t}) /\ SameMachines(db, d) /\ NothingNew(db, d)
  BY <1>2, <1>3, Facts, RecordDb
<1>5. PICK e : e = Updated(d, t)
  OBVIOUS
<1>6. DbInv(e) /\ SameMachines(d, e) /\ NothingNew(d, e)
  BY <1>4, <1>5, UpdatedDb
<1>7. SameMachines(db, e) /\ NothingNew(db, e)
  BY <1>4, <1>6 DEF SameMachines, NothingNew
<1>8. PICK S : Terminate(e, S)
  BY <1>2, <1>3, <1>5 DEF RecordTestResults
<1>9. QED  BY <1>1, <1>7, <1>6, <1>8, EndingQuietly

(* A run is canceled, machines are timed out or shut down. *)
LEMMA SweepSteps ==
  ASSUME Inv, \/ \E m \in Machines : CancelTestRun(m) \/ TimeOutMachine(m) \/ MakeRoom(m)
              \/ ShutdownMachines
  PROVE  Inv'
<1>1. ASSUME NEW m \in Machines, CancelTestRun(m)  PROVE Inv'
  <2>1. up /\ UNCHANGED <<tx, known, image, asking, up>>
    BY <1>1 DEF CancelTestRun, Rest, Unlocked
  <2>2. PICK e : e = RunsCanceled(db, {m})
    OBVIOUS
  <2>3. PICK S : Terminate(e, S)
    BY <1>1, <2>2 DEF CancelTestRun
  <2>4. DbInv(e) /\ SameMachines(db, e) /\ NothingNew(db, e)
    BY <2>2, Facts, CancelDb
  <2>5. QED  BY <2>1, <2>3, <2>4, EndingQuietly
<1>2. ASSUME NEW S, Terminate(db, S), up, UNCHANGED <<tx, known, image, asking, up>>
      PROVE  Inv'
  BY <1>2, Facts, EndingQuietly
<1>3. ASSUME NEW m \in Machines, TimeOutMachine(m) \/ MakeRoom(m)  PROVE Inv'
  <2>1. Terminate(db, {m}) /\ up /\ UNCHANGED <<tx, known, image, asking, up>>
    BY <1>3 DEF TimeOutMachine, MakeRoom, Rest, Unlocked, Checking
  <2>2. QED  BY <1>2, <2>1
<1>4. ASSUME ShutdownMachines  PROVE Inv'
  <2>1. PICK S : Terminate(db, S)
    BY <1>4 DEF ShutdownMachines
  <2>2. up /\ UNCHANGED <<tx, known, image, asking, up>>
    BY <1>4 DEF ShutdownMachines, Rest, Unlocked
  <2>3. QED  BY <1>2, <2>1, <2>2
<1>5. QED  BY <1>1, <1>3, <1>4

(* The cloud goes on, workers ask, the boot check begins or ends.            *)
LEMMA IdleSteps ==
  ASSUME Inv, UNCHANGED <<db, booked, cores, up>>, AskInv',
         cloud' \in CloudType, known' \in ImageType, image' \in ImageType,
         \/ tx' = Free
         \/ tx' = tx
         \/ up /\ tx' = Round(db, db)
  PROVE  Inv'
<1>1. DbInv(db') /\ SameMachines(db, db') /\ up' \in BOOLEAN
  BY Facts
<1>2. BookInv'
  BY <1>1, BooksStay
<1>3. Round(db, db) \in TxType /\ Round(db, db).saved = db
  BY Facts DEF Round, TxType, WantMore, WantLess
<1>4. QED  BY <1>1, <1>2, <1>3, Facts, Together

(* ... step by step. *)
LEMMA QuietSteps ==
  ASSUME Inv,
         \/ \E m \in Machines : AskForTest(m) \/ InstanceRuns(m) \/ InstanceDies(m)
         \/ \E c \in VMs : ImageMade(c)
         \/ ScheduleBootCheck \/ BeginBootCheck \/ NothingToBoot
         \/ \E c \in Categories : EnsureOsConfigAvailable(c) \/ BootFails(c)
  PROVE  Inv'
<1>1. UNCHANGED <<db, booked, cores, up>>
  BY DEF AskForTest, InstanceRuns, InstanceDies, ImageMade, ScheduleBootCheck, BeginBootCheck,
         NothingToBoot, EnsureOsConfigAvailable, BootFails, management
<1>2. \/ tx' = Free
      \/ tx' = tx
      \/ up /\ tx' = Round(db, db)
  BY DEF AskForTest, InstanceRuns, InstanceDies, ImageMade, ScheduleBootCheck, BeginBootCheck,
         NothingToBoot, EnsureOsConfigAvailable, BootFails, EndBootCheck, Unlocked
<1>3. AskInv'
  <2>1. \/ asking' = asking
        \/ \E m \in Machines : db.machine[m].doing = Nothing /\ asking' = asking \cup {m}
    BY DEF AskForTest, InstanceRuns, InstanceDies, ImageMade, ScheduleBootCheck,
           BeginBootCheck, NothingToBoot, EnsureOsConfigAvailable, BootFails
  <2>2. QED  BY <1>1, <2>1, Facts DEF AskInv
<1>4. cloud' \in CloudType
  BY Facts DEF AskForTest, InstanceRuns, InstanceDies, ImageMade, ScheduleBootCheck,
               BeginBootCheck, NothingToBoot, EnsureOsConfigAvailable, BootFails, CloudType
<1>5. known' \in ImageType
  BY Facts DEF AskForTest, InstanceRuns, InstanceDies, ImageMade, ScheduleBootCheck,
               BeginBootCheck, NothingToBoot, EnsureOsConfigAvailable, BootFails, ImageType,
               management
<1>6. image' \in ImageType
  BY Facts DEF AskForTest, InstanceRuns, InstanceDies, ImageMade, ScheduleBootCheck,
               BeginBootCheck, NothingToBoot, EnsureOsConfigAvailable, BootFails, ImageType
<1>7. QED  BY <1>1, <1>2, <1>3, <1>4, <1>5, <1>6, Facts, IdleSteps

(* The boot check gives a category up: its tests are queued only when        *)
(* boot_worker has raised.                                                  *)
LEMMA GiveUpSteps ==
  ASSUME Inv, NEW c \in Categories, AmiCreationFailed(c) \/ BootUnsupported(c)
  PROVE  Inv'
<1>1. /\ UNCHANGED <<booked, cores, known, image, cloud, asking, up>>
      /\ tx' = tx \/ tx' = Free
  BY DEF AmiCreationFailed, BootUnsupported, EndBootCheck, management
<1>2. PICK e : e = db'
  OBVIOUS
<1>3. \E Q \in SUBSET Tests :
        e = [db EXCEPT !.unbootable = @ \cup {c}, !.desired[c] = 0, !.queued = @ \cup Q]
  <2>1. CASE AmiCreationFailed(c)
    <3>1. e = [db EXCEPT !.unbootable = @ \cup {c}, !.desired[c] = 0]
      BY <1>2, <2>1 DEF AmiCreationFailed
    <3>2. PICK w : w = [db.desired EXCEPT ![c] = 0]
      OBVIOUS
    <3>3. e = [db EXCEPT !.unbootable = @ \cup {c}, !.desired = w]
      BY <3>1, <3>2
    <3>4. db.queued \cup {} = db.queued
      OBVIOUS
    <3>5. [db EXCEPT !.unbootable = @ \cup {c}, !.desired = w, !.queued = @ \cup {}] =
          [db EXCEPT !.unbootable = @ \cup {c}, !.desired = w]
      BY <3>4, Facts DEF DbType
    <3>6. e = [db EXCEPT !.unbootable = @ \cup {c}, !.desired[c] = 0, !.queued = @ \cup {}]
      BY <3>2, <3>3, <3>5
    <3>7. QED  BY <3>6
  <2>2. CASE BootUnsupported(c)
    <3>1. PICK Q : Q = {t \in db.prioritized : CategoryOf[t] = c}
      OBVIOUS
    <3>2. e = [db EXCEPT !.unbootable = @ \cup {c}, !.desired[c] = 0, !.queued = @ \cup Q]
      BY <1>2, <2>2, <3>1 DEF BootUnsupported
    <3>3. Q \in SUBSET Tests
      BY <3>1, Facts DEF DbType
    <3>4. QED  BY <3>2, <3>3
  <2>3. QED  BY <2>1, <2>2
<1>4. DbInv(e) /\ SameMachines(db, e) /\ NothingNew(db, e)
  BY <1>3, Facts, UnbootableDb
<1>5. QED  BY <1>1, <1>2, <1>4, Facts, ChangeStep

(* A machine is booted within the limits, since canBoot looked at the books  *)
(* and all machines of the database are in the books.                        *)
LEMMA BootStep ==
  ASSUME Inv, NEW c \in Categories, NEW m \in Machines, Boot(c, m)
  PROVE  Inv'
<1>1. /\ up /\ tx.kind = "boot" /\ up' = up
      /\ MaxCores > 0 => cores + Cores[c] <= MaxCores
      /\ MaxWorkers > 0 => Cardinality(booked) + 1 <= MaxWorkers
      /\ m \notin Alive(db) /\ m \notin booked /\ db.machine[m].doing = Nothing
      /\ booked' = booked \cup {m} /\ cores' = cores + Cores[c]
      /\ cloud' = [cloud EXCEPT ![m] = "pending"]
      /\ tx' = Round(db', tx.saved)
      /\ UNCHANGED <<known, image, asking>>
  BY DEF Boot, Checking, CanBoot, Fresh
<1>2. PICK e : e = Booted(db, c, m)
  OBVIOUS
<1>3. db' = e
  BY <1>2 DEF Boot, Booted
<1>4. e.machine[m].cat = c /\ \A n \in Machines \ {m} : e.machine[n].cat = db.machine[n].cat
  BY <1>2, Facts DEF DbType, Booted
<1>5. /\ booked \subseteq Machines /\ cores = CoresOf(db, booked)
      /\ \A n \in booked : db.machine[n].cat \in Categories
      /\ Alive(db) \subseteq booked /\ (~TerminateMayFail => booked = Alive(db))
  BY <1>1 DEF Inv, BookInv
<1>6. CoresOf(e, booked) = cores
  <2>1. \A n \in booked : db.machine[n].cat = e.machine[n].cat
    BY <1>1, <1>4, <1>5
  <2>2. QED  BY <1>5, <2>1, CoresSame
<1>7. /\ \A n \in booked \cup {m} : e.machine[n].cat \in Categories
      /\ booked \cup {m} \subseteq Machines
  BY <1>1, <1>4, <1>5
<1>8. CoresOf(e, booked \cup {m}) = cores + Cores[c]
  BY <1>1, <1>4, <1>5, <1>6, <1>7, CoresAdd
<1>9. Cardinality(booked \cup {m}) = Cardinality(booked) + 1
  BY <1>1, <1>5, FiniteParts, FS_AddElement
<1>10. WithinLimits(e, booked \cup {m})
  BY <1>1, <1>8, <1>9 DEF WithinLimits
<1>11. WithinLimits(e, Alive(db) \cup {m})
  <2>1. Alive(db) \cup {m} \subseteq booked \cup {m}
    BY <1>5
  <2>2. QED  BY <1>7, <1>10, <2>1, LimitsKept
<1>12. DbInv(e) /\ Alive(e) = Alive(db) \cup {m} /\ NothingNew(db, e)
  BY <1>1, <1>2, <1>11, Facts, BootDb
<1>13. BookInv'
  BY <1>1, <1>3, <1>5, <1>7, <1>8, <1>10, <1>12 DEF BookInv
<1>14. cloud' \in CloudType
  BY <1>1, Facts DEF CloudType
<1>15. tx # Free /\ tx.saved \in DbType
  BY <1>1, Facts DEF Free, TxType
<1>16. Round(e, tx.saved) \in TxType /\ Round(e, tx.saved).saved = tx.saved
  BY <1>15 DEF Round, TxType, WantMore, WantLess
<1>17. DbInv(tx.saved)
  BY <1>15 DEF Inv, SavedInv
<1>18. AskInv'
  <2>1. asking' \subseteq asking /\ \A n \in asking' : db.machine[n].doing \in {db.machine[n].doing, Nothing}
    BY <1>1
  <2>2. QED  BY <1>3, <1>12, <2>1, AskKept
<1>19. QED  BY <1>1, <1>3, <1>12, <1>13, <1>14, <1>16, <1>17, <1>18, Facts, Together

(* No machine has no cores. *)
LEMMA NoCores ==
  ASSUME NEW d
  PROVE  CoresOf(d, {}) = 0 /\ WithinLimits(d, {})
<1>1. CoreSlots(d, {}) = {}
  BY CoreSlotsAre
<1>2. CoresOf(d, {}) = 0 /\ Cardinality({}) = 0
  BY <1>1, FS_EmptySet DEF CoresOf
<1>3. QED  BY <1>2, MachineAssumption DEF WithinLimits

(* The server crashes: a boot check under way has not happened. *)
LEMMA CrashStep ==
  ASSUME Inv, Crash
  PROVE  Inv'
<1>1. /\ db' = IF tx = Free THEN db ELSE tx.saved
      /\ tx' = Free /\ booked' = {} /\ cores' = 0 /\ asking' = {} /\ up' = FALSE
      /\ known' = [c \in VMs |-> "none"] /\ UNCHANGED <<image, cloud>>
  BY DEF Crash
<1>2. DbInv(db')
  BY <1>1 DEF Inv, SavedInv
<1>3. CoresOf(db', {}) = 0 /\ WithinLimits(db', {})
  BY NoCores
<1>4. BookInv'
  BY <1>1, <1>3 DEF BookInv
<1>5. known' \in ImageType
  BY <1>1 DEF ImageType
<1>6. AskInv'
  BY <1>1 DEF AskInv
<1>7. QED  BY <1>1, <1>2, <1>4, <1>5, <1>6, Facts, Together

(* The server starts again: the categories are counted again and the books    *)
(* are written from what the cloud has.                                      *)
LEMMA RestartStep ==
  ASSUME Inv, Restart
  PROVE  Inv'
<1>1. /\ ~up /\ up' = TRUE
      /\ booked' = Alive(db) \cap Active /\ cores' = CoresOf(db, booked')
      /\ known' = image /\ UNCHANGED <<tx, image, asking>>
      /\ db' = MachinesTerminated(Recounted(db), AppearDead)
  BY DEF Restart
<1>2. cloud' \in CloudType
  BY Facts DEF Restart, CloudType
<1>3. PICK d : d = Recounted(db)
  OBVIOUS
<1>4. DbInv(d) /\ SameMachines(db, d) /\ NothingNew(db, d)
  BY <1>3, Facts, RecountedDb
<1>5. /\ DbInv(db') /\ Alive(db') = Alive(d) \ AppearDead /\ NothingNew(d, db')
      /\ \A n \in Machines : db'.machine[n].cat = d.machine[n].cat
  BY <1>1, <1>3, <1>4, TerminatedDb
<1>6. /\ Alive(d) = Alive(db) /\ Alive(db) \subseteq Machines
      /\ \A n \in Machines : db'.machine[n].cat = db.machine[n].cat
  BY <1>4, <1>5, SameAlive DEF SameMachines, Alive
<1>7. Alive(db') = booked' /\ booked' \subseteq Machines /\ booked' \subseteq Alive(db)
  BY <1>1, <1>5, <1>6 DEF AppearDead
<1>8. cores' = CoresOf(db', booked')
  <2>1. \A n \in booked' : db.machine[n].cat = db'.machine[n].cat
    BY <1>6, <1>7
  <2>2. CoresOf(db, booked') = CoresOf(db', booked')
    BY <2>1, CoresSame
  <2>3. QED  BY <1>1, <2>2
<1>9. /\ WithinLimits(db', booked')
      /\ \A n \in booked' : db'.machine[n].cat \in Categories
  BY <1>5, <1>7 DEF DbInv, DbInvBut, Frame, MachinesSound, Alive
<1>10. BookInv'
  BY <1>7, <1>8, <1>9 DEF BookInv
<1>11. tx' = Free
  BY <1>1 DEF Inv, OtherInv
<1>12. AskInv'
  <2>1. asking' \subseteq asking /\ asking' \subseteq Machines
    BY <1>1, Facts
  <2>2. \A n \in asking' : d.machine[n].doing \in {db.machine[n].doing, Nothing}
    BY <1>4, <2>1 DEF NothingNew
  <2>3. QED  BY <1>5, <2>1, <2>2, AskKept
<1>13. QED  BY <1>1, <1>2, <1>5, <1>10, <1>11, <1>12, Facts, Together

------------------------------------------------------------------------------
(* The theorems *)
------------------------------------------------------------------------------
(* The theorems *)

(* Nothing is there and nothing is wanted. *)
LEMMA InitHolds == Init => Inv
<1> SUFFICES ASSUME Init  PROVE Inv
  OBVIOUS
<1>1. /\ db.desired = [c \in Categories |-> 0] /\ db.booted = [c \in Categories |-> 0]
      /\ db.unbootable = {} /\ db.target = [t \in Tests |-> 0]
      /\ db.wish = [t \in Tests |-> Unwanted]
      /\ db.prioritized = {} /\ db.queued = {} /\ db.missed = {}
      /\ db.deploy = [x \in Deploys |-> "none"]
      /\ db.machine = [m \in Machines |-> [alive |-> FALSE, cat |-> Nothing, doing |-> Nothing]]
      /\ db = Rebuilt(db)
      /\ Nothing \notin Tests \cup Deploys /\ MaxTarget \in Nat
  BY MachineAssumption DEF Init, Rebuilt
<1>2. db \in DbType
  <2>1. /\ db.machine \in [Machines -> MachineType] /\ db.unbootable \in SUBSET Categories
        /\ db.deploy \in [Deploys -> {"none", "pending", "running"}]
        /\ db.prioritized \in SUBSET Tests /\ db.queued \in SUBSET Tests
        /\ db.missed \in SUBSET Tests
    BY <1>1 DEF MachineType
  <2>2. /\ db.desired \in [Categories -> Int] /\ db.booted \in [Categories -> Nat]
        /\ db.target \in [Tests -> 0 .. MaxTarget]
    BY <1>1
  <2>3. db.wish \in [Tests -> Unwanted .. MaxTarget]
    BY <1>1 DEF Unwanted
  <2>4. QED  BY <1>1, <2>1, <2>2, <2>3 DEF DbType, Rebuilt
<1>3. MachinesSound(db) /\ OnePlace(db) /\ \A t \in Tests \cup Deploys : Doing(db, t) = {}
  BY <1>1 DEF MachinesSound, OnePlace, Doing
<1>4. Alive(db) = {} /\ \A c : AliveOf(db, c) = {}
  BY <1>1 DEF Alive, AliveOf
<1>5. Cardinality({}) = 0
  BY FS_EmptySet
<1>6. BootedIs(db)
  <2>1. \A c \in Categories : db.booted[c] = 0
    BY <1>1
  <2>2. QED  BY <1>4, <1>5, <2>1 DEF BootedIs
<1>7. \A c : WantedTests(db, c) = {} /\ WantedDeploys(db, c) = {} /\ MissedOf(db, c) = {}
  BY <1>1 DEF WantedTests, WantedDeploys, TestsOf, MissedOf
<1>8. CountsRight(db)
  <2>1. \A c \in Categories : db.desired[c] = 0
    BY <1>1
  <2>2. \A c : /\ Cardinality(WantedTests(db, c)) = 0 /\ Cardinality(WantedDeploys(db, c)) = 0
               /\ Cardinality(MissedOf(db, c)) = 0
    BY <1>5, <1>7
  <2>3. QED  BY <2>1, <2>2 DEF CountsRight
<1>9. WithinLimits(db, Alive(db)) /\ CoresOf(db, {}) = 0
  BY <1>4, NoCores
<1>10. FollowsBut(db, {}) /\ TestsSound(db, {})
  <2>1. \A t \in Tests : /\ db.wish[t] = Unwanted /\ db.target[t] = 0 /\ t \notin db.prioritized
                         /\ Target(db, t) = 0
    BY <1>1 DEF Target
  <2>2. QED  BY <1>3, <2>1 DEF FollowsBut, TestsSound, TestSound, OneRun, Bootable, Unwanted
<1>11. DbInv(db)
  BY <1>2, <1>3, <1>6, <1>8, <1>9, <1>10 DEF DbInv, DbInvBut, Frame
<1>12. BookInv
  BY <1>4, <1>9 DEF BookInv, Init
<1>13. SavedInv /\ OtherInv /\ AskInv
  BY DEF Init, SavedInv, OtherInv, AskInv, TxType
<1>14. QED  BY <1>11, <1>12, <1>13 DEF Inv

(* Every step keeps the invariant. *)
LEMMA InvStep == Inv /\ [Next]_vars => Inv'
<1> SUFFICES ASSUME Inv, [Next]_vars  PROVE Inv'
  OBVIOUS
<1>1. CASE BootCheck
  BY <1>1, QuietSteps, GiveUpSteps, SweepSteps, BootStep DEF BootCheck
<1>2. CASE ScheduleBootCheck
  BY <1>2, QuietSteps
<1>3. CASE Progress
  BY <1>3, SweepSteps, QuietSteps, StartTestStep, RecordStep, StartDeploymentStep, UpdateStep
     DEF Progress
<1>4. CASE Users
  BY <1>4, WishSteps, CreateStep, OverStep DEF Users
<1>5. CASE Cloud
  BY <1>5, QuietSteps DEF Cloud
<1>6. CASE Crash
  BY <1>6, CrashStep
<1>7. CASE Restart
  BY <1>7, RestartStep
<1>8. CASE UNCHANGED vars
  BY <1>8, Facts, IdleSteps DEF vars, AskInv, management
<1>9. QED  BY <1>1, <1>2, <1>3, <1>4, <1>5, <1>6, <1>7, <1>8 DEF Next

(* What the invariant says of the counters. *)
LEMMA InvCounts == Inv => TypeOK /\ BootedExact
<1> SUFFICES ASSUME Inv  PROVE TypeOK /\ BootedExact
  OBVIOUS
<1>1. cores \in Nat /\ booked \subseteq Machines /\ asking \subseteq Machines
  BY CoresCount DEF Inv, BookInv, AskInv
<1>2. db \in DbType /\ BootedIs(db)
  BY DEF Inv, DbInv, DbInvBut, Frame
<1>3. TypeOK
  BY <1>1, <1>2 DEF Inv, OtherInv, DbType, MachineType, TypeOK
<1>4. \A c \in Categories :
         db.booted[c] = Cardinality({m \in Alive(db) : db.machine[m].cat = c})
  BY <1>2 DEF BootedIs, AliveOf
<1>5. QED  BY <1>3, <1>4 DEF Inv, BookInv, WithinLimits, BootedExact

(* MachineCategory.booted is the number of live machines of the category,     *)
(* MachineManagement.cores_booted that of the cores in its books, and neither  *)
(* limit of the configuration is ever passed: whatever crashes, dies or is    *)
(* refused by the cloud, and however many runs a test may want.               *)
THEOREM CountersStayExact == Spec => [](TypeOK /\ BootedExact)
<1>1. QED  BY InitHolds, InvStep, InvCounts, PTL DEF Spec

(* All three sets of books agree, MachineCategory.desired included, as long    *)
(* as the cloud ends what it is asked to end and a test wants one run at most: *)
(* _checkMachineCategoryCounts counts a test that waits for a machine once.   *)
(* What it misses after a restart is exactly the tests whose update was still  *)
(* in the queue.                                                            *)
THEOREM BooksBalance ==
  ASSUME ~TerminateMayFail, MaxTarget <= 1
  PROVE  Spec => []BooksAgree
<1>1. Inv => BooksAgree
  <2> SUFFICES ASSUME Inv  PROVE BooksAgree
    OBVIOUS
  <2>1. TypeOK /\ BootedExact
    BY InvCounts
  <2>2. db \in DbType /\ CountsRight(db) /\ FollowsBut(db, {})
    BY DEF Inv, DbInv, DbInvBut, Frame
  <2>3. \A c \in Categories : Cardinality(WantedRuns(db, c)) = Cardinality(WantedTests(db, c))
    BY <2>2, WantedCount
  <2>4. DesiredExact
    BY <2>2, <2>3 DEF CountsRight, DesiredExact, MissedOf
  <2>5. TargetsFollow
    BY <2>2 DEF FollowsBut, Bootable, TargetsFollow
  <2>6. Unlocked => booked = Alive(db)
    BY DEF Inv, BookInv, Unlocked
  <2>7. QED  BY <2>1, <2>4, <2>5, <2>6 DEF BooksAgree
<1>2. QED  BY <1>1, InitHolds, InvStep, PTL DEF Spec
===============================================================================
