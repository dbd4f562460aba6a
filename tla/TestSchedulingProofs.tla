------------------------ MODULE TestSchedulingProofs ------------------------
(* Proofs about TestScheduling, for any commits, branches, tests and         *)
(* dependencies, any bounds, and any windows for the other threads.          *)
EXTENDS TestScheduling, FiniteSetTheorems, WellFoundedInduction, SequenceTheorems, TLAPS

-----------------------------------------------------------------------------
(* The invariant *)

(* A run that was started belongs to a test. *)
RunsBelong(d) == \A r \in Runs : d.run[r].state # "none" => d.run[r].test \in Tests

DbInv(d) ==
    /\ d \in Database /\ RunsBelong(d) /\ ActiveExact(d) /\ DesiredExact(d)
    /\ Resubmit \/ TotalsExact(d)

(* Machines work on runs that were started. *)
AgentInv ==
    /\ agent \in [Runs -> {"none", "working", "passed", "failed", "done"}]
    /\ \A r \in Runs : agent[r] # "none" => db.run[r].state # "none"

RestInv ==
    /\ phase \in {"idle", "picked", "processed"}
    /\ task \in Commits \cup Tests \cup {NoTask}
    /\ requests \in 0 .. MaxRequests

Inv == DbInv(db) /\ AgentInv /\ RestInv

(* The runs that have not started are the same. *)
SameFree(d, e) == \A r \in Runs : (e.run[r].state = "none") <=> (d.run[r].state = "none")

-----------------------------------------------------------------------------
(* Numbers *)

(* Runs can be counted. *)
LEMMA FiniteRuns ==
  ASSUME NEW S, S \subseteq Runs
  PROVE  IsFiniteSet(S) /\ Cardinality(S) \in Nat
<1>1. MaxRuns \in Nat
  BY SchedulingAssumption
<1>2. IsFiniteSet(Runs)
  BY <1>1, FS_Interval DEF Runs
<1>3. IsFiniteSet(S)
  BY <1>2, FS_Subset
<1>4. QED  BY <1>3, FS_CardinalityType

(* A set of numbers has a least one. *)
LEMMA MinIs ==
  ASSUME NEW S, S \subseteq Nat, S # {}
  PROVE  Min(S) \in S
<1>1. \E x \in S : \A y \in S : ~(<<y, x>> \in OpToRel(<, Nat))
  BY NatLessThanWellFounded, WFMin
<1>2. PICK x \in S : \A y \in S : ~(<<y, x>> \in OpToRel(<, Nat))
  BY <1>1
<1>3. \A y \in S : x =< y
  <2> SUFFICES ASSUME NEW y \in S PROVE x =< y
    OBVIOUS
  <2>1. ~(y < x)
    BY <1>2 DEF OpToRel
  <2>2. QED  BY <2>1
<1>4. QED  BY <1>2, <1>3 DEF Min

(* A bounded set of numbers has a greatest one. *)
LEMMA MaxIs ==
  ASSUME NEW n \in Nat, NEW S, S \subseteq 0 .. n, S # {}
  PROVE  Max(S) \in S /\ \A y \in S : y =< Max(S)
<1>1. PICK B : B = {b \in Nat : \A y \in S : y =< b}
  OBVIOUS
<1>2. B \subseteq Nat /\ n \in B
  BY <1>1
<1>3. PICK b \in B : \A y \in B : ~(<<y, b>> \in OpToRel(<, Nat))
  BY <1>2, NatLessThanWellFounded, WFMin
<1>4. \A y \in B : ~(y < b)
  BY <1>2, <1>3 DEF OpToRel
<1>5. b \in S
  <2> SUFFICES ASSUME b \notin S PROVE FALSE
    OBVIOUS
  <2>1. b \in Nat /\ \A y \in S : y \in Nat /\ y =< b /\ y # b
    <3>1. b \in Nat /\ \A y \in S : y =< b
      BY <1>1
    <3>2. \A y \in S : y \in Nat /\ y # b
      OBVIOUS
    <3>3. QED  BY <3>1, <3>2
  <2>2. PICK z \in S : TRUE
    OBVIOUS
  <2>3. b # 0
    BY <2>1, <2>2
  <2>4. b - 1 \in B
    <3>1. b - 1 \in Nat
      BY <2>1, <2>3
    <3>2. \A y \in S : y =< b - 1
      BY <2>1
    <3>3. QED  BY <1>1, <3>1, <3>2
  <2>5. QED  BY <1>4, <2>1, <2>4
<1>6. \A y \in S : b >= y
  BY <1>1, <1>2
<1>7. Max(S) \in S /\ \A y \in S : Max(S) >= y
  BY <1>5, <1>6 DEF Max
<1>8. QED  BY <1>7

(* The larger of two numbers. *)
LEMMA MaxOfTwo ==
  ASSUME NEW a \in Int, NEW b \in Int
  PROVE  Max({a, b}) \in Int /\ Max({a, b}) >= a /\ Max({a, b}) >= b
<1>1. \E x \in {a, b} : \A y \in {a, b} : x >= y
  OBVIOUS
<1>2. Max({a, b}) \in {a, b} /\ \A y \in {a, b} : Max({a, b}) >= y
  BY <1>1 DEF Max
<1>3. QED  BY <1>2

(* Induction up to a bound, for a set in place of a property. *)
LEMMA CountingUp ==
  ASSUME NEW n \in Nat, NEW T, 0 \in T, \A i \in 0 .. n - 1 : i \in T => i + 1 \in T
  PROVE  \A i \in 0 .. n : i \in T
<1> SUFFICES ASSUME NEW j \in 0 .. n, j \notin T  PROVE FALSE
  OBVIOUS
<1>1. PICK Bad : Bad = {i \in 0 .. n : i \notin T}
  OBVIOUS
<1>2. Bad \subseteq Nat /\ Bad # {}
  BY <1>1
<1>3. PICK x \in Bad : \A y \in Bad : ~(<<y, x>> \in OpToRel(<, Nat))
  BY <1>2, NatLessThanWellFounded, WFMin
<1>4. \A y \in Bad : ~(y < x)
  BY <1>2, <1>3 DEF OpToRel
<1>5. x # 0 /\ x \in 0 .. n /\ x - 1 \in 0 .. n - 1 /\ x - 1 < x
  <2>1. x \in 0 .. n /\ x # 0
    BY <1>1
  <2>2. QED  BY <2>1
<1>6. x - 1 \in T
  BY <1>1, <1>4, <1>5
<1>7. QED  BY <1>1, <1>5, <1>6

-----------------------------------------------------------------------------
(* What a database needs to keep its counters *)

(* The parts of a database. *)
LEMMA Parts ==
  ASSUME NEW d \in Database
  PROVE  /\ d.commit \in [Commits -> CommitObject]
         /\ d.head \in [Branches -> Commits \cup {NoCommit}]
         /\ d.test \in [Tests -> TestObject]
         /\ d.run \in [Runs -> RunObject]
         /\ d.desired \in [Categories -> Int]
         /\ d.unbootable \subseteq Categories
         /\ d.queued \subseteq Commits \cup Tests
BY DEF Database

(* The counters of tests follow their runs as long as neither changes. *)
LEMMA CountsStay ==
  ASSUME NEW d, DbInv(d), NEW e,
         \A r \in Runs : /\ e.run[r].test = d.run[r].test
                         /\ e.run[r].state = d.run[r].state
                         /\ e.run[r].success = d.run[r].success,
         \A t \in Tests : /\ e.test[t].activeRuns = d.test[t].activeRuns
                          /\ e.test[t].totalRuns = d.test[t].totalRuns
                          /\ e.test[t].successes = d.test[t].successes
  PROVE  /\ RunsBelong(e) /\ ActiveExact(e) /\ (Resubmit \/ TotalsExact(e))
         /\ SameFree(d, e)
<1>1. \A t, states : RunsOf(e, t, states) = RunsOf(d, t, states)
  BY DEF RunsOf
<1>2. \A t : {r \in RunsOf(e, t, {"finished"}) : e.run[r].success}
            = {r \in RunsOf(d, t, {"finished"}) : d.run[r].success}
  BY <1>1 DEF RunsOf
<1>3. RunsBelong(e)
  BY DEF DbInv, RunsBelong
<1>4. ActiveExact(e)
  BY <1>1 DEF DbInv, ActiveExact
<1>5. Resubmit \/ TotalsExact(e)
  <2> SUFFICES ASSUME TotalsExact(d), NEW t \in Tests
               PROVE  /\ e.test[t].totalRuns = Cardinality(RunsOf(e, t, {"finished"}))
                      /\ e.test[t].successes =
                            Cardinality({r \in RunsOf(e, t, {"finished"}) : e.run[r].success})
    BY DEF DbInv, TotalsExact
  <2>1. /\ d.test[t].totalRuns = Cardinality(RunsOf(d, t, {"finished"}))
        /\ d.test[t].successes =
              Cardinality({r \in RunsOf(d, t, {"finished"}) : d.run[r].success})
    BY DEF TotalsExact
  <2>2. RunsOf(e, t, {"finished"}) = RunsOf(d, t, {"finished"})
    BY <1>1
  <2>3. {r \in RunsOf(e, t, {"finished"}) : e.run[r].success}
            = {r \in RunsOf(d, t, {"finished"}) : d.run[r].success}
    BY <1>2
  <2>4. QED  BY <2>1, <2>2, <2>3, Zenon
<1>6. QED  BY <1>3, <1>4, <1>5 DEF SameFree

(* What is wanted of categories stays as long as the targets do. *)
LEMMA DesiredStays ==
  ASSUME NEW d, DbInv(d), NEW e, d.unbootable \subseteq e.unbootable,
         \A t \in Tests : e.test[t].target = d.test[t].target,
         \A c \in Categories \ e.unbootable : e.desired[c] = d.desired[c]
  PROVE  DesiredExact(e)
<1>1. \A c : WantedSlots(e, {t \in Tests : CategoryOf[t] = c})
           = WantedSlots(d, {t \in Tests : CategoryOf[t] = c})
  BY DEF WantedSlots
<1>2. QED  BY <1>1 DEF DbInv, DesiredExact

(* Only commits, heads and the queue change. *)
LEMMA CommitsChange ==
  ASSUME NEW d, DbInv(d), NEW e \in Database, e.test = d.test, e.run = d.run,
         e.desired = d.desired, e.unbootable = d.unbootable
  PROVE  DbInv(e) /\ SameFree(d, e)
<1>1. /\ RunsBelong(e) /\ ActiveExact(e) /\ (Resubmit \/ TotalsExact(e))
      /\ SameFree(d, e)
  BY CountsStay
<1>2. DesiredExact(e)
  BY DesiredStays
<1>3. QED  BY <1>1, <1>2 DEF DbInv

(* Queueing updates. *)
LEMMA TriggerDb ==
  ASSUME NEW d, DbInv(d), NEW what, what \subseteq Commits \cup Tests
  PROVE  DbInv(Trigger(d, what)) /\ SameFree(d, Trigger(d, what))
<1>1. PICK e : e = Trigger(d, what)
  OBVIOUS
<1>2. d \in Database /\ d.queued \cup what \subseteq Commits \cup Tests
  BY Parts DEF DbInv
<1>3. /\ e \in Database /\ e.test = d.test /\ e.run = d.run
      /\ e.desired = d.desired /\ e.unbootable = d.unbootable
  BY <1>1, <1>2 DEF Trigger, Database
<1>4. QED  BY <1>1, <1>3, CommitsChange

-----------------------------------------------------------------------------
(* Commits and branches *)

UpStep(c, S, F, i) ==
    IF i = 0 THEN {c} \cap S
    ELSE F[i - 1] \cup {p \in S : \E x \in F[i - 1] : <<x, p>> \in Parents}

(* The recursion of AncestorsIn is well defined. *)
LEMMA UpExists ==
  ASSUME NEW c, NEW S, NEW n \in Nat
  PROVE  \E F : F = [i \in 0 .. n |-> UpStep(c, S, F, i)]
<1>1. PICK T : T = {m \in 0 .. n : \E F : F = [i \in 0 .. m |-> UpStep(c, S, F, i)]}
  OBVIOUS
<1>2. 0 \in T
  <2>1. PICK G : G = [i \in 0 .. 0 |-> {c} \cap S]
    OBVIOUS
  <2>2. G = [i \in 0 .. 0 |-> UpStep(c, S, G, i)]
    BY <2>1 DEF UpStep
  <2>3. QED  BY <1>1, <2>2
<1>3. ASSUME NEW m \in 0 .. n - 1, m \in T  PROVE m + 1 \in T
  <2>1. PICK F : F = [i \in 0 .. m |-> UpStep(c, S, F, i)]
    BY <1>1, <1>3
  <2>2. PICK G : G = [i \in 0 .. m + 1 |->
                        IF i = m + 1 THEN UpStep(c, S, F, m + 1) ELSE F[i]]
    OBVIOUS
  <2>3. \A i \in 0 .. m + 1 : G[i] = UpStep(c, S, G, i)
    <3> TAKE i \in 0 .. m + 1
    <3>1. i # 0 => i - 1 \in 0 .. m /\ G[i - 1] = F[i - 1]
      BY <2>2
    <3>2. i # m + 1 => F[i] = UpStep(c, S, F, i)
      BY <2>1
    <3>3. UpStep(c, S, G, i) = UpStep(c, S, F, i)
      BY <3>1 DEF UpStep
    <3>4. QED  BY <2>2, <3>2, <3>3
  <2>4. G = [i \in 0 .. m + 1 |-> UpStep(c, S, G, i)]
    BY <2>2, <2>3
  <2>5. m + 1 \in 0 .. n
    OBVIOUS
  <2>6. QED  BY <1>1, <2>4, <2>5
<1>4. n \in T
  BY <1>2, <1>3, CountingUp
<1>5. QED  BY <1>1, <1>4

(* AncestorsIn finds commits of the set it looks in. *)
LEMMA AncestorsAre ==
  ASSUME NEW c, NEW S
  PROVE  AncestorsIn(c, S) \subseteq S
<1>1. PICK n \in Nat : n = Cardinality(Commits)
  BY SchedulingAssumption, FS_CardinalityType
<1> DEFINE F == CHOOSE F : F = [i \in 0 .. n |-> UpStep(c, S, F, i)]
<1>2. AncestorsIn(c, S) = F[n]
  BY <1>1 DEF AncestorsIn, UpStep
<1>3. F = [i \in 0 .. n |-> UpStep(c, S, F, i)]
  BY UpExists
<1> HIDE DEF F
<1>4. PICK T : T = {i \in 0 .. n : F[i] \subseteq S}
  OBVIOUS
<1>5. \A i \in 0 .. n : F[i] = UpStep(c, S, F, i)
  BY <1>3
<1>6. 0 \in T
  <2>1. 0 \in 0 .. n
    OBVIOUS
  <2>2. F[0] = UpStep(c, S, F, 0)
    BY <1>5, <2>1
  <2>3. F[0] = {c} \cap S
    BY <2>2 DEF UpStep
  <2>4. QED  BY <1>4, <2>1, <2>3
<1>7. ASSUME NEW i \in 0 .. n - 1, i \in T  PROVE i + 1 \in T
  <2>1. i + 1 \in 0 .. n /\ i + 1 # 0 /\ (i + 1) - 1 = i
    OBVIOUS
  <2>2. F[i + 1] = F[i] \cup {p \in S : \E x \in F[i] : <<x, p>> \in Parents}
    BY <1>5, <2>1 DEF UpStep
  <2>3. F[i] \subseteq S
    BY <1>4, <1>7
  <2>4. QED  BY <1>4, <2>1, <2>2, <2>3
<1>8. n \in T
  BY <1>6, <1>7, CountingUp
<1>9. QED  BY <1>2, <1>4, <1>8

(* A commit with other fields. *)
LEMMA CommitFields ==
  ASSUME NEW x \in CommitObject, NEW u \in 0 .. MaxLevel, NEW b \in Branches \cup {NoBranch}
  PROVE  /\ [x EXCEPT !.user = u] \in CommitObject
         /\ [x EXCEPT !.branch = b] \in CommitObject
         /\ [x EXCEPT !.calc = u] \in CommitObject
         /\ [x EXCEPT !.branch = b, !.calc = u] \in CommitObject
BY DEF CommitObject

(* _updateCommitPriority leaves the counters alone. *)
LEMMA UpdateCommitDb ==
  ASSUME NEW d, DbInv(d), NEW c \in Commits
  PROVE  DbInv(UpdateCommit(d, c)) /\ SameFree(d, UpdateCommit(d, c))
<1>1. d \in Database
  BY DEF DbInv
<1>2. PICK branch : branch = CalcCommitAnybranch(d, c)
  OBVIOUS
<1>3. branch \in Branches \cup {NoBranch}
  <2>1. PICK found : found = {b \in Branches : d.head[b] = c}
                     \cup ({d.commit[x].branch : x \in {y \in Commits : <<y, c>> \in Parents}}
                           \ {NoBranch})
    OBVIOUS
  <2>2. \A x \in Commits : d.commit[x].branch \in Branches \cup {NoBranch}
    BY <1>1, Parts DEF CommitObject
  <2>3. found \subseteq Branches
    BY <2>1, <2>2
  <2>4. found \subseteq Nat
    BY <2>3, SchedulingAssumption
  <2>5. branch = IF found = {} THEN NoBranch ELSE Min(found)
    BY <1>2, <2>1 DEF CalcCommitAnybranch
  <2>6. CASE found = {}
    BY <2>5, <2>6
  <2>7. CASE found # {}
    BY <2>3, <2>4, <2>5, <2>7, MinIs
  <2>8. QED  BY <2>6, <2>7
<1>4. PICK calc : calc = IF branch = NoBranch THEN 0 ELSE d.commit[c].user
  OBVIOUS
<1>5. calc \in 0 .. MaxLevel
  BY <1>1, <1>4, Parts, SchedulingAssumption DEF CommitObject
<1>6. PICK e : e = [d EXCEPT !.commit[c].branch = branch, !.commit[c].calc = calc]
  OBVIOUS
<1>7. PICK f : f = [d.commit EXCEPT ![c] = [d.commit[c] EXCEPT !.branch = branch, !.calc = calc]]
  OBVIOUS
<1>8. f \in [Commits -> CommitObject]
  <2>1. d.commit \in [Commits -> CommitObject]
    BY <1>1, Parts
  <2>2. [d.commit[c] EXCEPT !.branch = branch, !.calc = calc] \in CommitObject
    BY <1>3, <1>5, <2>1, CommitFields
  <2>3. QED  BY <1>7, <2>1, <2>2
<1>9. e = [d EXCEPT !.commit = f]
  BY <1>1, <1>6, <1>7, Parts DEF Database
<1>10. /\ e \in Database /\ e.test = d.test /\ e.run = d.run
       /\ e.desired = d.desired /\ e.unbootable = d.unbootable
  BY <1>1, <1>8, <1>9 DEF Database
<1>11. DbInv(e) /\ SameFree(d, e)
  BY <1>10, CommitsChange
<1>12. PICK told : told = {p \in Commits : <<c, p>> \in Parents}
                          \cup {x[2] : x \in {y \in Deps : y[1] \in TestsOf[c]}} \cup TestsOf[c]
  OBVIOUS
<1>13. told \subseteq Commits \cup Tests
  <2>1. \A x \in Deps : x[2] \in Tests
    BY SchedulingAssumption
  <2>2. TestsOf[c] \subseteq Tests
    BY SchedulingAssumption
  <2>3. QED  BY <1>12, <2>1, <2>2
<1>14. DbInv(Trigger(e, told)) /\ SameFree(e, Trigger(e, told))
  BY <1>11, <1>13, TriggerDb
<1>15. UpdateCommit(d, c) \in {e, Trigger(e, told)}
  BY <1>2, <1>4, <1>6, <1>12 DEF UpdateCommit
<1>16. QED  BY <1>11, <1>14, <1>15 DEF SameFree

WithHeads(d, f, h) == [d EXCEPT !.commit = f, !.head = h]

(* Other commits and heads leave the counters alone. *)
LEMMA HeadsDb ==
  ASSUME NEW d, DbInv(d), NEW f \in [Commits -> CommitObject],
         NEW h \in [Branches -> Commits \cup {NoCommit}],
         NEW what, what \subseteq Commits
  PROVE  /\ DbInv(Trigger(WithHeads(d, f, h), what))
         /\ SameFree(d, Trigger(WithHeads(d, f, h), what))
<1>1. PICK e : e = WithHeads(d, f, h)
  OBVIOUS
<1>2. d \in Database
  BY DEF DbInv
<1>3. /\ e \in Database /\ e.test = d.test /\ e.run = d.run
      /\ e.desired = d.desired /\ e.unbootable = d.unbootable
  BY <1>1, <1>2 DEF Database, WithHeads
<1>4. DbInv(e) /\ SameFree(d, e)
  BY <1>3, CommitsChange
<1>5. DbInv(Trigger(e, what)) /\ SameFree(e, Trigger(e, what))
  BY <1>4, TriggerDb
<1>6. QED  BY <1>1, <1>4, <1>5 DEF SameFree

(* A branch that moves, or goes, leaves the counters alone. *)
LEMMA MoveHeadDb ==
  ASSUME NEW d, DbInv(d), NEW b \in Branches, NEW c \in Commits
  PROVE  /\ DbInv(SetHead(d, b, c)) /\ SameFree(d, SetHead(d, b, c))
         /\ DbInv(DropHead(d, b)) /\ SameFree(d, DropHead(d, b))
<1>1. d \in Database
  BY DEF DbInv
<1>2. /\ d.commit \in [Commits -> CommitObject]
      /\ d.head \in [Branches -> Commits \cup {NoCommit}]
  BY <1>1, Parts
<1>3. DbInv(SetHead(d, b, c)) /\ SameFree(d, SetHead(d, b, c))
  <2>1. PICK orphans : orphans = AncestorsIn(c, {x \in Commits : d.commit[x].branch = NoBranch})
    OBVIOUS
  <2>2. orphans \subseteq Commits
    BY <2>1, AncestorsAre
  <2>3. PICK f : f = [x \in Commits |-> IF x \in orphans
                                        THEN [d.commit[x] EXCEPT !.branch = b] ELSE d.commit[x]]
    OBVIOUS
  <2>4. f \in [Commits -> CommitObject]
    <3>1. \A x \in Commits : [d.commit[x] EXCEPT !.branch = b] \in CommitObject
      BY <1>2 DEF CommitObject
    <3>2. QED  BY <1>2, <2>3, <3>1
  <2>5. PICK h : h = [d.head EXCEPT ![b] = c]
    OBVIOUS
  <2>6. h \in [Branches -> Commits \cup {NoCommit}]
    BY <1>2, <2>5
  <2>7. PICK what : what = ({d.head[b]} \ {NoCommit}) \cup {c} \cup orphans
    OBVIOUS
  <2>8. what \subseteq Commits
    BY <1>2, <2>2, <2>7
  <2>9. SetHead(d, b, c) = Trigger(WithHeads(d, f, h), what)
    <3>1. [d EXCEPT !.head[b] = c,
                    !.commit = [x \in Commits |->
                        IF x \in orphans THEN [@[x] EXCEPT !.branch = b] ELSE @[x]]]
          = WithHeads(d, f, h)
      BY <1>1, <2>3, <2>5 DEF Database, WithHeads
    <3>2. QED  BY <2>1, <2>7, <3>1 DEF SetHead
  <2>10. QED  BY <2>4, <2>6, <2>8, <2>9, HeadsDb
<1>4. DbInv(DropHead(d, b)) /\ SameFree(d, DropHead(d, b))
  <2>1. PICK h : h = [d.head EXCEPT ![b] = NoCommit]
    OBVIOUS
  <2>2. h \in [Branches -> Commits \cup {NoCommit}]
    BY <1>2, <2>1
  <2>3. PICK what : what = {d.head[b]} \ {NoCommit}
    OBVIOUS
  <2>4. what \subseteq Commits
    BY <1>2, <2>3
  <2>5. DropHead(d, b) = Trigger(WithHeads(d, d.commit, h), what)
    <3>1. [d EXCEPT !.head[b] = NoCommit] = WithHeads(d, d.commit, h)
      BY <1>1, <2>1 DEF Database, WithHeads
    <3>2. QED  BY <2>3, <3>1 DEF DropHead
  <2>6. QED  BY <1>2, <2>2, <2>4, <2>5, HeadsDb
<1>5. QED  BY <1>3, <1>4

(* So do priorities of commits. *)
LEMMA SetPrioritiesDb ==
  ASSUME NEW d, DbInv(d), NEW cs, cs \subseteq Commits, NEW p \in 0 .. MaxLevel
  PROVE  DbInv(SetPriorities(d, cs, p)) /\ SameFree(d, SetPriorities(d, cs, p))
<1>1. d \in Database
  BY DEF DbInv
<1>2. /\ d.commit \in [Commits -> CommitObject]
      /\ d.head \in [Branches -> Commits \cup {NoCommit}]
  BY <1>1, Parts
<1>3. PICK f : f = [c \in Commits |-> IF c \in cs THEN [d.commit[c] EXCEPT !.user = p]
                                      ELSE d.commit[c]]
  OBVIOUS
<1>4. f \in [Commits -> CommitObject]
  <2>1. \A c \in Commits : [d.commit[c] EXCEPT !.user = p] \in CommitObject
    BY <1>2 DEF CommitObject
  <2>2. QED  BY <1>2, <1>3, <2>1
<1>5. PICK what : what = {c \in cs : d.commit[c].user # p}
  OBVIOUS
<1>6. SetPriorities(d, cs, p) = Trigger(WithHeads(d, f, d.head), what)
  <2>1. [d EXCEPT !.commit = [c \in Commits |->
                      IF c \in cs THEN [@[c] EXCEPT !.user = p] ELSE @[c]]]
        = WithHeads(d, f, d.head)
    BY <1>1, <1>3 DEF Database, WithHeads
  <2>2. QED  BY <1>5, <2>1 DEF SetPriorities
<1>7. what \subseteq Commits
  BY <1>5
<1>8. QED  BY <1>2, <1>4, <1>6, <1>7, HeadsDb

-----------------------------------------------------------------------------
(* Tests and runs *)

RunsIn(g, t, state) == {r \in Runs : g[r].test = t /\ g[r].state = state}
PassedIn(g, t) == {r \in RunsIn(g, t, "finished") : g[r].success}
ActiveIs(f, g) == \A t \in Tests : f[t].activeRuns = Cardinality(RunsIn(g, t, "running"))
TotalsAre(f, g) ==
    \A t \in Tests : /\ f[t].totalRuns = Cardinality(RunsIn(g, t, "finished"))
                     /\ f[t].successes = Cardinality(PassedIn(g, t))
(* The totals count only as long as no run is cleared twice. *)
TotalsFine(f, g) == Resubmit \/ TotalsAre(f, g)

With(d, f, g) == [d EXCEPT !.test = f, !.run = g]

(* The counters, by the parts of the database they compare. *)
LEMMA ExactMeans ==
  ASSUME NEW d
  PROVE  /\ ActiveExact(d) <=> ActiveIs(d.test, d.run)
         /\ (Resubmit \/ TotalsExact(d)) <=> TotalsFine(d.test, d.run)
<1>1. \A t, s : RunsOf(d, t, {s}) = RunsIn(d.run, t, s)
  BY DEF RunsOf, RunsIn
<1>2. \A t : {r \in RunsOf(d, t, {"finished"}) : d.run[r].success} = PassedIn(d.run, t)
  BY <1>1 DEF PassedIn
<1>3. ActiveExact(d) <=> ActiveIs(d.test, d.run)
  BY <1>1 DEF ActiveExact, ActiveIs
<1>4. TotalsExact(d) <=> TotalsAre(d.test, d.run)
  BY <1>1, <1>2, Zenon DEF TotalsExact, TotalsAre
<1>5. QED  BY <1>3, <1>4, Zenon DEF TotalsFine

(* Other tests and runs, with the same targets. *)
LEMMA WithDb ==
  ASSUME NEW d, DbInv(d), NEW f \in [Tests -> TestObject], NEW g \in [Runs -> RunObject],
         \A t \in Tests : f[t].target = d.test[t].target,
         \A r \in Runs : g[r].state # "none" => g[r].test \in Tests,
         ActiveIs(f, g), TotalsFine(f, g)
  PROVE  DbInv(With(d, f, g)) /\ With(d, f, g).run = g
<1>1. PICK e : e = With(d, f, g)
  OBVIOUS
<1>2. d \in Database
  BY DEF DbInv
<1>3. /\ e \in Database /\ e.test = f /\ e.run = g
      /\ e.desired = d.desired /\ e.unbootable = d.unbootable
  BY <1>1, <1>2 DEF Database, With
<1>4. DesiredExact(e)
  BY <1>3, DesiredStays
<1>5. ActiveExact(e) /\ (Resubmit \/ TotalsExact(e))
  BY <1>3, ExactMeans
<1>6. RunsBelong(e)
  BY <1>3 DEF RunsBelong
<1>7. QED  BY <1>1, <1>3, <1>4, <1>5, <1>6 DEF DbInv

(* One run more, and some runs less. *)
LEMMA Counting ==
  ASSUME NEW A, A \subseteq Runs
  PROVE  /\ Cardinality(A) \in Nat
         /\ \A r \in Runs : r \notin A => Cardinality(A \cup {r}) = Cardinality(A) + 1
         /\ \A r \in A : Cardinality(A \ {r}) = Cardinality(A) - 1
         /\ \A S \in SUBSET A : Cardinality(A \ S) = Cardinality(A) - Cardinality(S)
<1>1. IsFiniteSet(A) /\ Cardinality(A) \in Nat
  BY FiniteRuns
<1>2. \A r \in Runs : r \notin A => Cardinality(A \cup {r}) = Cardinality(A) + 1
  BY <1>1, FS_AddElement
<1>3. \A r \in A : Cardinality(A \ {r}) = Cardinality(A) - 1
  BY <1>1, FS_RemoveElement
<1>4. ASSUME NEW S \in SUBSET A  PROVE Cardinality(A \ S) = Cardinality(A) - Cardinality(S)
  <2>1. /\ IsFiniteSet(S) /\ Cardinality(S) \in Nat
        /\ IsFiniteSet(A \ S) /\ Cardinality(A \ S) \in Nat
    BY FiniteRuns
  <2>2. (A \ S) \cup S = A /\ (A \ S) \cap S = {}
    OBVIOUS
  <2>3. Cardinality((A \ S) \cup S)
        = Cardinality(A \ S) + Cardinality(S) - Cardinality((A \ S) \cap S)
    BY <2>1, FS_Union
  <2>4. Cardinality({}) = 0
    BY FS_EmptySet
  <2>5. Cardinality(A) = Cardinality(A \ S) + Cardinality(S) - 0
    BY <2>2, <2>3, <2>4, Zenon
  <2>6. QED  BY <1>1, <2>1, <2>5
<1>5. QED  BY <1>1, <1>2, <1>3, <1>4

(* What holds of the parts of a sound database. *)
LEMMA Sound ==
  ASSUME NEW d, DbInv(d)
  PROVE  /\ d \in Database
         /\ d.test \in [Tests -> TestObject] /\ d.run \in [Runs -> RunObject]
         /\ \A r \in Runs : d.run[r].state # "none" => d.run[r].test \in Tests
         /\ ActiveIs(d.test, d.run) /\ TotalsFine(d.test, d.run)
<1>1. d \in Database
  BY DEF DbInv
<1>2. QED  BY <1>1, Parts, ExactMeans DEF DbInv, RunsBelong

Canceled(d, S) ==
    [r \in Runs |-> IF r \in S THEN [d.run[r] EXCEPT !.state = "canceled"] ELSE d.run[r]]
Fewer(d, t, n) == [d.test EXCEPT ![t].activeRuns = @ - n]

(* Canceling runs of a test keeps its number of active runs exact. *)
LEMMA CancelDb ==
  ASSUME NEW d, DbInv(d), NEW t \in Tests, NEW S, S \subseteq RunsIn(d.run, t, "running")
  PROVE  DbInv(Cancel(d, t, S)) /\ SameFree(d, Cancel(d, t, S))
<1>1. /\ d \in Database
      /\ d.test \in [Tests -> TestObject] /\ d.run \in [Runs -> RunObject]
      /\ \A r \in Runs : d.run[r].state # "none" => d.run[r].test \in Tests
      /\ ActiveIs(d.test, d.run) /\ TotalsFine(d.test, d.run)
  BY Sound
<1>2. PICK g : g = Canceled(d, S)
  OBVIOUS
<1>3. PICK f : f = Fewer(d, t, Cardinality(S))
  OBVIOUS
<1>4. \A r \in S : r \in Runs /\ d.run[r].test = t /\ d.run[r].state = "running"
  BY DEF RunsIn
<1>5. Cardinality(S) \in Nat
  BY <1>4, FiniteRuns
<1>6. g \in [Runs -> RunObject]
  <2>1. \A r \in Runs : [d.run[r] EXCEPT !.state = "canceled"] \in RunObject
    BY <1>1 DEF RunObject
  <2>2. QED  BY <1>1, <1>2, <2>1 DEF Canceled
<1>7. /\ \A r \in Runs : g[r].test = d.run[r].test /\ g[r].success = d.run[r].success
      /\ \A r \in Runs : g[r].state = IF r \in S THEN "canceled" ELSE d.run[r].state
  BY <1>1, <1>2 DEF Canceled, RunObject
<1>8. /\ f \in [Tests -> TestObject]
      /\ \A u \in Tests : /\ f[u].target = d.test[u].target
                          /\ f[u].totalRuns = d.test[u].totalRuns
                          /\ f[u].successes = d.test[u].successes
                          /\ u # t => f[u].activeRuns = d.test[u].activeRuns
      /\ f[t].activeRuns = d.test[t].activeRuns - Cardinality(S)
  BY <1>1, <1>3, <1>5 DEF Fewer, TestObject
<1>9. \A u : /\ RunsIn(g, u, "finished") = RunsIn(d.run, u, "finished")
             /\ PassedIn(g, u) = PassedIn(d.run, u)
  <2>1. \A u : RunsIn(g, u, "finished") = RunsIn(d.run, u, "finished")
    BY <1>4, <1>7 DEF RunsIn
  <2>2. \A u : PassedIn(g, u) = PassedIn(d.run, u)
    BY <1>7, <2>1 DEF PassedIn, RunsIn
  <2>3. QED  BY <2>1, <2>2
<1>10. /\ \A u : u # t => RunsIn(g, u, "running") = RunsIn(d.run, u, "running")
       /\ RunsIn(g, t, "running") = RunsIn(d.run, t, "running") \ S
  BY <1>4, <1>7 DEF RunsIn
<1>11. ActiveIs(f, g)
  <2>1. Cardinality(RunsIn(d.run, t, "running") \ S)
        = Cardinality(RunsIn(d.run, t, "running")) - Cardinality(S)
    <3>1. RunsIn(d.run, t, "running") \subseteq Runs
      BY DEF RunsIn
    <3>2. QED  BY <3>1, Counting
  <2>2. f[t].activeRuns = Cardinality(RunsIn(g, t, "running"))
    BY <1>1, <1>8, <1>10, <2>1 DEF ActiveIs
  <2>3. ASSUME NEW u \in Tests, u # t
        PROVE  f[u].activeRuns = Cardinality(RunsIn(g, u, "running"))
    <3>1. RunsIn(g, u, "running") = RunsIn(d.run, u, "running")
      BY <1>10, <2>3
    <3>2. d.test[u].activeRuns = Cardinality(RunsIn(d.run, u, "running"))
      BY <1>1 DEF ActiveIs
    <3>3. f[u].activeRuns = d.test[u].activeRuns
      BY <1>8, <2>3
    <3>4. QED  BY <3>1, <3>2, <3>3, Zenon
  <2>4. QED  BY <2>2, <2>3 DEF ActiveIs
<1>12. TotalsFine(f, g)
  <2>1. ASSUME TotalsAre(d.test, d.run), NEW u \in Tests
        PROVE  /\ f[u].totalRuns = Cardinality(RunsIn(g, u, "finished"))
               /\ f[u].successes = Cardinality(PassedIn(g, u))
    <3>1. /\ d.test[u].totalRuns = Cardinality(RunsIn(d.run, u, "finished"))
          /\ d.test[u].successes = Cardinality(PassedIn(d.run, u))
      BY <2>1 DEF TotalsAre
    <3>2. RunsIn(g, u, "finished") = RunsIn(d.run, u, "finished")
      BY <1>9
    <3>3. PassedIn(g, u) = PassedIn(d.run, u)
      BY <1>9
    <3>4. f[u].totalRuns = d.test[u].totalRuns /\ f[u].successes = d.test[u].successes
      BY <1>8
    <3>5. QED  BY <3>1, <3>2, <3>3, <3>4, Zenon
  <2>2. QED  BY <1>1, <2>1, Zenon DEF TotalsAre, TotalsFine
<1>13. \A r \in Runs : g[r].state # "none" => g[r].test \in Tests
  BY <1>1, <1>4, <1>7
<1>14. PICK e : e = With(d, f, g)
  OBVIOUS
<1>15. DbInv(e) /\ e.run = g
  BY <1>6, <1>8, <1>11, <1>12, <1>13, <1>14, WithDb
<1>16. SameFree(d, e)
  BY <1>4, <1>7, <1>15 DEF SameFree
<1>17. PICK what : what = {d.run[r].test : r \in S}
  OBVIOUS
<1>18. what \subseteq Commits \cup Tests
  BY <1>4, <1>17
<1>19. Cancel(d, t, S) = Trigger(e, what)
  <2>1. [d EXCEPT !.run = [r \in Runs |->
                      IF r \in S THEN [d.run[r] EXCEPT !.state = "canceled"] ELSE d.run[r]],
                  !.test[t].activeRuns = @ - Cardinality(S)] = e
    BY <1>1, <1>2, <1>3, <1>14 DEF Database, With, Canceled, Fewer
  <2>2. QED  BY <1>17, <2>1 DEF Cancel
<1>20. DbInv(Trigger(e, what)) /\ SameFree(e, Trigger(e, what))
  BY <1>15, <1>18, TriggerDb
<1>21. QED  BY <1>16, <1>19, <1>20 DEF SameFree

-----------------------------------------------------------------------------
(* What tests want of their categories *)

(* The machines that one test wants. *)
LEMMA OneTest ==
  ASSUME NEW t, NEW n \in Nat
  PROVE  IsFiniteSet({t} \X (1 .. n)) /\ Cardinality({t} \X (1 .. n)) = n
<1>1. IsFiniteSet({t}) /\ Cardinality({t}) = 1
  BY FS_Singleton
<1>2. IsFiniteSet(1 .. n) /\ Cardinality(1 .. n) = n
  BY FS_Interval
<1>3. /\ IsFiniteSet({t} \X (1 .. n))
      /\ Cardinality({t} \X (1 .. n)) = Cardinality({t}) * Cardinality(1 .. n)
  BY <1>1, <1>2, FS_Product
<1>4. 1 * n = n
  OBVIOUS
<1>5. QED  BY <1>1, <1>2, <1>3, <1>4

(* What several tests want can be counted. *)
LEMMA SlotsCount ==
  ASSUME NEW d, NEW S, S \subseteq Tests, \A t \in S : d.test[t].target \in Nat
  PROVE  IsFiniteSet(WantedSlots(d, S)) /\ Cardinality(WantedSlots(d, S)) \in Nat
<1>1. IsFiniteSet(S)
  BY SchedulingAssumption, FS_Subset
<1>2. PICK T : T = {{t} \X (1 .. d.test[t].target) : t \in S}
  OBVIOUS
<1>3. PICK f : f = [t \in S |-> {t} \X (1 .. d.test[t].target)]
  OBVIOUS
<1>4. f \in Surjection(S, T)
  <2>1. f \in [S -> T]
    BY <1>2, <1>3
  <2>2. \A b \in T : \E t \in S : f[t] = b
    BY <1>2, <1>3
  <2>3. QED  BY <2>1, <2>2 DEF Surjection
<1>5. IsFiniteSet(T)
  BY <1>1, <1>4, FS_Surjection
<1>6. ASSUME NEW U \in T  PROVE IsFiniteSet(U)
  <2>1. PICK t \in S : U = {t} \X (1 .. d.test[t].target)
    BY <1>2
  <2>2. PICK n \in Nat : n = d.test[t].target
    OBVIOUS
  <2>3. IsFiniteSet({t} \X (1 .. n))
    BY OneTest
  <2>4. QED  BY <2>1, <2>2, <2>3
<1>7. IsFiniteSet(WantedSlots(d, S))
  BY <1>2, <1>5, <1>6, FS_UNION DEF WantedSlots
<1>8. QED  BY <1>7, FS_CardinalityType

(* One test is set apart. *)
LEMMA SlotsApart ==
  ASSUME NEW d, NEW S, S \subseteq Tests, NEW t \in S, \A u \in S : d.test[u].target \in Nat
  PROVE  /\ Cardinality(WantedSlots(d, S))
              = Cardinality(WantedSlots(d, S \ {t})) + d.test[t].target
         /\ Cardinality(WantedSlots(d, S \ {t})) \in Nat
<1>1. PICK A : A = {t} \X (1 .. d.test[t].target)
  OBVIOUS
<1>2. PICK B : B = WantedSlots(d, S \ {t})
  OBVIOUS
<1>3. IsFiniteSet(A) /\ Cardinality(A) = d.test[t].target
  BY <1>1, OneTest
<1>4. IsFiniteSet(B) /\ Cardinality(B) \in Nat
  BY <1>2, SlotsCount
<1>5. WantedSlots(d, S) = B \cup A
  BY <1>1, <1>2 DEF WantedSlots
<1>6. B \cap A = {}
  <2>1. \A x \in B : \E u \in S \ {t} : \E i \in 1 .. d.test[u].target : x = <<u, i>>
    BY <1>2 DEF WantedSlots
  <2>2. \A x \in A : \E i \in 1 .. d.test[t].target : x = <<t, i>>
    BY <1>1
  <2>3. QED  BY <2>1, <2>2
<1>7. Cardinality(B \cup A) = Cardinality(B) + Cardinality(A) - Cardinality(B \cap A)
  BY <1>3, <1>4, FS_Union
<1>8. Cardinality({}) = 0
  BY FS_EmptySet
<1>9. Cardinality(WantedSlots(d, S)) = Cardinality(B) + d.test[t].target - 0
  BY <1>3, <1>5, <1>6, <1>7, <1>8, Zenon
<1>10. d.test[t].target \in Nat
  OBVIOUS
<1>11. QED  BY <1>2, <1>4, <1>9, <1>10

(* The desired machines of a category follow the target of a test. *)
LEMMA DesiredFollows ==
  ASSUME NEW d, DbInv(d), NEW t \in Tests, NEW e,
         NEW x \in TestObject, e.test = [d.test EXCEPT ![t] = x],
         e.desired = DesiredAfter(d, t, x.target), e.unbootable = d.unbootable
  PROVE  DesiredExact(e)
<1>1. /\ d \in Database /\ d.test \in [Tests -> TestObject]
      /\ d.desired \in [Categories -> Int]
  BY Parts DEF DbInv
<1>2. /\ \A u \in Tests : d.test[u].target \in Nat
      /\ \A u \in Tests : e.test[u].target \in Nat
      /\ \A u \in Tests : u # t => e.test[u].target = d.test[u].target
      /\ e.test[t].target = x.target
  BY <1>1 DEF TestObject
<1>3. CategoryOf[t] \in Categories
  BY SchedulingAssumption
<1>4. /\ \A c \in Categories : c # CategoryOf[t] => e.desired[c] = d.desired[c]
      /\ e.desired[CategoryOf[t]] = d.desired[CategoryOf[t]] + x.target - d.test[t].target
  BY <1>1, <1>3 DEF DesiredAfter
<1> SUFFICES ASSUME NEW c \in Categories \ d.unbootable
             PROVE  e.desired[c] = Cardinality(WantedSlots(e, {u \in Tests : CategoryOf[u] = c}))
  BY DEF DesiredExact
<1>5. PICK S : S = {u \in Tests : CategoryOf[u] = c}
  OBVIOUS
<1>6. d.desired[c] = Cardinality(WantedSlots(d, S))
  BY <1>5 DEF DbInv, DesiredExact
<1>7. S \subseteq Tests
  BY <1>5
<1>8. CASE c = CategoryOf[t]
  <2>1. t \in S
    BY <1>5, <1>8
  <2>2. WantedSlots(e, S \ {t}) = WantedSlots(d, S \ {t})
    BY <1>2, <1>7 DEF WantedSlots
  <2>3. /\ Cardinality(WantedSlots(d, S)) = Cardinality(WantedSlots(d, S \ {t})) + d.test[t].target
        /\ Cardinality(WantedSlots(d, S \ {t})) \in Nat
    BY <1>2, <1>7, <2>1, SlotsApart
  <2>4. Cardinality(WantedSlots(e, S)) = Cardinality(WantedSlots(e, S \ {t})) + e.test[t].target
    <3>1. \A u \in S : e.test[u].target \in Nat
      BY <1>2, <1>7
    <3>2. t \in S /\ S \subseteq Tests
      BY <1>7, <2>1
    <3>3. ASSUME NEW f, \A u \in S : f.test[u].target \in Nat
          PROVE  Cardinality(WantedSlots(f, S))
                   = Cardinality(WantedSlots(f, S \ {t})) + f.test[t].target
      BY <3>2, <3>3, SlotsApart
    <3>4. QED  BY <3>1, <3>3, Zenon
  <2>5. Cardinality(WantedSlots(e, S)) = Cardinality(WantedSlots(d, S \ {t})) + x.target
    BY <1>2, <2>2, <2>4, Zenon
  <2>6. e.desired[c] = d.desired[c] + x.target - d.test[t].target
    BY <1>4, <1>8
  <2>7. x.target \in Nat /\ d.test[t].target \in Nat
    BY <1>2
  <2>8. QED  BY <1>5, <1>6, <2>3, <2>5, <2>6, <2>7
<1>9. CASE c # CategoryOf[t]
  <2>1. t \notin S
    BY <1>5, <1>9
  <2>2. WantedSlots(e, S) = WantedSlots(d, S)
    BY <1>2, <1>7, <2>1 DEF WantedSlots
  <2>3. e.desired[c] = d.desired[c]
    BY <1>4, <1>9
  <2>4. QED  BY <1>5, <1>6, <2>2, <2>3
<1>10. QED  BY <1>8, <1>9

-----------------------------------------------------------------------------
(* _updateTestPriority *)

(* A test is wanted as much as some commit or some test wants it, and no      *)
(* commit wants it more.                                                     *)
LEMMA WantedIs ==
  ASSUME NEW d \in Database, NEW t \in Tests
  PROVE  /\ Wanted(d, t) \in 0 .. MaxLevel
         /\ \A c \in Referencing(t) : d.commit[c].calc =< Wanted(d, t)
<1>1. PICK S : S = {d.commit[c].calc : c \in Referencing(t)}
                   \cup {d.test[u].calc : u \in Dependents(t)}
  OBVIOUS
<1>2. \A c \in Commits : d.commit[c].calc \in 0 .. MaxLevel
  BY Parts DEF CommitObject
<1>3. \A u \in Tests : d.test[u].calc \in 0 .. MaxLevel
  BY Parts DEF TestObject
<1>4. Referencing(t) \subseteq Commits /\ Referencing(t) # {}
  BY SchedulingAssumption DEF Referencing
<1>5. Dependents(t) \subseteq Tests
  BY SchedulingAssumption DEF Dependents
<1>6. S \subseteq 0 .. MaxLevel /\ S # {}
  BY <1>1, <1>2, <1>3, <1>4, <1>5
<1>7. MaxLevel \in Nat
  BY SchedulingAssumption
<1>8. Max(S) \in S /\ \A y \in S : y =< Max(S)
  BY <1>6, <1>7, MaxIs
<1>9. QED  BY <1>1, <1>6, <1>8 DEF Wanted

(* The number of runs that are asked for is a number. *)
LEMMA NeededIs ==
  ASSUME NEW d \in Database, NEW t \in Tests
  PROVE  Needed(d, t) \in Int
<1>1. d.test[t].totalRuns \in Int /\ d.test[t].runsDesired \in Int
  BY Parts, SchedulingAssumption DEF TestObject
<1>2. Max({d.test[t].runsDesired, 1}) \in Int
  <2>1. 1 \in Int
    OBVIOUS
  <2>2. QED  BY <1>1, <2>1, MaxOfTwo, Zenon
<1>3. Kind[t] \in {"Build", "Test", "Deployment"}
  BY SchedulingAssumption
<1>4. CASE Kind[t] = "Deployment"
  BY <1>4 DEF Needed
<1>5. CASE Kind[t] = "Test"
  BY <1>2, <1>5 DEF Needed
<1>6. CASE Kind[t] = "Build"
  BY <1>1, <1>6 DEF Needed
<1>7. QED  BY <1>3, <1>4, <1>5, <1>6

SameTotals(x, y) ==
    /\ y.activeRuns = x.activeRuns
    /\ y.totalRuns = x.totalRuns
    /\ y.successes = x.successes

(* Scheduling a test changes its priority and its target. *)
LEMMA ScheduledIs ==
  ASSUME NEW d \in Database, NEW t \in Tests
  PROVE  Scheduled(d, t) \in TestObject /\ SameTotals(d.test[t], Scheduled(d, t))
<1>1. d.test[t] \in TestObject
  BY Parts
<1>2. PICK x : x = d.test[t]
  OBVIOUS
<1>3. x.totalRuns \in Int
  BY <1>1, <1>2 DEF TestObject
<1>4. Max({Needed(d, t) - x.totalRuns, 0}) \in Nat
  <2>1. Needed(d, t) - x.totalRuns \in Int
    BY <1>3, NeededIs
  <2>2. PICK k : k = Needed(d, t) - x.totalRuns
    OBVIOUS
  <2>3. Max({k, 0}) \in Int /\ Max({k, 0}) >= 0
    <3>1. k \in Int /\ 0 \in Int
      BY <2>1, <2>2
    <3>2. QED  BY <3>1, MaxOfTwo, Zenon
  <2>4. QED  BY <2>2, <2>3
<1>5. PICK n : n = IF x.calc = 0 THEN 0 ELSE Max({Needed(d, t) - x.totalRuns, 0})
  OBVIOUS
<1>6. n \in Nat
  BY <1>4, <1>5
<1>7. \E p \in Priorities : Scheduled(d, t) = [x EXCEPT !.prio = p, !.target = n]
  BY <1>2, <1>5 DEF Scheduled, Priorities, StartablePriorities
<1>8. PICK p \in Priorities : Scheduled(d, t) = [x EXCEPT !.prio = p, !.target = n]
  BY <1>7
<1>9. QED  BY <1>1, <1>2, <1>6, <1>8 DEF TestObject, SameTotals

(* The cascade changes the priority, the target and calc. *)
LEMMA DecideIs ==
  ASSUME NEW d \in Database, NEW t \in Tests
  PROVE  Decide(d, t) \in TestObject /\ SameTotals(d.test[t], Decide(d, t))
<1>0. 0 \in 0 .. MaxLevel /\ 0 \in Nat
  BY SchedulingAssumption
<1>1. d.test[t] \in TestObject
  BY Parts
<1>2. PICK x : x = d.test[t]
  OBVIOUS
<1>3. {"HardwareComboUnbootable", "NoMoreTests", "DependencyFailed", "WaitingOnBuilds"}
        \subseteq Priorities
  BY DEF Priorities
<1>4. Decide(d, t) \in {[x EXCEPT !.prio = "HardwareComboUnbootable", !.target = 0, !.calc = 0],
                        [x EXCEPT !.prio = "NoMoreTests", !.calc = 0],
                        [x EXCEPT !.prio = "DependencyFailed", !.target = 0],
                        [x EXCEPT !.prio = "WaitingOnBuilds", !.target = 0],
                        Scheduled(d, t)}
  BY <1>2 DEF Decide
<1>5. CASE Decide(d, t) = Scheduled(d, t)
  BY <1>5, ScheduledIs
<1>6. CASE Decide(d, t) = [x EXCEPT !.prio = "HardwareComboUnbootable", !.target = 0, !.calc = 0]
  BY <1>0, <1>1, <1>2, <1>3, <1>6 DEF TestObject, SameTotals
<1>7. CASE Decide(d, t) = [x EXCEPT !.prio = "NoMoreTests", !.calc = 0]
  BY <1>0, <1>1, <1>2, <1>3, <1>7 DEF TestObject, SameTotals
<1>8. CASE Decide(d, t) = [x EXCEPT !.prio = "DependencyFailed", !.target = 0]
  BY <1>0, <1>1, <1>2, <1>3, <1>8 DEF TestObject, SameTotals
<1>9. CASE Decide(d, t) = [x EXCEPT !.prio = "WaitingOnBuilds", !.target = 0]
  BY <1>0, <1>1, <1>2, <1>3, <1>9 DEF TestObject, SameTotals
<1>10. QED  BY <1>4, <1>5, <1>6, <1>7, <1>8, <1>9

(* Other fields of one test leave the counters alone. *)
LEMMA OneTestDb ==
  ASSUME NEW d, DbInv(d), NEW t \in Tests, NEW x \in TestObject,
         SameTotals(d.test[t], x), x.target = d.test[t].target,
         NEW g \in [Runs -> RunObject],
         \A r \in Runs : /\ g[r].test = d.run[r].test
                         /\ g[r].state = d.run[r].state
                         /\ g[r].success = d.run[r].success
  PROVE  /\ DbInv(With(d, [d.test EXCEPT ![t] = x], g))
         /\ SameFree(d, With(d, [d.test EXCEPT ![t] = x], g))
<1>1. /\ d \in Database
      /\ d.test \in [Tests -> TestObject] /\ d.run \in [Runs -> RunObject]
      /\ \A r \in Runs : d.run[r].state # "none" => d.run[r].test \in Tests
      /\ ActiveIs(d.test, d.run) /\ TotalsFine(d.test, d.run)
  BY Sound
<1>2. PICK f : f = [d.test EXCEPT ![t] = x]
  OBVIOUS
<1>3. PICK e : e = With(d, f, g)
  OBVIOUS
<1>4. f \in [Tests -> TestObject]
  BY <1>1, <1>2
<1>5. /\ e \in Database /\ e.test = f /\ e.run = g
      /\ e.desired = d.desired /\ e.unbootable = d.unbootable
  BY <1>1, <1>3, <1>4 DEF Database, With
<1>6. \A u \in Tests : SameTotals(d.test[u], f[u]) /\ f[u].target = d.test[u].target
  BY <1>1, <1>2 DEF SameTotals
<1>7. /\ RunsBelong(e) /\ ActiveExact(e) /\ (Resubmit \/ TotalsExact(e))
      /\ SameFree(d, e)
  BY <1>5, <1>6, CountsStay DEF SameTotals
<1>8. DesiredExact(e)
  BY <1>5, <1>6, DesiredStays
<1>9. DbInv(e)
  BY <1>5, <1>7, <1>8 DEF DbInv
<1>10. QED  BY <1>2, <1>3, <1>7, <1>9

(* What _updateTestPriority leaves of a test and its category. *)
Settling(d, t, new) == [d EXCEPT !.test[t] = new, !.desired = DesiredAfter(d, t, new.target)]

(* It keeps the counters exact. *)
LEMMA SettlingDb ==
  ASSUME NEW d, DbInv(d), NEW t \in Tests, NEW x \in TestObject, SameTotals(d.test[t], x)
  PROVE  DbInv(Settling(d, t, x)) /\ SameFree(d, Settling(d, t, x))
<1>1. /\ d \in Database
      /\ d.test \in [Tests -> TestObject] /\ d.run \in [Runs -> RunObject]
      /\ d.desired \in [Categories -> Int]
  BY Parts DEF DbInv
<1>2. PICK e : e = Settling(d, t, x)
  OBVIOUS
<1>3. PICK f : f = [d.test EXCEPT ![t] = x]
  OBVIOUS
<1>4. PICK w : w = DesiredAfter(d, t, x.target)
  OBVIOUS
<1>5. f \in [Tests -> TestObject]
  BY <1>1, <1>3
<1>6. w \in [Categories -> Int]
  <2>1. CategoryOf[t] \in Categories
    BY SchedulingAssumption
  <2>2. x.target \in Nat /\ d.test[t].target \in Nat
    BY <1>1 DEF TestObject
  <2>3. QED  BY <1>1, <1>4, <2>1, <2>2 DEF DesiredAfter
<1>7. e = [d EXCEPT !.test = f, !.desired = w]
  BY <1>1, <1>2, <1>3, <1>4 DEF Settling, Database
<1>8. /\ e \in Database /\ e.test = f /\ e.run = d.run
      /\ e.desired = w /\ e.unbootable = d.unbootable
  BY <1>1, <1>5, <1>6, <1>7 DEF Database
<1>9. \A u \in Tests : SameTotals(d.test[u], e.test[u])
  BY <1>1, <1>3, <1>8 DEF SameTotals
<1>10. /\ RunsBelong(e) /\ ActiveExact(e) /\ (Resubmit \/ TotalsExact(e))
       /\ SameFree(d, e)
  BY <1>8, <1>9, CountsStay DEF SameTotals
<1>11. DesiredExact(e)
  BY <1>3, <1>4, <1>8, DesiredFollows
<1>12. DbInv(e)
  BY <1>8, <1>10, <1>11 DEF DbInv
<1>13. QED  BY <1>2, <1>10, <1>12

(* _updateTestPriority keeps the counters exact, whatever it cancels. *)
LEMMA UpdateTestDb ==
  ASSUME NEW d, DbInv(d), NEW t \in Tests
  PROVE  DbInv(UpdateTest(d, t)) /\ SameFree(d, UpdateTest(d, t))
<1>1. /\ d \in Database
      /\ d.test \in [Tests -> TestObject] /\ d.run \in [Runs -> RunObject]
  BY Parts DEF DbInv
<1>2. Wanted(d, t) \in 0 .. MaxLevel
  BY <1>1, WantedIs
<1>3. PICK d1 : d1 = [d EXCEPT !.test[t].calc = Wanted(d, t)]
  OBVIOUS
<1>4. DbInv(d1) /\ SameFree(d, d1)
  <2>1. PICK x : x = [d.test[t] EXCEPT !.calc = Wanted(d, t)]
    OBVIOUS
  <2>2. x \in TestObject /\ SameTotals(d.test[t], x) /\ x.target = d.test[t].target
    BY <1>1, <1>2, <2>1 DEF TestObject, SameTotals
  <2>3. d1 = With(d, [d.test EXCEPT ![t] = x], d.run)
    BY <1>1, <1>3, <2>1 DEF With, Database
  <2>4. /\ DbInv(With(d, [d.test EXCEPT ![t] = x], d.run))
        /\ SameFree(d, With(d, [d.test EXCEPT ![t] = x], d.run))
    BY <1>1, <2>2, OneTestDb, Zenon
  <2>5. QED  BY <2>3, <2>4, Zenon
<1>5. PICK d2 : d2 = IF d1.test[t].calc # 0 THEN d1
                     ELSE Cancel(d1, t, RunsOf(d1, t, {"running"}))
  OBVIOUS
<1>6. DbInv(d2) /\ SameFree(d1, d2)
  <2>1. RunsOf(d1, t, {"running"}) \subseteq RunsIn(d1.run, t, "running")
    BY DEF RunsOf, RunsIn
  <2>2. /\ DbInv(Cancel(d1, t, RunsOf(d1, t, {"running"})))
        /\ SameFree(d1, Cancel(d1, t, RunsOf(d1, t, {"running"})))
    BY <1>4, <2>1, CancelDb
  <2>3. SameFree(d1, d1)
    BY DEF SameFree
  <2>4. QED  BY <1>4, <1>5, <2>2, <2>3
<1>7. PICK new : new = Decide(d2, t)
  OBVIOUS
<1>8. d2 \in Database
  BY <1>6 DEF DbInv
<1>9. new \in TestObject /\ SameTotals(d2.test[t], new)
  BY <1>7, <1>8, DecideIs
<1>10. PICK d3 : d3 = Settling(d2, t, new)
  OBVIOUS
<1>11. DbInv(d3) /\ SameFree(d2, d3)
  BY <1>6, <1>9, <1>10, SettlingDb
<1>12. Told(t) \subseteq Commits \cup Tests
  BY SchedulingAssumption DEF Told, Dependencies, Dependents
<1>13. DbInv(Trigger(d3, Told(t))) /\ SameFree(d3, Trigger(d3, Told(t)))
  BY <1>11, <1>12, TriggerDb
<1>14. UpdateTest(d, t) \in {d3, Trigger(d3, Told(t))}
  BY <1>3, <1>5, <1>7, <1>10 DEF UpdateTest, Settling
<1>15. QED  BY <1>4, <1>6, <1>11, <1>13, <1>14 DEF SameFree

UpdateStep(d, order, F, i) == IF i = 0 THEN d ELSE UpdateTest(F[i - 1], order[i])

(* The recursion of UpdateTests is well defined. *)
LEMMA AfterExists ==
  ASSUME NEW d, NEW order, NEW n \in Nat
  PROVE  \E F : F = [i \in 0 .. n |-> UpdateStep(d, order, F, i)]
<1>1. PICK T : T = {m \in 0 .. n : \E F : F = [i \in 0 .. m |-> UpdateStep(d, order, F, i)]}
  OBVIOUS
<1>2. 0 \in T
  <2>1. PICK G : G = [i \in 0 .. 0 |-> d]
    OBVIOUS
  <2>2. G = [i \in 0 .. 0 |-> UpdateStep(d, order, G, i)]
    BY <2>1 DEF UpdateStep
  <2>3. QED  BY <1>1, <2>2
<1>3. ASSUME NEW m \in 0 .. n - 1, m \in T  PROVE m + 1 \in T
  <2>1. PICK F : F = [i \in 0 .. m |-> UpdateStep(d, order, F, i)]
    BY <1>1, <1>3
  <2>2. PICK G : G = [i \in 0 .. m + 1 |->
                        IF i = m + 1 THEN UpdateStep(d, order, F, m + 1) ELSE F[i]]
    OBVIOUS
  <2>3. \A i \in 0 .. m + 1 : G[i] = UpdateStep(d, order, G, i)
    <3> TAKE i \in 0 .. m + 1
    <3>1. i # 0 => i - 1 \in 0 .. m /\ G[i - 1] = F[i - 1]
      BY <2>2
    <3>2. i # m + 1 => F[i] = UpdateStep(d, order, F, i)
      BY <2>1
    <3>3. UpdateStep(d, order, G, i) = UpdateStep(d, order, F, i)
      BY <3>1 DEF UpdateStep
    <3>4. QED  BY <2>2, <3>2, <3>3
  <2>4. G = [i \in 0 .. m + 1 |-> UpdateStep(d, order, G, i)]
    BY <2>2, <2>3
  <2>5. m + 1 \in 0 .. n
    OBVIOUS
  <2>6. QED  BY <1>1, <2>4, <2>5
<1>4. n \in T
  BY <1>2, <1>3, CountingUp
<1>5. QED  BY <1>1, <1>4

(* Updating several tests one after the other keeps the counters exact. *)
LEMMA UpdateTestsDb ==
  ASSUME NEW d, DbInv(d), NEW order \in Seq(Tests)
  PROVE  DbInv(UpdateTests(d, order)) /\ SameFree(d, UpdateTests(d, order))
<1>1. PICK n \in Nat : n = Len(order)
  OBVIOUS
<1> DEFINE F == CHOOSE F : F = [i \in 0 .. n |-> UpdateStep(d, order, F, i)]
<1>2. UpdateTests(d, order) = F[n]
  BY <1>1 DEF UpdateTests, UpdateStep
<1>3. F = [i \in 0 .. n |-> UpdateStep(d, order, F, i)]
  BY AfterExists
<1> HIDE DEF F
<1>4. PICK T : T = {i \in 0 .. n : DbInv(F[i]) /\ SameFree(d, F[i])}
  OBVIOUS
<1>5. \A i \in 0 .. n : F[i] = UpdateStep(d, order, F, i)
  BY <1>3
<1>6. 0 \in T
  <2>1. 0 \in 0 .. n
    OBVIOUS
  <2>2. F[0] = UpdateStep(d, order, F, 0)
    BY <1>5, <2>1
  <2>3. F[0] = d
    BY <2>2 DEF UpdateStep
  <2>4. SameFree(d, d)
    BY DEF SameFree
  <2>5. QED  BY <1>4, <2>1, <2>3, <2>4
<1>7. ASSUME NEW i \in 0 .. n - 1, i \in T  PROVE i + 1 \in T
  <2>1. i + 1 \in 0 .. n /\ i + 1 \in 1 .. n /\ i + 1 # 0 /\ (i + 1) - 1 = i
    OBVIOUS
  <2>2. F[i + 1] = UpdateTest(F[i], order[i + 1])
    BY <1>5, <2>1 DEF UpdateStep
  <2>3. DbInv(F[i]) /\ SameFree(d, F[i])
    BY <1>4, <1>7
  <2>4. order[i + 1] \in Tests
    BY <1>1, <2>1
  <2>5. DbInv(F[i + 1]) /\ SameFree(F[i], F[i + 1])
    BY <2>2, <2>3, <2>4, UpdateTestDb
  <2>6. SameFree(d, F[i + 1])
    BY <2>3, <2>5 DEF SameFree
  <2>7. QED  BY <1>4, <2>1, <2>5, <2>6
<1>8. n \in T
  <2>1. \A i \in 0 .. n - 1 : i \in T => i + 1 \in T
    BY <1>7
  <2>2. \A i \in 0 .. n : i \in T
    BY <1>6, <2>1, CountingUp, Zenon
  <2>3. QED  BY <2>2
<1>9. QED  BY <1>2, <1>4, <1>8

(* The orders in which an index can have the tests that depend on one. *)
LEMMA OrdersAre ==
  ASSUME NEW t, NEW order \in SetToSeqs(Dependents(t))
  PROVE  order \in Seq(Tests)
<1>1. Dependents(t) \subseteq Tests
  BY SchedulingAssumption DEF Dependents
<1>2. Cardinality(Dependents(t)) \in Nat
  BY <1>1, SchedulingAssumption, FS_Subset, FS_CardinalityType
<1>3. order \in [1 .. Cardinality(Dependents(t)) -> Dependents(t)]
  BY DEF SetToSeqs
<1>4. QED  BY <1>1, <1>2, <1>3

-----------------------------------------------------------------------------
(* Runs start, end and are cleared *)

Started(d, t, r) ==
    [d EXCEPT !.test[t].activeRuns = @ + 1, !.run[r].test = t, !.run[r].state = "running"]

(* A run that starts is counted. *)
LEMMA StartedDb ==
  ASSUME NEW d, DbInv(d), NEW t \in Tests, NEW r \in Runs, d.run[r].state = "none"
  PROVE  /\ DbInv(Started(d, t, r)) /\ Started(d, t, r).run[r].state = "running"
         /\ \A q \in Runs : q # r => Started(d, t, r).run[q] = d.run[q]
<1>1. /\ d \in Database
      /\ d.test \in [Tests -> TestObject] /\ d.run \in [Runs -> RunObject]
      /\ \A q \in Runs : d.run[q].state # "none" => d.run[q].test \in Tests
      /\ ActiveIs(d.test, d.run) /\ TotalsFine(d.test, d.run)
  BY Sound
<1>2. PICK g : g = [d.run EXCEPT ![r] = [d.run[r] EXCEPT !.test = t, !.state = "running"]]
  OBVIOUS
<1>3. PICK f : f = [d.test EXCEPT ![t] = [d.test[t] EXCEPT !.activeRuns = @ + 1]]
  OBVIOUS
<1>4. /\ g \in [Runs -> RunObject] /\ \A q \in Runs : q # r => g[q] = d.run[q]
      /\ g[r].test = t /\ g[r].state = "running"
  BY <1>1, <1>2 DEF RunObject
<1>5. /\ f \in [Tests -> TestObject]
      /\ \A u \in Tests : u # t => f[u] = d.test[u]
      /\ f[t].target = d.test[t].target /\ f[t].totalRuns = d.test[t].totalRuns
      /\ f[t].successes = d.test[t].successes
      /\ f[t].activeRuns = d.test[t].activeRuns + 1
  BY <1>1, <1>3 DEF TestObject
<1>6. \A u : /\ RunsIn(g, u, "finished") = RunsIn(d.run, u, "finished")
             /\ PassedIn(g, u) = PassedIn(d.run, u)
  <2>1. \A u : RunsIn(g, u, "finished") = RunsIn(d.run, u, "finished")
    BY <1>4 DEF RunsIn
  <2>2. \A u : PassedIn(g, u) = PassedIn(d.run, u)
    BY <1>4, <2>1 DEF PassedIn, RunsIn
  <2>3. QED  BY <2>1, <2>2
<1>7. /\ \A u : u # t => RunsIn(g, u, "running") = RunsIn(d.run, u, "running")
      /\ RunsIn(g, t, "running") = RunsIn(d.run, t, "running") \cup {r}
      /\ r \notin RunsIn(d.run, t, "running")
  BY <1>4 DEF RunsIn
<1>8. ActiveIs(f, g)
  <2>1. Cardinality(RunsIn(d.run, t, "running") \cup {r})
        = Cardinality(RunsIn(d.run, t, "running")) + 1
    <3>1. RunsIn(d.run, t, "running") \subseteq Runs
      BY DEF RunsIn
    <3>2. QED  BY <1>7, <3>1, Counting
  <2>2. f[t].activeRuns = Cardinality(RunsIn(g, t, "running"))
    BY <1>1, <1>5, <1>7, <2>1 DEF ActiveIs
  <2>3. ASSUME NEW u \in Tests, u # t
        PROVE  f[u].activeRuns = Cardinality(RunsIn(g, u, "running"))
    <3>1. RunsIn(g, u, "running") = RunsIn(d.run, u, "running")
      BY <1>7, <2>3
    <3>2. d.test[u].activeRuns = Cardinality(RunsIn(d.run, u, "running"))
      BY <1>1 DEF ActiveIs
    <3>3. QED  BY <1>5, <2>3, <3>1, <3>2, Zenon
  <2>4. QED  BY <2>2, <2>3 DEF ActiveIs
<1>9. TotalsFine(f, g)
  <2>1. \A u \in Tests : /\ f[u].totalRuns = d.test[u].totalRuns
                         /\ f[u].successes = d.test[u].successes
    BY <1>5
  <2>2. QED  BY <1>1, <1>6, <2>1, Zenon DEF TotalsFine, TotalsAre
<1>10. \A q \in Runs : g[q].state # "none" => g[q].test \in Tests
  BY <1>1, <1>4
<1>11. \A u \in Tests : f[u].target = d.test[u].target
  BY <1>5
<1>12. DbInv(With(d, f, g)) /\ With(d, f, g).run = g
  BY <1>4, <1>5, <1>8, <1>9, <1>10, <1>11, WithDb
<1>13. Started(d, t, r) = With(d, f, g)
  BY <1>1, <1>2, <1>3 DEF Started, With, Database
<1>14. QED  BY <1>4, <1>12, <1>13

Ended(x, k) == [x EXCEPT !.activeRuns = @ - 1, !.totalRuns = @ + 1, !.successes = @ + k,
                         !.waited = FALSE]
Uncounted(x, k) == [x EXCEPT !.totalRuns = @ - 1, !.successes = @ - k]

(* The fields of a test one of whose runs ends, or is cleared. *)
LEMMA CountedFields ==
  ASSUME NEW x \in TestObject, NEW k \in Int
  PROVE  /\ Ended(x, k) \in TestObject /\ Ended(x, k).target = x.target
         /\ Ended(x, k).activeRuns = x.activeRuns - 1
         /\ Ended(x, k).totalRuns = x.totalRuns + 1
         /\ Ended(x, k).successes = x.successes + k
         /\ Uncounted(x, k) \in TestObject /\ Uncounted(x, k).target = x.target
         /\ Uncounted(x, k).activeRuns = x.activeRuns
         /\ Uncounted(x, k).totalRuns = x.totalRuns - 1
         /\ Uncounted(x, k).successes = x.successes - k
<1>1. x.activeRuns \in Int /\ x.totalRuns \in Int /\ x.successes \in Int
  BY DEF TestObject
<1>2. PICK a \in Int : a = x.activeRuns - 1
  BY <1>1
<1>3. PICK b \in Int : b = x.totalRuns + 1
  BY <1>1
<1>4. PICK s \in Int : s = x.successes + k
  BY <1>1
<1>5. PICK y : y = [x EXCEPT !.activeRuns = a, !.totalRuns = b, !.successes = s]
  OBVIOUS
<1>6. /\ y \in TestObject /\ y.target = x.target
      /\ y.activeRuns = a /\ y.totalRuns = b /\ y.successes = s
  BY <1>5 DEF TestObject
<1>7. Ended(x, k) = [y EXCEPT !.waited = FALSE]
  BY <1>2, <1>3, <1>4, <1>5 DEF Ended
<1>8. /\ Ended(x, k) \in TestObject /\ Ended(x, k).target = x.target
      /\ Ended(x, k).activeRuns = a /\ Ended(x, k).totalRuns = b
      /\ Ended(x, k).successes = s
  BY <1>6, <1>7 DEF TestObject
<1>9. PICK b2 \in Int : b2 = x.totalRuns - 1
  BY <1>1
<1>10. PICK s2 \in Int : s2 = x.successes - k
  BY <1>1
<1>11. Uncounted(x, k) = [x EXCEPT !.totalRuns = b2, !.successes = s2]
  BY <1>9, <1>10 DEF Uncounted
<1>12. /\ Uncounted(x, k) \in TestObject /\ Uncounted(x, k).target = x.target
       /\ Uncounted(x, k).activeRuns = x.activeRuns
       /\ Uncounted(x, k).totalRuns = b2 /\ Uncounted(x, k).successes = s2
  BY <1>11 DEF TestObject
<1>13. QED  BY <1>2, <1>3, <1>4, <1>8, <1>9, <1>10, <1>12

Wrote(d, r, a, t, b) == [d EXCEPT !.run[r] = a, !.test[t] = b]

(* A run and a test are written. *)
LEMMA WroteIs ==
  ASSUME NEW d \in Database, NEW r, NEW a, NEW t, NEW b
  PROVE  Wrote(d, r, a, t, b) = With(d, [d.test EXCEPT ![t] = b], [d.run EXCEPT ![r] = a])
BY DEF Database, With, Wrote

(* A run that ends is counted among the runs of its test. *)
LEMMA ResultDb ==
  ASSUME NEW d, DbInv(d), NEW r \in Runs, d.run[r].state = "running", NEW success \in BOOLEAN
  PROVE  DbInv(ResultOf(d, r, success)) /\ SameFree(d, ResultOf(d, r, success))
<1>1. /\ d \in Database
      /\ d.test \in [Tests -> TestObject] /\ d.run \in [Runs -> RunObject]
      /\ \A q \in Runs : d.run[q].state # "none" => d.run[q].test \in Tests
      /\ ActiveIs(d.test, d.run) /\ TotalsFine(d.test, d.run)
  BY Sound
<1>2. PICK t : t = d.run[r].test
  OBVIOUS
<1>3. t \in Tests
  BY <1>1, <1>2
<1>4. PICK k : k = IF success THEN 1 ELSE 0
  OBVIOUS
<1>5. k \in Int
  BY <1>4
<1>6. PICK g : g = [d.run EXCEPT ![r] = [d.run[r] EXCEPT !.state = "finished",
                                                         !.success = success]]
  OBVIOUS
<1>7. PICK f : f = [d.test EXCEPT ![t] = Ended(d.test[t], k)]
  OBVIOUS
<1>8. /\ g \in [Runs -> RunObject] /\ \A q \in Runs : q # r => g[q] = d.run[q]
      /\ g[r].test = t /\ g[r].state = "finished" /\ (g[r].success <=> success)
  BY <1>1, <1>2, <1>6 DEF RunObject
<1>9. /\ f \in [Tests -> TestObject]
      /\ \A u \in Tests : u # t => f[u] = d.test[u]
      /\ f[t].target = d.test[t].target /\ f[t].totalRuns = d.test[t].totalRuns + 1
      /\ f[t].successes = d.test[t].successes + k
      /\ f[t].activeRuns = d.test[t].activeRuns - 1
  <2>1. d.test[t] \in TestObject
    BY <1>1, <1>3
  <2>2. QED  BY <1>1, <1>3, <1>5, <1>7, <2>1, CountedFields
<1>10. \A u, s : u # t => RunsIn(g, u, s) = RunsIn(d.run, u, s)
  BY <1>2, <1>8 DEF RunsIn
<1>11. \A u : u # t => PassedIn(g, u) = PassedIn(d.run, u)
  <2> SUFFICES ASSUME NEW u, u # t  PROVE PassedIn(g, u) = PassedIn(d.run, u)
    OBVIOUS
  <2>1. RunsIn(g, u, "finished") = RunsIn(d.run, u, "finished")
    BY <1>10
  <2>2. \A q \in RunsIn(d.run, u, "finished") : q \in Runs /\ q # r
    BY <1>2 DEF RunsIn
  <2>3. QED  BY <1>8, <2>1, <2>2 DEF PassedIn
<1>12. /\ RunsIn(d.run, t, "running") \subseteq Runs
       /\ RunsIn(d.run, t, "finished") \subseteq Runs /\ PassedIn(d.run, t) \subseteq Runs
  BY DEF RunsIn, PassedIn
<1>13. /\ RunsIn(g, t, "running") = RunsIn(d.run, t, "running") \ {r}
       /\ r \in RunsIn(d.run, t, "running")
       /\ RunsIn(g, t, "finished") = RunsIn(d.run, t, "finished") \cup {r}
       /\ r \notin RunsIn(d.run, t, "finished")
  BY <1>2, <1>8 DEF RunsIn
<1>14. /\ PassedIn(g, t) = IF success THEN PassedIn(d.run, t) \cup {r} ELSE PassedIn(d.run, t)
       /\ r \notin PassedIn(d.run, t)
  <2>1. \A q \in RunsIn(d.run, t, "finished") : q \in Runs /\ q # r
    BY <1>12, <1>13
  <2>2. \A q \in RunsIn(d.run, t, "finished") : g[q].success = d.run[q].success
    BY <1>8, <2>1
  <2>3. \A q : q \in PassedIn(g, t) <=>
                 \/ q \in RunsIn(d.run, t, "finished") /\ d.run[q].success
                 \/ q = r /\ success
    BY <1>8, <1>13, <2>2 DEF PassedIn
  <2>4. r \notin PassedIn(d.run, t)
    BY <1>13 DEF PassedIn
  <2>5. QED  BY <2>3, <2>4 DEF PassedIn
<1>15. ActiveIs(f, g)
  <2>1. Cardinality(RunsIn(d.run, t, "running") \ {r})
        = Cardinality(RunsIn(d.run, t, "running")) - 1
    BY <1>12, <1>13, Counting
  <2>2. f[t].activeRuns = Cardinality(RunsIn(g, t, "running"))
    BY <1>1, <1>3, <1>9, <1>13, <2>1 DEF ActiveIs
  <2>3. \A u \in Tests : u # t => f[u].activeRuns = Cardinality(RunsIn(g, u, "running"))
    BY <1>1, <1>9, <1>10, Zenon DEF ActiveIs
  <2>4. QED  BY <2>2, <2>3 DEF ActiveIs
<1>16. TotalsFine(f, g)
  <2> SUFFICES ASSUME TotalsAre(d.test, d.run)  PROVE TotalsAre(f, g)
    BY <1>1, Zenon DEF TotalsFine
  <2>1. /\ d.test[t].totalRuns = Cardinality(RunsIn(d.run, t, "finished"))
        /\ d.test[t].successes = Cardinality(PassedIn(d.run, t))
    BY <1>3 DEF TotalsAre
  <2>2. Cardinality(RunsIn(d.run, t, "finished") \cup {r})
        = Cardinality(RunsIn(d.run, t, "finished")) + 1
    BY <1>12, <1>13, Counting
  <2>3. f[t].totalRuns = Cardinality(RunsIn(g, t, "finished"))
    BY <1>9, <1>13, <2>1, <2>2, Zenon
  <2>4. /\ Cardinality(PassedIn(d.run, t)) \in Nat
        /\ Cardinality(PassedIn(d.run, t) \cup {r}) = Cardinality(PassedIn(d.run, t)) + 1
    BY <1>12, <1>14, Counting
  <2>5. f[t].successes = Cardinality(PassedIn(g, t))
    <3>1. CASE success
      <4>1. f[t].successes = Cardinality(PassedIn(d.run, t)) + 1
        BY <1>4, <1>9, <2>1, <3>1
      <4>2. PassedIn(g, t) = PassedIn(d.run, t) \cup {r}
        BY <1>14, <3>1
      <4>3. QED  BY <2>4, <4>1, <4>2, Zenon
    <3>2. CASE ~success
      <4>1. f[t].successes = Cardinality(PassedIn(d.run, t))
        BY <1>4, <1>9, <2>1, <2>4, <3>2
      <4>2. PassedIn(g, t) = PassedIn(d.run, t)
        BY <1>14, <3>2
      <4>3. QED  BY <4>1, <4>2, Zenon
    <3>3. QED  BY <3>1, <3>2
  <2>6. \A u \in Tests : u # t => /\ f[u].totalRuns = Cardinality(RunsIn(g, u, "finished"))
                                  /\ f[u].successes = Cardinality(PassedIn(g, u))
    BY <1>9, <1>10, <1>11, Zenon DEF TotalsAre
  <2>7. QED  BY <2>3, <2>5, <2>6, Zenon DEF TotalsAre
<1>17. \A q \in Runs : g[q].state # "none" => g[q].test \in Tests
  BY <1>1, <1>3, <1>8
<1>18. \A u \in Tests : f[u].target = d.test[u].target
  BY <1>9
<1>19. DbInv(With(d, f, g)) /\ With(d, f, g).run = g
  BY <1>8, <1>9, <1>15, <1>16, <1>17, <1>18, WithDb
<1>20. ResultOf(d, r, success) = With(d, f, g)
  <2>1. PICK a : a = [d.run[r] EXCEPT !.state = "finished", !.success = success]
    OBVIOUS
  <2>2. PICK b : b = Ended(d.test[t], k)
    OBVIOUS
  <2>3. ResultOf(d, r, success) = Wrote(d, r, a, t, b)
    BY <1>2, <1>4, <2>1, <2>2, Zenon DEF ResultOf, Ended, Wrote
  <2>4. QED  BY <1>1, <1>6, <1>7, <2>1, <2>2, <2>3, WroteIs
<1>21. SameFree(d, With(d, f, g))
  BY <1>8, <1>19 DEF SameFree
<1>22. QED  BY <1>19, <1>20, <1>21

(* A run that is cleared is no longer counted; one that is cleared again is  *)
(* taken off once more, which is why Resubmit excuses the totals.            *)
LEMMA ClearedDb ==
  ASSUME NEW d, DbInv(d), NEW r \in Runs,
         d.run[r].state = "finished" \/ (Resubmit /\ d.run[r].state = "cleared")
  PROVE  DbInv(Cleared(d, r)) /\ SameFree(d, Cleared(d, r))
<1>1. /\ d \in Database
      /\ d.test \in [Tests -> TestObject] /\ d.run \in [Runs -> RunObject]
      /\ \A q \in Runs : d.run[q].state # "none" => d.run[q].test \in Tests
      /\ ActiveIs(d.test, d.run) /\ TotalsFine(d.test, d.run)
  BY Sound
<1>2. PICK t : t = d.run[r].test
  OBVIOUS
<1>3. t \in Tests
  BY <1>1, <1>2
<1>4. PICK k : k = IF d.run[r].success THEN 1 ELSE 0
  OBVIOUS
<1>5. k \in Int
  BY <1>4
<1>6. PICK g : g = [d.run EXCEPT ![r] = [d.run[r] EXCEPT !.state = "cleared"]]
  OBVIOUS
<1>7. PICK f : f = [d.test EXCEPT ![t] = Uncounted(d.test[t], k)]
  OBVIOUS
<1>8. /\ g \in [Runs -> RunObject] /\ \A q \in Runs : q # r => g[q] = d.run[q]
      /\ g[r].test = t /\ g[r].state = "cleared"
  BY <1>1, <1>2, <1>6 DEF RunObject
<1>9. /\ f \in [Tests -> TestObject]
      /\ \A u \in Tests : u # t => f[u] = d.test[u]
      /\ f[t].target = d.test[t].target /\ f[t].totalRuns = d.test[t].totalRuns - 1
      /\ f[t].successes = d.test[t].successes - k
      /\ f[t].activeRuns = d.test[t].activeRuns
  <2>1. d.test[t] \in TestObject
    BY <1>1, <1>3
  <2>2. QED  BY <1>1, <1>3, <1>5, <1>7, <2>1, CountedFields
<1>10. \A u : RunsIn(g, u, "running") = RunsIn(d.run, u, "running")
  BY <1>8 DEF RunsIn
<1>11. ActiveIs(f, g)
  <2>1. \A u \in Tests : f[u].activeRuns = d.test[u].activeRuns
    BY <1>9
  <2>2. QED  BY <1>1, <1>10, <2>1, Zenon DEF ActiveIs
<1>12. TotalsFine(f, g)
  <2> SUFFICES ASSUME TotalsAre(d.test, d.run), d.run[r].state = "finished"
               PROVE  TotalsAre(f, g)
    BY <1>1, Zenon DEF TotalsFine
  <2>1. \A u : u # t => RunsIn(g, u, "finished") = RunsIn(d.run, u, "finished")
    BY <1>2, <1>8 DEF RunsIn
  <2>2. \A u : u # t => PassedIn(g, u) = PassedIn(d.run, u)
    <3> SUFFICES ASSUME NEW u, u # t  PROVE PassedIn(g, u) = PassedIn(d.run, u)
      OBVIOUS
    <3>1. RunsIn(g, u, "finished") = RunsIn(d.run, u, "finished")
      BY <2>1
    <3>2. \A q \in RunsIn(d.run, u, "finished") : q \in Runs /\ q # r
      BY <1>2 DEF RunsIn
    <3>3. QED  BY <1>8, <3>1, <3>2 DEF PassedIn
  <2>3. /\ RunsIn(d.run, t, "finished") \subseteq Runs /\ PassedIn(d.run, t) \subseteq Runs
        /\ r \in RunsIn(d.run, t, "finished")
        /\ RunsIn(g, t, "finished") = RunsIn(d.run, t, "finished") \ {r}
    BY <1>2, <1>8 DEF RunsIn, PassedIn
  <2>4. PassedIn(g, t) = PassedIn(d.run, t) \ {r}
    <3>1. \A q \in RunsIn(g, t, "finished") : g[q].success = d.run[q].success
      BY <1>8, <2>3
    <3>2. QED  BY <2>3, <3>1 DEF PassedIn
  <2>5. /\ d.test[t].totalRuns = Cardinality(RunsIn(d.run, t, "finished"))
        /\ d.test[t].successes = Cardinality(PassedIn(d.run, t))
    BY <1>3 DEF TotalsAre
  <2>6. f[t].totalRuns = Cardinality(RunsIn(g, t, "finished"))
    <3>1. Cardinality(RunsIn(d.run, t, "finished") \ {r})
          = Cardinality(RunsIn(d.run, t, "finished")) - 1
      BY <2>3, Counting
    <3>2. QED  BY <1>9, <2>3, <2>5, <3>1, Zenon
  <2>7. f[t].successes = Cardinality(PassedIn(g, t))
    <3>1. CASE d.run[r].success
      <4>1. r \in PassedIn(d.run, t)
        BY <2>3, <3>1 DEF PassedIn
      <4>2. Cardinality(PassedIn(d.run, t) \ {r}) = Cardinality(PassedIn(d.run, t)) - 1
        BY <2>3, <4>1, Counting
      <4>3. f[t].successes = Cardinality(PassedIn(d.run, t)) - 1
        BY <1>4, <1>9, <2>5, <3>1
      <4>4. QED  BY <2>4, <4>2, <4>3, Zenon
    <3>2. CASE ~d.run[r].success
      <4>1. PassedIn(g, t) = PassedIn(d.run, t)
        BY <2>4, <3>2 DEF PassedIn
      <4>2. Cardinality(PassedIn(d.run, t)) \in Nat
        BY <2>3, Counting
      <4>3. f[t].successes = Cardinality(PassedIn(d.run, t))
        BY <1>4, <1>9, <2>5, <3>2, <4>2
      <4>4. QED  BY <4>1, <4>3, Zenon
    <3>3. QED  BY <3>1, <3>2
  <2>8. \A u \in Tests : u # t => /\ f[u].totalRuns = Cardinality(RunsIn(g, u, "finished"))
                                  /\ f[u].successes = Cardinality(PassedIn(g, u))
    BY <1>9, <2>1, <2>2, Zenon DEF TotalsAre
  <2>9. QED  BY <2>6, <2>7, <2>8, Zenon DEF TotalsAre
<1>13. \A q \in Runs : g[q].state # "none" => g[q].test \in Tests
  BY <1>1, <1>3, <1>8
<1>14. \A u \in Tests : f[u].target = d.test[u].target
  BY <1>9
<1>15. PICK e : e = With(d, f, g)
  OBVIOUS
<1>16. DbInv(e) /\ e.run = g
  BY <1>8, <1>9, <1>11, <1>12, <1>13, <1>14, <1>15, WithDb
<1>17. SameFree(d, e)
  BY <1>8, <1>16 DEF SameFree
<1>18. Cleared(d, r) = Trigger(e, {t})
  <2>1. PICK a : a = [d.run[r] EXCEPT !.state = "cleared"]
    OBVIOUS
  <2>2. PICK b : b = Uncounted(d.test[t], k)
    OBVIOUS
  <2>3. Cleared(d, r) = Trigger(Wrote(d, r, a, t, b), {t})
    BY <1>2, <1>4, <2>1, <2>2, Zenon DEF Cleared, Uncounted, Wrote
  <2>4. Wrote(d, r, a, t, b) = e
    BY <1>1, <1>6, <1>7, <1>15, <2>1, <2>2, WroteIs
  <2>5. QED  BY <2>3, <2>4, Zenon
<1>19. DbInv(Trigger(e, {t})) /\ SameFree(e, Trigger(e, {t}))
  BY <1>3, <1>16, TriggerDb
<1>20. QED  BY <1>17, <1>18, <1>19 DEF SameFree

-----------------------------------------------------------------------------
(* Smaller changes *)

SetTest(d, t, x) == [d EXCEPT !.test[t] = x]
SetRun(d, r, y) == [d EXCEPT !.run[r] = y]

(* One test, or one run, is changed in fields that are not counted. *)
LEMMA FieldDb ==
  ASSUME NEW d, DbInv(d)
  PROVE  /\ \A t \in Tests : \A x \in TestObject :
              SameTotals(d.test[t], x) /\ x.target = d.test[t].target
              => DbInv(SetTest(d, t, x)) /\ SameFree(d, SetTest(d, t, x))
         /\ \A r \in Runs : \A y \in RunObject :
              /\ y.test = d.run[r].test /\ y.state = d.run[r].state
              /\ y.success = d.run[r].success
              => DbInv(SetRun(d, r, y)) /\ SameFree(d, SetRun(d, r, y))
<1>1. /\ d \in Database
      /\ d.test \in [Tests -> TestObject] /\ d.run \in [Runs -> RunObject]
  BY Sound
<1>2. ASSUME NEW t \in Tests, NEW x \in TestObject,
             SameTotals(d.test[t], x), x.target = d.test[t].target
      PROVE  DbInv(SetTest(d, t, x)) /\ SameFree(d, SetTest(d, t, x))
  <2>1. SetTest(d, t, x) = With(d, [d.test EXCEPT ![t] = x], d.run)
    BY <1>1 DEF SetTest, With, Database
  <2>2. /\ DbInv(With(d, [d.test EXCEPT ![t] = x], d.run))
        /\ SameFree(d, With(d, [d.test EXCEPT ![t] = x], d.run))
    BY <1>1, <1>2, OneTestDb, Zenon
  <2>3. QED  BY <2>1, <2>2, Zenon
<1>3. ASSUME NEW r \in Runs, NEW y \in RunObject, y.test = d.run[r].test,
             y.state = d.run[r].state, y.success = d.run[r].success
      PROVE  DbInv(SetRun(d, r, y)) /\ SameFree(d, SetRun(d, r, y))
  <2>1. PICK e : e = SetRun(d, r, y)
    OBVIOUS
  <2>2. PICK g : g = [d.run EXCEPT ![r] = y]
    OBVIOUS
  <2>3. g \in [Runs -> RunObject]
    BY <1>1, <2>2
  <2>4. e = [d EXCEPT !.run = g]
    BY <1>1, <2>1, <2>2 DEF SetRun, Database
  <2>5. /\ e \in Database /\ e.test = d.test /\ e.run = g
        /\ e.desired = d.desired /\ e.unbootable = d.unbootable
    BY <1>1, <2>3, <2>4 DEF Database
  <2>6. \A q \in Runs : /\ e.run[q].test = d.run[q].test
                        /\ e.run[q].state = d.run[q].state
                        /\ e.run[q].success = d.run[q].success
    BY <1>1, <1>3, <2>2, <2>5
  <2>7. /\ RunsBelong(e) /\ ActiveExact(e) /\ (Resubmit \/ TotalsExact(e))
        /\ SameFree(d, e)
    BY <2>5, <2>6, CountsStay
  <2>8. DesiredExact(e)
    BY <2>5, DesiredStays
  <2>9. QED  BY <2>1, <2>5, <2>7, <2>8 DEF DbInv
<1>4. QED  BY <1>2, <1>3

GiveUp(d, c) == [d EXCEPT !.unbootable = @ \cup {c}, !.desired[c] = 0]

(* A category that is given up no longer counts. *)
LEMMA GiveUpDb ==
  ASSUME NEW d, DbInv(d), NEW c \in Categories
  PROVE  DbInv(GiveUp(d, c)) /\ SameFree(d, GiveUp(d, c))
<1>1. d \in Database
  BY DEF DbInv
<1>2. d.desired \in [Categories -> Int] /\ d.unbootable \subseteq Categories
  BY <1>1, Parts
<1>3. PICK e : e = GiveUp(d, c)
  OBVIOUS
<1>4. PICK w : w = [d.desired EXCEPT ![c] = 0]
  OBVIOUS
<1>5. w \in [Categories -> Int] /\ \A b \in Categories : b # c => w[b] = d.desired[b]
  BY <1>2, <1>4
<1>6. e = [d EXCEPT !.unbootable = d.unbootable \cup {c}, !.desired = w]
  BY <1>1, <1>3, <1>4 DEF GiveUp, Database
<1>7. /\ e \in Database /\ e.test = d.test /\ e.run = d.run
      /\ e.desired = w /\ e.unbootable = d.unbootable \cup {c}
  BY <1>1, <1>2, <1>5, <1>6 DEF Database
<1>8. /\ RunsBelong(e) /\ ActiveExact(e) /\ (Resubmit \/ TotalsExact(e))
      /\ SameFree(d, e)
  BY <1>7, CountsStay
<1>9. DesiredExact(e)
  BY <1>5, <1>7, DesiredStays
<1>10. QED  BY <1>3, <1>7, <1>8, <1>9 DEF DbInv

(* A task is deleted. *)
LEMMA DeletedDb ==
  ASSUME NEW d, DbInv(d), NEW x
  PROVE  /\ DbInv([d EXCEPT !.queued = @ \ {x}])
         /\ SameFree(d, [d EXCEPT !.queued = @ \ {x}])
<1>1. PICK e : e = [d EXCEPT !.queued = @ \ {x}]
  OBVIOUS
<1>2. d \in Database /\ d.queued \ {x} \subseteq Commits \cup Tests
  BY Parts DEF DbInv
<1>3. /\ e \in Database /\ e.test = d.test /\ e.run = d.run
      /\ e.desired = d.desired /\ e.unbootable = d.unbootable
  BY <1>1, <1>2 DEF Database
<1>4. DbInv(e) /\ SameFree(d, e)
  BY <1>3, CommitsChange
<1>5. QED  BY <1>1, <1>4

-----------------------------------------------------------------------------
(* Steps *)

(* What a step that leaves the machines alone needs to keep the invariant. *)
LEMMA StepKeeps ==
  ASSUME Inv, DbInv(db'), SameFree(db, db'), RestInv', agent' = agent
  PROVE  Inv'
<1>1. AgentInv'
  BY DEF Inv, AgentInv, SameFree
<1>2. QED  BY <1>1 DEF Inv

(* The database and the requests, where nothing else changes. *)
LEMMA RequestKeeps ==
  ASSUME Inv, DbInv(db'), SameFree(db, db'),
         UNCHANGED requests \/ (requests < MaxRequests /\ requests' = requests + 1),
         UNCHANGED <<agent, phase, task>>
  PROVE  Inv'
<1>1. RestInv'
  BY SchedulingAssumption DEF Inv, RestInv
<1>2. QED  BY <1>1, StepKeeps

(* The steps of the background worker. *)
LEMMA BackgroundStep ==
  ASSUME Inv, Background
  PROVE  Inv'
<1>1. DbInv(db) /\ RestInv /\ db \in Database
  BY DEF Inv, DbInv
<1>2. SameFree(db, db)
  BY DEF SameFree
<1>3. ASSUME NEW x \in Commits \cup Tests, Take(x)  PROVE Inv'
  <2>1. db' = db /\ agent' = agent /\ RestInv'
    BY <1>1, <1>3 DEF Take, RestInv
  <2>2. DbInv(db') /\ SameFree(db, db')
    BY <1>1, <1>2, <2>1
  <2>3. QED  BY <2>1, <2>2, StepKeeps
<1>4. CASE ProcessCommit
  <2>1. db' = UpdateCommit(db, task) /\ task \in Commits /\ agent' = agent /\ RestInv'
    BY <1>1, <1>4 DEF ProcessCommit, RestInv
  <2>2. DbInv(db') /\ SameFree(db, db')
    BY <1>1, <2>1, UpdateCommitDb
  <2>3. QED  BY <2>1, <2>2, StepKeeps
<1>5. CASE ProcessTest
  <2>1. db' = UpdateTest(db, task) /\ task \in Tests /\ agent' = agent /\ RestInv'
    BY <1>1, <1>5 DEF ProcessTest, RestInv
  <2>2. DbInv(db') /\ SameFree(db, db')
    BY <1>1, <2>1, UpdateTestDb
  <2>3. QED  BY <2>1, <2>2, StepKeeps
<1>6. CASE Finish
  <2>1. db' = [db EXCEPT !.queued = @ \ {task}] /\ agent' = agent /\ RestInv'
    BY <1>1, <1>6 DEF Finish, RestInv
  <2>2. DbInv(db') /\ SameFree(db, db')
    BY <1>1, <2>1, DeletedDb
  <2>3. QED  BY <2>1, <2>2, StepKeeps
<1>7. QED  BY <1>3, <1>4, <1>5, <1>6 DEF Background

(* The other steps of the worker thread, and time. *)
LEMMA WorkerStep ==
  ASSUME Inv,
         \/ \E b \in Branches : BranchDeleted(b) \/ \E c \in Commits : UpdateBranchTopCommit(b, c)
         \/ \E c \in Categories : BootFails(c)
         \/ \E t \in Tests : WaitPasses(t)
         \/ CheckRetryTests
  PROVE  Inv'
<1>1. DbInv(db) /\ db \in Database
  BY DEF Inv, DbInv
<1>2. ASSUME NEW b \in Branches, BranchDeleted(b)  PROVE Inv'
  <2>1. Commits = {} => db.head[b] = NoCommit
    BY <1>1, Parts
  <2>2. PICK c \in Commits : TRUE
    BY <1>2, <2>1 DEF BranchDeleted
  <2>3. DbInv(db') /\ SameFree(db, db')
    BY <1>1, <1>2, MoveHeadDb DEF BranchDeleted
  <2>4. QED  BY <1>2, <2>3, RequestKeeps DEF BranchDeleted
<1>3. ASSUME NEW b \in Branches, NEW c \in Commits, UpdateBranchTopCommit(b, c)  PROVE Inv'
  <2>1. DbInv(db') /\ SameFree(db, db')
    BY <1>1, <1>3, MoveHeadDb DEF UpdateBranchTopCommit
  <2>2. QED  BY <1>3, <2>1, RequestKeeps DEF UpdateBranchTopCommit
<1>4. ASSUME NEW c \in Categories, BootFails(c)  PROVE Inv'
  <2>1. PICK what : what = {t \in Tests : CategoryOf[t] = c
                                          /\ db.test[t].prio \in StartablePriorities}
    OBVIOUS
  <2>2. db' = Trigger(GiveUp(db, c), what)
    BY <1>4, <2>1, Zenon DEF BootFails, GiveUp
  <2>3. DbInv(GiveUp(db, c)) /\ SameFree(db, GiveUp(db, c))
    BY <1>1, GiveUpDb
  <2>4. what \subseteq Commits \cup Tests
    BY <2>1
  <2>5. DbInv(db') /\ SameFree(GiveUp(db, c), db')
    BY <2>2, <2>3, <2>4, TriggerDb
  <2>6. SameFree(db, db')
    BY <2>3, <2>5 DEF SameFree
  <2>7. QED  BY <1>4, <2>5, <2>6, RequestKeeps DEF BootFails
<1>5. ASSUME NEW t \in Tests, WaitPasses(t)  PROVE Inv'
  <2>1. PICK x : x = [db.test[t] EXCEPT !.waited = TRUE]
    OBVIOUS
  <2>2. db.test \in [Tests -> TestObject]
    BY <1>1, Parts
  <2>3. x \in TestObject /\ SameTotals(db.test[t], x) /\ x.target = db.test[t].target
    BY <2>1, <2>2 DEF TestObject, SameTotals
  <2>4. db' = SetTest(db, t, x)
    BY <1>1, <1>5, <2>1, <2>2 DEF WaitPasses, SetTest, Database
  <2>5. DbInv(db') /\ SameFree(db, db')
    BY <1>1, <2>3, <2>4, FieldDb
  <2>6. QED  BY <1>5, <2>5, RequestKeeps DEF WaitPasses
<1>6. CASE CheckRetryTests
  <2>1. PICK what : what = {t \in Tests : db.test[t].prio = "WaitingToRetry"}
    OBVIOUS
  <2>2. db' = Trigger(db, what) /\ what \subseteq Commits \cup Tests
    BY <1>6, <2>1 DEF CheckRetryTests
  <2>3. DbInv(db') /\ SameFree(db, db')
    BY <1>1, <2>2, TriggerDb
  <2>4. QED  BY <1>6, <2>3, RequestKeeps DEF CheckRetryTests
<1>7. QED  BY <1>2, <1>3, <1>4, <1>5, <1>6

(* The requests of users. *)
LEMMA UsersStep ==
  ASSUME Inv, Users
  PROVE  Inv'
<1>1. DbInv(db) /\ db \in Database
  BY DEF Inv, DbInv
<1>2. /\ db.test \in [Tests -> TestObject]
      /\ \A r \in Runs : db.run[r].state # "none" => db.run[r].test \in Tests
  BY <1>1, Sound
<1>3. ASSUME NEW cs \in PrioritySets, NEW p \in 0 .. MaxLevel, SetCommitUserPriority(cs, p)
      PROVE  Inv'
  <2>1. cs \subseteq Commits
    <3>1. \A b \in Branches : ReachedBy(db, b) \subseteq Commits
      BY AncestorsAre DEF ReachedBy, Ancestors
    <3>2. QED  BY <3>1 DEF PrioritySets
  <2>2. DbInv(db') /\ SameFree(db, db')
    BY <1>1, <1>3, <2>1, SetPrioritiesDb DEF SetCommitUserPriority
  <2>3. QED  BY <1>3, <2>2, RequestKeeps DEF SetCommitUserPriority, UserRequest
<1>4. ASSUME NEW t \in Tests, NEW n \in 1 .. MaxRunsDesired, UpdateSuiteRuns(t, n)
      PROVE  Inv'
  <2>1. PICK x : x = [db.test[t] EXCEPT !.runsDesired = n]
    OBVIOUS
  <2>2. x \in TestObject /\ SameTotals(db.test[t], x) /\ x.target = db.test[t].target
    <3>1. n \in 0 .. MaxRunsDesired
      BY SchedulingAssumption
    <3>2. QED  BY <1>2, <2>1, <3>1 DEF TestObject, SameTotals
  <2>3. db' = Trigger(SetTest(db, t, x), {t})
    <3>1. [db EXCEPT !.test[t].runsDesired = n] = SetTest(db, t, x)
      BY <1>1, <1>2, <2>1 DEF SetTest, Database
    <3>2. QED  BY <1>4, <3>1, Zenon DEF UpdateSuiteRuns
  <2>4. DbInv(SetTest(db, t, x)) /\ SameFree(db, SetTest(db, t, x))
    BY <1>1, <2>2, FieldDb
  <2>5. DbInv(db') /\ SameFree(SetTest(db, t, x), db')
    BY <2>3, <2>4, TriggerDb
  <2>6. SameFree(db, db')
    BY <2>4, <2>5 DEF SameFree
  <2>7. QED  BY <1>4, <2>5, <2>6, RequestKeeps DEF UpdateSuiteRuns, UserRequest
<1>5. ASSUME NEW r \in Runs, db.run[r].state = "running", db' = Cancel(db, db.run[r].test, {r})
      PROVE  DbInv(db') /\ SameFree(db, db')
  <2>1. db.run[r].test \in Tests
    BY <1>2, <1>5
  <2>2. {r} \subseteq RunsIn(db.run, db.run[r].test, "running")
    BY <1>5 DEF RunsIn
  <2>3. QED  BY <1>1, <1>5, <2>1, <2>2, CancelDb
<1>6. ASSUME NEW r \in Runs, CancelTestRun(r)  PROVE Inv'
  <2>1. DbInv(db') /\ SameFree(db, db')
    BY <1>5, <1>6 DEF CancelTestRun
  <2>2. QED  BY <1>6, <2>1, RequestKeeps DEF CancelTestRun, UserRequest
<1>7. ASSUME NEW r \in Runs, ClearTestRun(r)  PROVE Inv'
  <2>1. CASE db.run[r].state = "running" /\ db' = Cancel(db, db.run[r].test, {r})
    BY <1>5, <1>7, <2>1, RequestKeeps DEF ClearTestRun, UserRequest
  <2>2. ASSUME db.run[r].state = "finished" \/ (Resubmit /\ db.run[r].state = "cleared"),
               db' = Cleared(db, r)
        PROVE  DbInv(db') /\ SameFree(db, db')
    BY <1>1, <2>2, ClearedDb, Zenon
  <2>3. CASE db.run[r].state = "finished" /\ db' = Cleared(db, r)
    BY <1>7, <2>2, <2>3, RequestKeeps DEF ClearTestRun, UserRequest
  <2>4. CASE Resubmit /\ db.run[r].state = "cleared" /\ db' = Cleared(db, r)
    BY <1>7, <2>2, <2>4, RequestKeeps DEF ClearTestRun, UserRequest
  <2>5. QED  BY <1>7, <2>1, <2>3, <2>4 DEF ClearTestRun
<1>8. QED  BY <1>3, <1>4, <1>6, <1>7 DEF Users

(* Artifacts are recorded, and the tests that depend on the run's updated. *)
LEMMA ArtifactsDb ==
  ASSUME Inv, NEW r \in Runs, NEW n \in Nat, RecordArtifacts(r, n)
  PROVE  DbInv(db') /\ SameFree(db, db')
<1>1. DbInv(db) /\ db \in Database /\ db.run \in [Runs -> RunObject]
  BY Sound DEF Inv
<1>2. PICK y : y = [db.run[r] EXCEPT !.artifacts = n]
  OBVIOUS
<1>3. /\ y \in RunObject /\ y.test = db.run[r].test /\ y.state = db.run[r].state
      /\ y.success = db.run[r].success
  BY <1>1, <1>2 DEF RunObject
<1>4. PICK e : e = SetRun(db, r, y)
  OBVIOUS
<1>5. DbInv(e) /\ SameFree(db, e)
  BY <1>1, <1>3, <1>4, FieldDb
<1>6. [db EXCEPT !.run[r].artifacts = n] = e
  BY <1>1, <1>2, <1>4 DEF SetRun, Database
<1>7. PICK order \in SetToSeqs(Dependents(db.run[r].test)) : db' = UpdateTests(e, order)
  BY <1>6, Zenon DEF RecordArtifacts
<1>8. order \in Seq(Tests)
  BY OrdersAre
<1>9. DbInv(db') /\ SameFree(e, db')
  BY <1>5, <1>7, <1>8, UpdateTestsDb
<1>10. QED  BY <1>5, <1>9 DEF SameFree

(* The steps of machines. *)
LEMMA MachinesKeep ==
  ASSUME Inv, NEW r \in Runs,
         \/ \E t \in Tests : StartNewTest(t, r)
         \/ ArtifactUploaded(r)
         \/ \E success \in BOOLEAN : ReportResults(r, success)
         \/ RecordTestResults(r)
         \/ Abandon(r)
  PROVE  Inv'
<1>1. DbInv(db) /\ db \in Database /\ AgentInv /\ RestInv
  BY DEF Inv, DbInv
<1>2. /\ db.run \in [Runs -> RunObject]
      /\ \A q \in Runs : db.run[q].state # "none" => db.run[q].test \in Tests
  BY <1>1, Sound
<1>3. agent[r] # "none" =>
        /\ db.run[r].state # "none" /\ db.run[r].test \in Tests
        /\ db.run[r].artifacts \in Nat /\ Artifacts[db.run[r].test] \in Nat
  BY <1>1, <1>2, SchedulingAssumption DEF AgentInv, RunObject
<1>4. SameFree(db, db)
  BY DEF SameFree
<1>5. ASSUME NEW a \in {"working", "passed", "failed", "done"}, agent[r] # "none",
             agent' = [agent EXCEPT ![r] = a], DbInv(db'), SameFree(db, db'),
             UNCHANGED <<phase, task, requests>>
      PROVE  Inv'
  <2>1. AgentInv'
    BY <1>1, <1>3, <1>5 DEF AgentInv, SameFree
  <2>2. RestInv'
    BY <1>1, <1>5 DEF RestInv
  <2>3. QED  BY <1>5, <2>1, <2>2 DEF Inv
<1>6. ASSUME NEW t \in Tests, StartNewTest(t, r)  PROVE Inv'
  <2>1. db.run[r].state = "none"
    <3>1. PICK S : S = {x \in Runs : db.run[x].state = "none"} \cup {MaxRuns + 1}
      OBVIOUS
    <3>2. MaxRuns \in Nat
      BY SchedulingAssumption
    <3>3. S \subseteq Nat /\ S # {}
      BY <3>1, <3>2 DEF Runs
    <3>4. r \in S
      BY <1>6, <3>1, <3>3, MinIs DEF StartNewTest
    <3>5. r # MaxRuns + 1
      BY <3>2 DEF Runs
    <3>6. QED  BY <3>1, <3>4, <3>5
  <2>2. PICK e : e = Started(db, t, r)
    OBVIOUS
  <2>3. /\ DbInv(e) /\ e.run[r].state = "running"
        /\ \A q \in Runs : q # r => e.run[q] = db.run[q]
    BY <1>1, <2>1, <2>2, StartedDb
  <2>4. db' = UpdateTest(e, t)
    BY <1>6, <2>2, Zenon DEF StartNewTest, Started
  <2>5. DbInv(db') /\ SameFree(e, db')
    BY <2>3, <2>4, UpdateTestDb
  <2>6. agent' = [agent EXCEPT ![r] = "working"] /\ UNCHANGED <<phase, task, requests>>
    BY <1>6 DEF StartNewTest
  <2>7. AgentInv'
    BY <1>1, <2>3, <2>5, <2>6 DEF AgentInv, SameFree
  <2>8. RestInv'
    BY <1>1, <2>6 DEF RestInv
  <2>9. QED  BY <2>5, <2>7, <2>8 DEF Inv
<1>7. CASE ArtifactUploaded(r)
  <2>1. agent[r] # "none"
    BY <1>7 DEF ArtifactUploaded
  <2>2. PICK n \in Nat : n = db.run[r].artifacts + 1
    BY <1>3, <2>1
  <2>3. RecordArtifacts(r, n)
    BY <1>7, <2>2 DEF ArtifactUploaded
  <2>4. DbInv(db') /\ SameFree(db, db')
    BY <2>3, ArtifactsDb
  <2>5. QED  BY <1>7, <2>4, RequestKeeps DEF ArtifactUploaded
<1>8. ASSUME NEW success \in BOOLEAN, ReportResults(r, success)  PROVE Inv'
  <2>1. agent[r] # "none"
    BY <1>8 DEF ReportResults
  <2>2. PICK n \in db.run[r].artifacts .. Artifacts[db.run[r].test] : RecordArtifacts(r, n)
    BY <1>8 DEF ReportResults
  <2>3. n \in Nat
    BY <1>3, <2>1
  <2>4. DbInv(db') /\ SameFree(db, db')
    BY <2>2, <2>3, ArtifactsDb
  <2>5. PICK a : a = IF success THEN "passed" ELSE "failed"
    OBVIOUS
  <2>6. agent' = [agent EXCEPT ![r] = a] /\ UNCHANGED <<phase, task, requests>>
    BY <1>8, <2>5 DEF ReportResults
  <2>7. a \in {"working", "passed", "failed", "done"}
    BY <2>5
  <2>8. QED  BY <1>5, <2>1, <2>4, <2>6, <2>7
<1>9. CASE RecordTestResults(r)
  <2>1. agent[r] # "none"
    BY <1>9 DEF RecordTestResults
  <2>2. agent' = [agent EXCEPT ![r] = "done"] /\ UNCHANGED <<phase, task, requests>>
    BY <1>9 DEF RecordTestResults
  <2>3. CASE db.run[r].state # "running"
    <3>1. db' = db
      BY <1>9, <2>3 DEF RecordTestResults
    <3>2. DbInv(db') /\ SameFree(db, db')
      BY <1>1, <1>4, <3>1
    <3>3. QED  BY <1>5, <2>1, <2>2, <3>2
  <2>4. CASE db.run[r].state = "running"
    <3>1. PICK passed \in BOOLEAN : passed = (agent[r] = "passed")
      OBVIOUS
    <3>2. PICK t \in Tests : t = db.run[r].test
      BY <1>2, <2>4
    <3>3. PICK order \in SetToSeqs(Dependents(t)) :
            db' = UpdateTests(ResultOf(db, r, passed), order \o <<t>>)
      BY <1>9, <2>4, <3>1, <3>2 DEF RecordTestResults
    <3>4. order \in Seq(Tests)
      BY OrdersAre
    <3>5. order \o <<t>> \in Seq(Tests)
      BY <3>4
    <3>6. PICK e : e = ResultOf(db, r, passed)
      OBVIOUS
    <3>7. DbInv(e) /\ SameFree(db, e)
      BY <1>1, <2>4, <3>6, ResultDb
    <3>8. DbInv(db') /\ SameFree(e, db')
      BY <3>3, <3>5, <3>6, <3>7, UpdateTestsDb
    <3>9. SameFree(db, db')
      BY <3>7, <3>8 DEF SameFree
    <3>10. QED  BY <1>5, <2>1, <2>2, <3>8, <3>9
  <2>5. QED  BY <2>3, <2>4
<1>10. CASE Abandon(r)
  <2>1. /\ agent[r] # "none" /\ agent' = [agent EXCEPT ![r] = "done"]
        /\ db' = db /\ UNCHANGED <<phase, task, requests>>
    BY <1>10 DEF Abandon
  <2>2. DbInv(db') /\ SameFree(db, db')
    BY <1>1, <1>4, <2>1
  <2>3. QED  BY <1>5, <2>1, <2>2
<1>11. QED  BY <1>6, <1>7, <1>8, <1>9, <1>10

-----------------------------------------------------------------------------
(* The start *)

(* The database as it was parsed. *)
LEMMA ParsedIs ==
  /\ Parsed \in Database
  /\ \A t \in Tests : /\ Parsed.test[t].calc = 0 /\ Parsed.test[t].target = 0
                      /\ Parsed.test[t].activeRuns = 0 /\ Parsed.test[t].totalRuns = 0
                      /\ Parsed.test[t].successes = 0
  /\ \A r \in Runs : Parsed.run[r].state = "none"
  /\ \A c \in Categories : Parsed.desired[c] = 0
<1> DEFINE On(c) == {b \in Branches : InitHead[b] # NoCommit /\ c \in Ancestors(InitHead[b])}
<1> DEFINE First(c) == IF On(c) = {} THEN NoBranch ELSE Min(On(c))
<1>1. 0 \in 0 .. MaxLevel /\ 0 \in 0 .. MaxRunsDesired /\ 0 \in Nat /\ 0 \in Int
  BY SchedulingAssumption
<1>2. \A c \in Commits : First(c) \in Branches \cup {NoBranch}
  <2> SUFFICES ASSUME NEW c \in Commits  PROVE First(c) \in Branches \cup {NoBranch}
    OBVIOUS
  <2>1. On(c) \subseteq Branches
    OBVIOUS
  <2> HIDE DEF On
  <2>2. On(c) \subseteq Nat
    BY <2>1, SchedulingAssumption
  <2>3. CASE On(c) = {}
    BY <2>3
  <2>4. CASE On(c) # {}
    BY <2>1, <2>2, <2>4, MinIs
  <2>5. QED  BY <2>3, <2>4
<1>3. Parsed.commit = [c \in Commits |-> [user |-> 0, calc |-> 0, branch |-> First(c)]]
  BY DEF Parsed
<1> HIDE DEF First
<1>4. Parsed.commit \in [Commits -> CommitObject]
  BY <1>1, <1>2, <1>3 DEF CommitObject
<1>5. /\ Parsed.head = InitHead
      /\ Parsed.test = [t \in Tests |->
                          [calc |-> 0, prio |-> "NoMoreTests", target |-> 0, runsDesired |-> 0,
                           activeRuns |-> 0, totalRuns |-> 0, successes |-> 0,
                           waited |-> FALSE]]
      /\ Parsed.run = [r \in Runs |->
                         [test |-> NoTask, state |-> "none", artifacts |-> 0, success |-> FALSE]]
      /\ Parsed.desired = [c \in Categories |-> 0]
      /\ Parsed.unbootable = {} /\ Parsed.queued = {}
  BY DEF Parsed
<1>6. Parsed.test \in [Tests -> TestObject]
  <2>1. "NoMoreTests" \in Priorities
    BY DEF Priorities
  <2>2. QED  BY <1>1, <1>5, <2>1 DEF TestObject
<1>7. Parsed.run \in [Runs -> RunObject]
  BY <1>1, <1>5 DEF RunObject
<1>8. Parsed.head \in [Branches -> Commits \cup {NoCommit}]
  BY <1>5, SchedulingAssumption
<1>9. Parsed = [commit |-> Parsed.commit, head |-> Parsed.head, test |-> Parsed.test,
                run |-> Parsed.run, desired |-> Parsed.desired,
                unbootable |-> Parsed.unbootable, queued |-> Parsed.queued]
  BY DEF Parsed
<1>10. Parsed \in Database
  <2>1. Parsed.desired \in [Categories -> Int] /\ Parsed.unbootable \subseteq Categories
        /\ Parsed.queued \subseteq Commits \cup Tests
    BY <1>5
  <2>2. QED  BY <1>4, <1>6, <1>7, <1>8, <1>9, <2>1 DEF Database
<1>11. QED  BY <1>5, <1>10

(* No test wants a machine at first. *)
LEMMA NothingWanted ==
  ASSUME NEW t \in Tests
  PROVE  Decide(Parsed, t).target = 0
<1>1. /\ Parsed \in Database /\ Parsed.test[t].calc = 0 /\ Parsed.test[t].target = 0
  BY ParsedIs
<1>2. PICK x \in TestObject : x = Parsed.test[t] /\ x.calc = 0 /\ x.target = 0
  BY <1>1, Parts
<1>3. Scheduled(Parsed, t).target = 0
  BY <1>2 DEF Scheduled, TestObject
<1>4. Decide(Parsed, t) \in {[x EXCEPT !.prio = "HardwareComboUnbootable", !.target = 0, !.calc = 0],
                             [x EXCEPT !.prio = "NoMoreTests", !.calc = 0],
                             [x EXCEPT !.prio = "DependencyFailed", !.target = 0],
                             [x EXCEPT !.prio = "WaitingOnBuilds", !.target = 0],
                             Scheduled(Parsed, t)}
  BY <1>2 DEF Decide
<1>5. /\ [x EXCEPT !.prio = "HardwareComboUnbootable", !.target = 0, !.calc = 0].target = 0
      /\ [x EXCEPT !.prio = "NoMoreTests", !.calc = 0].target = 0
      /\ [x EXCEPT !.prio = "DependencyFailed", !.target = 0].target = 0
      /\ [x EXCEPT !.prio = "WaitingOnBuilds", !.target = 0].target = 0
  BY <1>2 DEF TestObject
<1>6. QED  BY <1>3, <1>4, <1>5, Zenon

(* The invariant holds at the start. *)
LEMMA InitHolds == Init => Inv
<1> SUFFICES ASSUME Init  PROVE Inv
  OBVIOUS
<1>1. /\ Parsed \in Database
      /\ \A t \in Tests : /\ Parsed.test[t].activeRuns = 0 /\ Parsed.test[t].totalRuns = 0
                          /\ Parsed.test[t].successes = 0
      /\ \A r \in Runs : Parsed.run[r].state = "none"
      /\ \A c \in Categories : Parsed.desired[c] = 0
  BY ParsedIs
<1>2. PICK f : f = [t \in Tests |-> Decide(Parsed, t)]
  OBVIOUS
<1>3. f \in [Tests -> TestObject] /\ \A t \in Tests : SameTotals(Parsed.test[t], f[t])
  BY <1>1, <1>2, DecideIs
<1>4. \A t \in Tests : f[t].target = 0
  BY <1>2, NothingWanted
<1>5. db = [Parsed EXCEPT !.test = f]
  BY <1>2 DEF Init
<1>6. /\ db \in Database /\ db.test = f /\ db.run = Parsed.run /\ db.desired = Parsed.desired
  BY <1>1, <1>3, <1>5 DEF Database
<1>7. \A t \in Tests : /\ db.test[t].activeRuns = 0 /\ db.test[t].totalRuns = 0
                       /\ db.test[t].successes = 0 /\ db.test[t].target = 0
  BY <1>1, <1>3, <1>4, <1>6 DEF SameTotals
<1>8. Cardinality({}) = 0
  BY FS_EmptySet
<1>9. /\ \A t, s : s # "none" => RunsIn(db.run, t, s) = {}
      /\ \A t : PassedIn(db.run, t) = {}
  BY <1>1, <1>6 DEF RunsIn, PassedIn
<1>10. ActiveIs(db.test, db.run)
  BY <1>7, <1>8, <1>9 DEF ActiveIs
<1>11. TotalsAre(db.test, db.run)
  BY <1>7, <1>8, <1>9 DEF TotalsAre
<1>12. ActiveExact(db) /\ (Resubmit \/ TotalsExact(db))
  BY <1>10, <1>11, ExactMeans, Zenon DEF TotalsFine
<1>13. DesiredExact(db)
  <2>1. \A c : WantedSlots(db, {t \in Tests : CategoryOf[t] = c}) = {}
    <3>1. 1 .. 0 = {}
      OBVIOUS
    <3>2. QED  BY <1>7, <3>1 DEF WantedSlots
  <2>2. QED  BY <1>1, <1>6, <1>8, <2>1 DEF DesiredExact
<1>14. RunsBelong(db)
  BY <1>1, <1>6 DEF RunsBelong
<1>15. DbInv(db)
  BY <1>6, <1>12, <1>13, <1>14 DEF DbInv
<1>16. AgentInv
  BY DEF Init, AgentInv
<1>17. RestInv
  BY SchedulingAssumption DEF Init, RestInv
<1>18. QED  BY <1>15, <1>16, <1>17 DEF Inv

-----------------------------------------------------------------------------
(* Every step keeps the invariant. *)
LEMMA InvStep == Inv /\ [Next]_vars => Inv'
<1> SUFFICES ASSUME Inv, [Next]_vars  PROVE Inv'
  OBVIOUS
<1>1. CASE Background
  BY <1>1, BackgroundStep
<1>2. CASE \/ \E b \in Branches : BranchDeleted(b)
                                  \/ \E c \in Commits : UpdateBranchTopCommit(b, c)
           \/ \E c \in Categories : BootFails(c)
           \/ \E t \in Tests : WaitPasses(t)
           \/ CheckRetryTests
  BY <1>2, WorkerStep
<1>3. CASE Users
  BY <1>3, UsersStep
<1>4. CASE Machines
  BY <1>4, MachinesKeep DEF Machines
<1>5. CASE UNCHANGED vars
  BY <1>5 DEF vars, Inv, AgentInv, RestInv
<1>6. QED  BY <1>1, <1>2, <1>3, <1>4, <1>5 DEF Next

(* The invariant says that the counters agree. *)
LEMMA InvAgrees == Inv => CountersAgree
BY DEF Inv, DbInv, AgentInv, RestInv, CountersAgree, TypeOK

(* For any commits, branches, tests, dependencies and bounds, and with        *)
(* requests of users and reports of machines between any two transactions of  *)
(* the worker: Test.activeRuns is always the number of runs of the test that  *)
(* are running, MachineCategory.desired the number of machines that the       *)
(* targets of its tests add up to as long as it can be booted, and            *)
(* Test.totalRuns and Test.successes count the finished runs unless a stale   *)
(* page may clear one twice.                                                  *)
THEOREM CountersStayExact == Spec => []CountersAgree
BY InitHolds, InvStep, InvAgrees, PTL DEF Spec

-----------------------------------------------------------------------------
(* Ancestors *)

(* What AncestorsIn computes: the least set with c that has the parents, as  *)
(* far as they are in S, of all its members.  A level that is not closed has  *)
(* more commits than its number, and there are not that many.                *)
LEMMA AncestorsClosed ==
  ASSUME NEW c, NEW S, S \subseteq Commits
  PROVE  /\ c \in S => c \in AncestorsIn(c, S)
         /\ \A x \in AncestorsIn(c, S), p \in S : <<x, p>> \in Parents => p \in AncestorsIn(c, S)
         /\ \A T : /\ c \in S => c \in T
                   /\ \A x \in T, p \in S : <<x, p>> \in Parents => p \in T
                   => AncestorsIn(c, S) \subseteq T
<1>1. PICK n \in Nat : n = Cardinality(Commits)
  BY SchedulingAssumption, FS_CardinalityType
<1> DEFINE F == CHOOSE F : F = [i \in 0 .. n |-> UpStep(c, S, F, i)]
<1>2. AncestorsIn(c, S) = F[n]
  BY <1>1 DEF AncestorsIn, UpStep
<1>3. F = [i \in 0 .. n |-> UpStep(c, S, F, i)]
  BY UpExists
<1> HIDE DEF F
<1> DEFINE Above(X) == {p \in S : \E x \in X : <<x, p>> \in Parents}
<1>4. F[0] = {c} \cap S
  <2>1. 0 \in 0 .. n
    OBVIOUS
  <2>2. F[0] = UpStep(c, S, F, 0)
    BY <1>3, <2>1
  <2>3. QED  BY <2>2 DEF UpStep
<1>5. \A i \in 0 .. n - 1 : F[i + 1] = F[i] \cup Above(F[i])
  <2> TAKE i \in 0 .. n - 1
  <2>1. i + 1 \in 0 .. n /\ i + 1 # 0 /\ (i + 1) - 1 = i
    OBVIOUS
  <2>2. F[i + 1] = UpStep(c, S, F, i + 1)
    BY <1>3, <2>1
  <2>3. QED  BY <2>1, <2>2 DEF UpStep
<1>6. ASSUME NEW T, c \in S => c \in T,
             \A x \in T, p \in S : <<x, p>> \in Parents => p \in T
      PROVE  F[n] \subseteq T
  <2>1. PICK U : U = {i \in 0 .. n : F[i] \subseteq T}
    OBVIOUS
  <2>2. 0 \in U
    BY <1>4, <1>6, <2>1
  <2>3. ASSUME NEW i \in 0 .. n - 1, i \in U  PROVE i + 1 \in U
    <3>1. F[i] \subseteq T /\ i + 1 \in 0 .. n
      BY <2>1, <2>3
    <3>2. F[i + 1] \subseteq T
      BY <1>5, <1>6, <3>1
    <3>3. QED  BY <2>1, <3>1, <3>2
  <2>4. n \in U
    <3>1. \A i \in 0 .. n : i \in U
      BY <2>2, <2>3, CountingUp
    <3>2. QED  BY <3>1
  <2>5. QED  BY <2>1, <2>4
<1>7. Above(F[n]) \subseteq F[n] /\ F[0] \subseteq F[n]
  <2>1. PICK U : U = {i \in 0 .. n :
                        /\ F[i] \subseteq S /\ F[0] \subseteq F[i]
                        /\ Above(F[i]) \subseteq F[i] \/ Cardinality(F[i]) >= i + 1}
    OBVIOUS
  <2>2. 0 \in U
    <3> HIDE DEF Above
    <3>0. 0 \in 0 .. n /\ F[0] \subseteq S
      BY <1>4
    <3>1. CASE F[0] = {}
      <4>1. Above(F[0]) \subseteq F[0]
        BY <3>1 DEF Above
      <4>2. QED  BY <2>1, <3>0, <4>1
    <3>2. CASE F[0] # {}
      <4>1. F[0] = {c}
        BY <1>4, <3>2
      <4>2. Cardinality(F[0]) = 1
        BY <4>1, FS_Singleton
      <4>3. Cardinality(F[0]) >= 0 + 1
        BY <4>2
      <4>4. QED  BY <2>1, <3>0, <4>3
    <3>3. QED  BY <3>1, <3>2
  <2>3. \A X \in SUBSET S : IsFiniteSet(X) /\ Cardinality(X) \in Nat
    <3>1. \A X \in SUBSET S : IsFiniteSet(X)
      BY SchedulingAssumption, FS_Subset
    <3>2. QED  BY <3>1, FS_CardinalityType
  <2>4. ASSUME NEW i \in 0 .. n - 1, i \in U  PROVE i + 1 \in U
    <3>1. /\ F[i] \subseteq S /\ F[0] \subseteq F[i] /\ i + 1 \in 0 .. n
          /\ Above(F[i]) \subseteq F[i] \/ Cardinality(F[i]) >= i + 1
      BY <2>1, <2>4
    <3>2. F[i + 1] = F[i] \cup Above(F[i])
      BY <1>5
    <3>3. F[i + 1] \subseteq S /\ F[0] \subseteq F[i + 1]
      BY <3>1, <3>2
    <3>4. CASE Above(F[i]) \subseteq F[i]
      <4>1. F[i + 1] = F[i]
        BY <3>2, <3>4
      <4>2. QED  BY <2>1, <3>1, <3>3, <3>4, <4>1
    <3>5. CASE ~(Above(F[i]) \subseteq F[i])
      <4>1. PICK p \in Above(F[i]) : p \notin F[i]
        BY <3>5
      <4>2. Cardinality(F[i] \cup {p}) = Cardinality(F[i]) + 1
        BY <2>3, <3>1, <4>1, FS_AddElement
      <4>3. F[i] \cup {p} \subseteq F[i + 1]
        BY <3>2, <4>1
      <4>4. Cardinality(F[i] \cup {p}) =< Cardinality(F[i + 1])
        BY <2>3, <3>3, <4>3, FS_Subset
      <4>5. Cardinality(F[i]) \in Nat /\ Cardinality(F[i + 1]) \in Nat
        BY <2>3, <3>1, <3>3
      <4>6. Cardinality(F[i + 1]) >= (i + 1) + 1
        BY <3>1, <3>5, <4>2, <4>4, <4>5
      <4>7. QED  BY <2>1, <3>1, <3>3, <4>6
    <3>6. QED  BY <3>4, <3>5
  <2>5. n \in U
    <3>1. \A i \in 0 .. n : i \in U
      BY <2>2, <2>4, CountingUp
    <3>2. QED  BY <3>1
  <2>6. F[n] \subseteq S /\ F[0] \subseteq F[n]
    BY <2>1, <2>5
  <2>7. Cardinality(F[n]) =< n
    BY <1>1, <2>6, SchedulingAssumption, FS_Subset
  <2>8. Cardinality(F[n]) \in Nat
    BY <2>3, <2>6
  <2>9. ~(Cardinality(F[n]) >= n + 1)
    BY <2>7, <2>8
  <2>10. QED  BY <2>1, <2>5, <2>6, <2>9
<1>8. QED  BY <1>2, <1>4, <1>6, <1>7

-----------------------------------------------------------------------------
(* What is known of commits *)

(* A branch is known that c is on: it is a head, or a child is on one. *)
OnBranch(d, c) ==
    \/ \E b \in Branches : d.head[b] = c
    \/ \E x \in Commits : <<x, c>> \in Parents /\ d.commit[x].branch # NoBranch

(* Nothing is left to update: c has a branch exactly if one is known (which   *)
(* of several may be out of date), and its priority follows.                 *)
Fresh(d, c) ==
    /\ d.commit[c].branch # NoBranch <=> OnBranch(d, c)
    /\ d.commit[c].calc = IF d.commit[c].branch = NoBranch THEN 0 ELSE d.commit[c].user

(* The task that was processed and is not deleted is queued no more. *)
Done == IF phase = "processed" THEN {task} ELSE {}

CommitInv ==
    /\ \A c \in Commits : c \in db.queued \ Done \/ Fresh(db, c)
    /\ phase # "idle" => task \in db.queued

(* Commits and heads are the same, and nothing is taken from the queue. *)
SameCommits(d, e) == e.commit = d.commit /\ e.head = d.head /\ d.queued \subseteq e.queued

(* _calcCommitAnybranch finds a branch exactly if there is one. *)
LEMMA CalcIs ==
  ASSUME NEW d \in Database, NEW c \in Commits
  PROVE  /\ CalcCommitAnybranch(d, c) \in Branches \cup {NoBranch}
         /\ CalcCommitAnybranch(d, c) # NoBranch <=> OnBranch(d, c)
<1>1. PICK found : found = {b \in Branches : d.head[b] = c}
                     \cup ({d.commit[x].branch : x \in {y \in Commits : <<y, c>> \in Parents}}
                           \ {NoBranch})
  OBVIOUS
<1>2. \A x \in Commits : d.commit[x].branch \in Branches \cup {NoBranch}
  BY Parts DEF CommitObject
<1>3. found \subseteq Branches
  BY <1>1, <1>2
<1>4. found \subseteq Nat /\ NoBranch \notin Branches
  BY <1>3, SchedulingAssumption
<1>5. CalcCommitAnybranch(d, c) = IF found = {} THEN NoBranch ELSE Min(found)
  BY <1>1 DEF CalcCommitAnybranch
<1>6. found # {} <=> OnBranch(d, c)
  BY <1>1 DEF OnBranch
<1>7. CASE found = {}
  BY <1>5, <1>6, <1>7
<1>8. CASE found # {}
  <2>1. Min(found) \in Branches
    BY <1>3, <1>4, <1>8, MinIs
  <2>2. QED  BY <1>4, <1>5, <1>6, <1>8, <2>1
<1>9. QED  BY <1>7, <1>8

(* A commit that has a branch, at the time when nothing is left to update,    *)
(* is reachable from the head of one: among those that are not there would    *)
(* be one whose children all are.                                            *)
LEMMA BranchesReach ==
  ASSUME NEW d \in Database, \A c \in Commits : Fresh(d, c), NEW c \in Commits
  PROVE  d.commit[c].branch # NoBranch <=> \E b \in Branches : c \in ReachedBy(d, b)
<1> DEFINE Reached(x) == \E b \in Branches : x \in ReachedBy(d, b)
<1>1. \A b \in Branches : d.head[b] \in Commits \cup {NoCommit}
  BY Parts
<1>2. NoCommit \notin Commits
  BY SchedulingAssumption
<1>3. ASSUME Reached(c)  PROVE d.commit[c].branch # NoBranch
  <2>1. PICK b \in Branches : c \in ReachedBy(d, b)
    BY <1>3
  <2>2. d.head[b] \in Commits /\ c \in AncestorsIn(d.head[b], Commits)
    BY <1>1, <2>1 DEF ReachedBy, Ancestors
  <2>3. PICK T : T = {x \in Commits : d.commit[x].branch # NoBranch}
    OBVIOUS
  <2>4. d.head[b] \in T
    BY <2>2, <2>3 DEF Fresh, OnBranch
  <2>5. \A x \in T, p \in Commits : <<x, p>> \in Parents => p \in T
    BY <2>3 DEF Fresh, OnBranch
  <2>6. AncestorsIn(d.head[b], Commits) \subseteq T
    BY <2>4, <2>5, AncestorsClosed
  <2>7. QED  BY <2>2, <2>3, <2>6
<1>4. ASSUME d.commit[c].branch # NoBranch, ~Reached(c)  PROVE FALSE
  <2>1. PICK Bad : Bad = {x \in Commits : d.commit[x].branch # NoBranch /\ ~Reached(x)}
    OBVIOUS
  <2>2. PICK age \in [Commits -> 0 .. Cardinality(Commits)] :
          \A e \in Parents : age[e[1]] < age[e[2]]
    BY SchedulingAssumption
  <2>3. PICK A : A = {age[x] : x \in Bad}
    OBVIOUS
  <2>4. Cardinality(Commits) \in Nat
    BY SchedulingAssumption, FS_CardinalityType
  <2>5. A \subseteq Nat /\ A # {}
    BY <1>4, <2>1, <2>2, <2>3, <2>4
  <2>6. PICK a \in A : \A k \in A : ~(<<k, a>> \in OpToRel(<, Nat))
    BY <2>5, NatLessThanWellFounded, WFMin
  <2>7. PICK x \in Bad : age[x] = a
    BY <2>3, <2>6
  <2>8. \A y \in Bad : ~(age[y] < age[x])
    BY <2>3, <2>5, <2>6, <2>7 DEF OpToRel
  <2>9. x \in Commits /\ OnBranch(d, x) /\ ~Reached(x)
    BY <2>1, <2>7 DEF Fresh
  <2>10. ASSUME NEW b \in Branches, d.head[b] = x  PROVE FALSE
    <3>1. x \in AncestorsIn(x, Commits)
      BY <2>9, AncestorsClosed
    <3>2. x \in ReachedBy(d, b)
      BY <1>2, <2>9, <2>10, <3>1 DEF ReachedBy, Ancestors
    <3>3. QED  BY <2>9, <3>2
  <2>11. ASSUME NEW y \in Commits, <<y, x>> \in Parents, d.commit[y].branch # NoBranch
         PROVE  FALSE
    <3>1. age[y] < age[x]
      BY <2>2, <2>11
    <3>2. Reached(y)
      BY <2>1, <2>8, <2>11, <3>1
    <3>3. PICK b \in Branches : y \in ReachedBy(d, b)
      BY <3>2
    <3>4. x \in ReachedBy(d, b)
      BY <2>9, <2>11, <3>3, AncestorsClosed DEF ReachedBy, Ancestors
    <3>5. QED  BY <2>9, <3>4
  <2>12. QED  BY <2>9, <2>10, <2>11 DEF OnBranch
<1>5. QED  BY <1>3, <1>4

(* Hence its priority is the one that was asked for. *)
LEMMA FreshMeansAsked ==
  ASSUME Inv, \A c \in Commits : Fresh(db, c), NEW c \in Commits
  PROVE  db.commit[c].calc = Asked(c)
<1>1. db \in Database
  BY DEF Inv, DbInv
<1>2. db.commit[c].branch # NoBranch <=> Reachable(c)
  BY <1>1, BranchesReach DEF Reachable
<1>3. QED  BY <1>2 DEF Fresh, Asked

(* Whatever commit is not queued stays as it should be. *)
NothingMissed(d, e) ==
    /\ d.queued \subseteq e.queued
    /\ \A c \in Commits : Fresh(d, c) => c \in e.queued \/ Fresh(e, c)

(* A commit is fresh as long as its fields, the heads that are on it and the  *)
(* branches of its children stay.                                            *)
LEMMA FreshStays ==
  ASSUME NEW d, NEW e, NEW c \in Commits, Fresh(d, c), e.commit[c] = d.commit[c],
         \A b \in Branches : e.head[b] = c <=> d.head[b] = c,
         \A x \in Commits : <<x, c>> \in Parents =>
            (e.commit[x].branch = NoBranch <=> d.commit[x].branch = NoBranch)
  PROVE  Fresh(e, c)
<1>1. OnBranch(e, c) <=> OnBranch(d, c)
  BY DEF OnBranch
<1>2. QED  BY <1>1 DEF Fresh

(* _updateCommitPriority makes its commit fresh, and tells the parents if     *)
(* they might not be any more.                                               *)
LEMMA UpdateCommitFreshens ==
  ASSUME NEW d \in Database, NEW c \in Commits
  PROVE  /\ NothingMissed(d, UpdateCommit(d, c))
         /\ Fresh(UpdateCommit(d, c), c)
<1>1. PICK branch : branch = CalcCommitAnybranch(d, c)
  OBVIOUS
<1>2. PICK calc : calc = IF branch = NoBranch THEN 0 ELSE d.commit[c].user
  OBVIOUS
<1>3. PICK told : told = {p \in Commits : <<c, p>> \in Parents}
                          \cup {x[2] : x \in {y \in Deps : y[1] \in TestsOf[c]}} \cup TestsOf[c]
  OBVIOUS
<1>4. PICK e : e = UpdateCommit(d, c)
  OBVIOUS
<1> DEFINE changed == branch # d.commit[c].branch \/ calc # d.commit[c].calc
<1>6. PICK d1 : d1 = [d EXCEPT !.commit[c].branch = branch, !.commit[c].calc = calc]
  OBVIOUS
<1>7. e = IF changed THEN Trigger(d1, told) ELSE d1
  BY <1>1, <1>2, <1>3, <1>4, <1>6 DEF UpdateCommit
<1>8. d.commit \in [Commits -> CommitObject]
  BY Parts
<1>9. /\ d1.head = d.head /\ d1.queued = d.queued
      /\ d1.commit = [d.commit EXCEPT ![c] = [d.commit[c] EXCEPT !.branch = branch, !.calc = calc]]
      /\ d1 = [d EXCEPT !.commit = d1.commit]
  <2>1. PICK f : f = [d.commit EXCEPT ![c] = [d.commit[c] EXCEPT !.branch = branch, !.calc = calc]]
    OBVIOUS
  <2>2. d1 = [d EXCEPT !.commit = f]
    BY <1>6, <1>8, <2>1 DEF Database
  <2>3. QED  BY <2>1, <2>2 DEF Database
<1>10. /\ e.head = d.head /\ e.commit = d1.commit
       /\ e.queued = IF changed THEN d.queued \cup told ELSE d.queued
  BY <1>7, <1>9 DEF Trigger, Database
<1>11. /\ e.commit[c].branch = branch /\ e.commit[c].calc = calc
       /\ e.commit[c].user = d.commit[c].user
       /\ \A x \in Commits : x # c => e.commit[x] = d.commit[x]
  BY <1>8, <1>9, <1>10 DEF CommitObject
<1>12. <<c, c>> \notin Parents
  <2>1. PICK age \in [Commits -> 0 .. Cardinality(Commits)] :
          \A x \in Parents : age[x[1]] < age[x[2]]
    BY SchedulingAssumption
  <2>2. Cardinality(Commits) \in Nat
    BY SchedulingAssumption, FS_CardinalityType
  <2>3. age[c] \in Nat
    BY <2>1, <2>2
  <2>4. <<c, c>> \in Parents => age[c] < age[c]
    BY <2>1
  <2>5. QED  BY <2>3, <2>4
<1>13. OnBranch(e, c) <=> OnBranch(d, c)
  BY <1>10, <1>11, <1>12 DEF OnBranch
<1>14. Fresh(e, c)
  BY <1>1, <1>2, <1>11, <1>13, CalcIs DEF Fresh
<1>15. ASSUME NEW p \in Commits, Fresh(d, p), p \notin e.queued  PROVE Fresh(e, p)
  <2>1. CASE p = c
    BY <1>14, <2>1
  <2>2. CASE p # c
    <3>1. <<c, p>> \in Parents => ~changed
      BY <1>3, <1>10, <1>15
    <3>2. \A x \in Commits : <<x, p>> \in Parents =>
            (e.commit[x].branch = NoBranch <=> d.commit[x].branch = NoBranch)
      BY <1>11, <3>1
    <3>3. QED  BY <1>10, <1>11, <1>15, <2>2, <3>2, FreshStays
  <2>3. QED  BY <2>1, <2>2
<1>16. d.queued \subseteq e.queued
  BY <1>10
<1>17. QED  BY <1>4, <1>14, <1>15, <1>16 DEF NothingMissed

(* A branch that moves: the old and the new head are told, and all commits    *)
(* that had no branch and get this one, so that no parent without a branch    *)
(* is left below a child with one.                                           *)
LEMMA SetHeadTells ==
  ASSUME NEW d \in Database, NEW b \in Branches, NEW c \in Commits
  PROVE  NothingMissed(d, SetHead(d, b, c))
<1>1. PICK e : e = SetHead(d, b, c)
  OBVIOUS
<1>2. PICK Free : Free = {x \in Commits : d.commit[x].branch = NoBranch}
  OBVIOUS
<1>3. PICK orphans : orphans = AncestorsIn(c, Free)
  OBVIOUS
<1>4. orphans \subseteq Free /\ \A x \in orphans, p \in Free : <<x, p>> \in Parents => p \in orphans
  BY <1>2, <1>3, AncestorsAre, AncestorsClosed
<1>5. /\ d.commit \in [Commits -> CommitObject]
      /\ d.head \in [Branches -> Commits \cup {NoCommit}]
  BY Parts
<1>6. /\ e.head = [d.head EXCEPT ![b] = c]
      /\ e.commit = [x \in Commits |-> IF x \in orphans THEN [d.commit[x] EXCEPT !.branch = b]
                                       ELSE d.commit[x]]
      /\ e.queued = d.queued \cup ({d.head[b]} \ {NoCommit}) \cup {c} \cup orphans
  BY <1>1, <1>2, <1>3 DEF SetHead, Trigger, Database
<1>7. b # NoBranch
  BY SchedulingAssumption
<1>8. ASSUME NEW p \in Commits, Fresh(d, p), p \notin e.queued  PROVE Fresh(e, p)
  <2>1. p \notin orphans /\ p # c /\ p # d.head[b]
    BY <1>5, <1>6, <1>8, SchedulingAssumption
  <2>2. CASE d.commit[p].branch = NoBranch
    <3>1. \A x \in orphans : <<x, p>> \notin Parents
      BY <1>2, <1>4, <2>1, <2>2
    <3>2. \A x \in Commits : <<x, p>> \in Parents => e.commit[x] = d.commit[x]
      BY <1>6, <3>1
    <3>3. QED  BY <1>5, <1>6, <1>8, <2>1, <3>2, FreshStays
  <2>3. CASE d.commit[p].branch # NoBranch
    <3>1. \A x \in Commits : d.commit[x].branch # NoBranch => e.commit[x].branch # NoBranch
      BY <1>2, <1>4, <1>6
    <3>2. e.commit[p] = d.commit[p]
      BY <1>6, <2>1
    <3>3. \A k \in Branches : d.head[k] = p => e.head[k] = p
      BY <1>5, <1>6, <2>1
    <3>4. OnBranch(e, p)
      BY <1>8, <2>3, <3>1, <3>3 DEF Fresh, OnBranch
    <3>5. QED  BY <1>8, <2>3, <3>2, <3>4 DEF Fresh
  <2>4. QED  BY <2>2, <2>3
<1>9. d.queued \subseteq e.queued
  BY <1>6
<1>10. QED  BY <1>1, <1>8, <1>9 DEF NothingMissed

(* A branch that is deleted. *)
LEMMA DropHeadTells ==
  ASSUME NEW d \in Database, NEW b \in Branches
  PROVE  NothingMissed(d, DropHead(d, b))
<1>1. PICK e : e = DropHead(d, b)
  OBVIOUS
<1>2. d.head \in [Branches -> Commits \cup {NoCommit}]
  BY Parts
<1>3. /\ e.head = [d.head EXCEPT ![b] = NoCommit] /\ e.commit = d.commit
      /\ e.queued = d.queued \cup ({d.head[b]} \ {NoCommit})
  BY <1>1 DEF DropHead, Trigger, Database
<1>4. ASSUME NEW p \in Commits, Fresh(d, p), p \notin e.queued  PROVE Fresh(e, p)
  <2>1. p # d.head[b] /\ p # NoCommit
    BY <1>2, <1>3, <1>4, SchedulingAssumption
  <2>2. \A k \in Branches : e.head[k] = p <=> d.head[k] = p
    BY <1>2, <1>3, <2>1
  <2>3. \A x \in Commits : e.commit[x] = d.commit[x]
    BY <1>3
  <2>4. QED  BY <1>4, <2>2, <2>3, FreshStays
<1>5. d.queued \subseteq e.queued
  BY <1>3
<1>6. QED  BY <1>1, <1>4, <1>5 DEF NothingMissed

(* New priorities. *)
LEMMA SetPrioritiesTells ==
  ASSUME NEW d \in Database, NEW cs, cs \subseteq Commits, NEW p \in 0 .. MaxLevel
  PROVE  NothingMissed(d, SetPriorities(d, cs, p))
<1>1. PICK e : e = SetPriorities(d, cs, p)
  OBVIOUS
<1>2. d.commit \in [Commits -> CommitObject]
  BY Parts
<1>3. /\ e.head = d.head
      /\ e.commit = [c \in Commits |-> IF c \in cs THEN [d.commit[c] EXCEPT !.user = p]
                                       ELSE d.commit[c]]
      /\ e.queued = d.queued \cup {c \in cs : d.commit[c].user # p}
  BY <1>1 DEF SetPriorities, Trigger, Database
<1>4. \A c \in Commits : /\ e.commit[c].branch = d.commit[c].branch
                         /\ c \notin e.queued => e.commit[c] = d.commit[c]
  BY <1>2, <1>3 DEF CommitObject
<1>5. \A c \in Commits : Fresh(d, c) /\ c \notin e.queued => Fresh(e, c)
  <2> TAKE c \in Commits
  <2>1. \A b \in Branches : e.head[b] = c <=> d.head[b] = c
    BY <1>3
  <2>2. QED  BY <1>4, <2>1, FreshStays
<1>6. d.queued \subseteq e.queued
  BY <1>3
<1>7. QED  BY <1>1, <1>5, <1>6 DEF NothingMissed

-----------------------------------------------------------------------------
(* What _updateTestPriority cancels *)

(* No commit wants the test. *)
Unwanted(d, t) == \A c \in Referencing(t) : d.commit[c].calc = 0

(* Runs are canceled only if no commit wants them; none is started. *)
Gentle(d, e) ==
    \A r \in Runs :
        /\ e.run[r].state = "running" =>
              d.run[r].state = "running" /\ e.run[r].test = d.run[r].test
        /\ e.run[r].state = "canceled" =>
              d.run[r].state = "canceled"
              \/ (d.run[r].state = "running" /\ Unwanted(d, d.run[r].test))

(* One gentle change after another is one. *)
LEMMA GentleTwice ==
  ASSUME NEW d, NEW e, NEW f, Gentle(d, e), Gentle(e, f),
         SameCommits(d, e), SameCommits(e, f)
  PROVE  Gentle(d, f) /\ SameCommits(d, f)
<1>1. \A t : Unwanted(e, t) <=> Unwanted(d, t)
  BY DEF Unwanted, SameCommits
<1>2. SameCommits(d, f)
  BY DEF SameCommits
<1>3. ASSUME NEW r \in Runs
      PROVE  /\ f.run[r].state = "running" =>
                   d.run[r].state = "running" /\ f.run[r].test = d.run[r].test
             /\ f.run[r].state = "canceled" =>
                   d.run[r].state = "canceled"
                   \/ (d.run[r].state = "running" /\ Unwanted(d, d.run[r].test))
  BY <1>1 DEF Gentle
<1>4. QED  BY <1>2, <1>3 DEF Gentle

(* _updateTestPriority leaves commits alone, and cancels the runs of its test *)
(* only if no commit wants it.                                               *)
LEMMA UpdateTestGentle ==
  ASSUME NEW d, DbInv(d), NEW t \in Tests
  PROVE  SameCommits(d, UpdateTest(d, t)) /\ Gentle(d, UpdateTest(d, t))
<1>1. /\ d \in Database
      /\ d.test \in [Tests -> TestObject] /\ d.run \in [Runs -> RunObject]
  BY Parts DEF DbInv
<1>2. PICK d1 : d1 = [d EXCEPT !.test[t].calc = Wanted(d, t)]
  OBVIOUS
<1>3. /\ d1.commit = d.commit /\ d1.head = d.head /\ d1.queued = d.queued
      /\ d1.run = d.run /\ d1.test[t].calc = Wanted(d, t)
      /\ d1 = [d EXCEPT !.test = d1.test]
  <2>1. PICK f : f = [d.test EXCEPT ![t] = [d.test[t] EXCEPT !.calc = Wanted(d, t)]]
    OBVIOUS
  <2>2. d1 = [d EXCEPT !.test = f]
    BY <1>1, <1>2, <2>1 DEF Database
  <2>3. f[t].calc = Wanted(d, t)
    BY <1>1, <2>1 DEF TestObject
  <2>4. QED  BY <1>1, <2>2, <2>3 DEF Database
<1>4. PICK S : S = RunsOf(d1, t, {"running"})
  OBVIOUS
<1>5. PICK c1 : c1 = Cancel(d1, t, S)
  OBVIOUS
<1>6. /\ c1.commit = d.commit /\ c1.head = d.head /\ d.queued \subseteq c1.queued
      /\ c1.run = [r \in Runs |-> IF r \in S THEN [d.run[r] EXCEPT !.state = "canceled"]
                                  ELSE d.run[r]]
      /\ c1.desired = d.desired
  BY <1>1, <1>3, <1>5 DEF Cancel, Trigger, Database
<1>7. PICK d2 : d2 = IF d1.test[t].calc # 0 THEN d1 ELSE c1
  OBVIOUS
<1>8. SameCommits(d, d2) /\ Gentle(d, d2)
  <2>1. CASE d1.test[t].calc # 0
    <3>1. d2.run = d.run /\ SameCommits(d, d2)
      BY <1>3, <1>7, <2>1 DEF SameCommits
    <3>2. QED  BY <3>1 DEF Gentle
  <2>2. CASE d1.test[t].calc = 0
    <3>1. Wanted(d, t) = 0
      BY <1>3, <2>2
    <3>2. \A c \in Referencing(t) : d.commit[c].calc \in Nat
      <4>1. \A c \in Commits : d.commit[c].calc \in 0 .. MaxLevel
        BY <1>1, Parts DEF CommitObject
      <4>2. QED  BY <4>1 DEF Referencing
    <3>3. Unwanted(d, t)
      BY <1>1, <3>1, <3>2, WantedIs DEF Unwanted
    <3>4. \A r \in S : r \in Runs /\ d.run[r].state = "running" /\ d.run[r].test = t
      BY <1>3, <1>4 DEF RunsOf
    <3>5. d2 = c1
      BY <1>7, <2>2
    <3>6. \A r \in Runs : /\ d2.run[r].test = d.run[r].test
                          /\ d2.run[r].state = IF r \in S THEN "canceled" ELSE d.run[r].state
      BY <1>1, <1>6, <3>5 DEF RunObject
    <3>7. Gentle(d, d2)
      BY <3>3, <3>4, <3>6 DEF Gentle
    <3>8. QED  BY <1>6, <3>5, <3>7 DEF SameCommits
  <2>3. QED  BY <2>1, <2>2
<1>9. PICK new : new = Decide(d2, t)
  OBVIOUS
<1>10. PICK d3 : d3 = Settling(d2, t, new)
  OBVIOUS
<1>11. PICK e : e = UpdateTest(d, t)
  OBVIOUS
<1>12. e \in {d3, Trigger(d3, Told(t))}
  BY <1>2, <1>4, <1>5, <1>7, <1>9, <1>10, <1>11 DEF UpdateTest, Settling
<1>13. d2 \in {d1, c1}
  BY <1>7
<1>14. /\ d3.commit = d2.commit /\ d3.head = d2.head /\ d3.queued = d2.queued /\ d3.run = d2.run
  BY <1>1, <1>3, <1>5, <1>10, <1>13 DEF Settling, Cancel, Trigger, Database
<1>15. /\ e.commit = d2.commit /\ e.head = d2.head /\ d2.queued \subseteq e.queued
       /\ e.run = d2.run
  <2>1. {"commit", "head", "queued", "run"} \subseteq DOMAIN d3
    <3>1. DOMAIN d1 = DOMAIN d
      BY <1>2
    <3>2. DOMAIN c1 = DOMAIN d1
      BY <1>5 DEF Cancel, Trigger
    <3>3. DOMAIN d3 = DOMAIN d2
      BY <1>10 DEF Settling
    <3>4. {"commit", "head", "queued", "run"} \subseteq DOMAIN d
      BY <1>1 DEF Database
    <3>5. QED  BY <1>13, <3>1, <3>2, <3>3, <3>4
  <2>2. CASE e = d3
    BY <1>14, <2>2
  <2>3. CASE e = Trigger(d3, Told(t))
    BY <1>14, <2>1, <2>3 DEF Trigger
  <2>4. QED  BY <1>12, <2>2, <2>3
<1>16. QED  BY <1>8, <1>11, <1>15 DEF SameCommits, Gentle

(* Nor do several updates, one after the other. *)
LEMMA UpdateTestsGentle ==
  ASSUME NEW d, DbInv(d), NEW order \in Seq(Tests)
  PROVE  SameCommits(d, UpdateTests(d, order)) /\ Gentle(d, UpdateTests(d, order))
<1>1. PICK n \in Nat : n = Len(order)
  OBVIOUS
<1> DEFINE F == CHOOSE F : F = [i \in 0 .. n |-> UpdateStep(d, order, F, i)]
<1>2. UpdateTests(d, order) = F[n]
  BY <1>1 DEF UpdateTests, UpdateStep
<1>3. F = [i \in 0 .. n |-> UpdateStep(d, order, F, i)]
  BY AfterExists
<1> HIDE DEF F
<1>4. PICK T : T = {i \in 0 .. n : DbInv(F[i]) /\ SameCommits(d, F[i]) /\ Gentle(d, F[i])}
  OBVIOUS
<1>5. \A i \in 0 .. n : F[i] = UpdateStep(d, order, F, i)
  BY <1>3
<1>6. 0 \in T
  <2>1. 0 \in 0 .. n
    OBVIOUS
  <2>2. F[0] = UpdateStep(d, order, F, 0)
    BY <1>5, <2>1
  <2>3. F[0] = d
    BY <2>2 DEF UpdateStep
  <2>4. SameCommits(d, d) /\ Gentle(d, d)
    BY DEF SameCommits, Gentle
  <2>5. QED  BY <1>4, <2>1, <2>3, <2>4
<1>7. ASSUME NEW i \in 0 .. n - 1, i \in T  PROVE i + 1 \in T
  <2>1. i + 1 \in 0 .. n /\ i + 1 \in 1 .. n /\ i + 1 # 0 /\ (i + 1) - 1 = i
    OBVIOUS
  <2>2. F[i + 1] = UpdateTest(F[i], order[i + 1])
    BY <1>5, <2>1 DEF UpdateStep
  <2>3. DbInv(F[i]) /\ SameCommits(d, F[i]) /\ Gentle(d, F[i])
    BY <1>4, <1>7
  <2>4. order[i + 1] \in Tests
    BY <1>1, <2>1
  <2>5. DbInv(F[i + 1]) /\ SameCommits(F[i], F[i + 1]) /\ Gentle(F[i], F[i + 1])
    BY <2>2, <2>3, <2>4, UpdateTestDb, UpdateTestGentle
  <2>6. SameCommits(d, F[i + 1]) /\ Gentle(d, F[i + 1])
    BY <2>3, <2>5, GentleTwice
  <2>7. QED  BY <1>4, <2>1, <2>5, <2>6
<1>8. n \in T
  <2>1. \A i \in 0 .. n - 1 : i \in T => i + 1 \in T
    BY <1>7
  <2>2. \A i \in 0 .. n : i \in T
    BY <1>6, <2>1, CountingUp, Zenon
  <2>3. QED  BY <2>2
<1>9. QED  BY <1>2, <1>4, <1>8

(* What is written before the updates leaves commits alone, too, and touches  *)
(* one run at most.                                                          *)
LEMMA WritesQuiet ==
  ASSUME NEW d \in Database
  PROVE  /\ \A what : SameCommits(d, Trigger(d, what)) /\ Trigger(d, what).run = d.run
         /\ \A t, x : SameCommits(d, SetTest(d, t, x)) /\ SetTest(d, t, x).run = d.run
         /\ \A c : SameCommits(d, GiveUp(d, c)) /\ GiveUp(d, c).run = d.run
         /\ \A r, y : SameCommits(d, SetRun(d, r, y))
         /\ \A t, r : SameCommits(d, Started(d, t, r))
         /\ \A r, p : SameCommits(d, ResultOf(d, r, p))
         /\ \A r : SameCommits(d, Cleared(d, r))
         /\ \A t, S : SameCommits(d, Cancel(d, t, S))
<1>1. \A what : SameCommits(d, Trigger(d, what)) /\ Trigger(d, what).run = d.run
  BY DEF SameCommits, Trigger, Database
<1>2. \A t, x : SameCommits(d, SetTest(d, t, x)) /\ SetTest(d, t, x).run = d.run
  BY DEF SameCommits, SetTest, Database
<1>3. \A c : SameCommits(d, GiveUp(d, c)) /\ GiveUp(d, c).run = d.run
  BY DEF SameCommits, GiveUp, Database
<1>4. \A r, y : SameCommits(d, SetRun(d, r, y))
  BY DEF SameCommits, SetRun, Database
<1>5. \A t, r : SameCommits(d, Started(d, t, r))
  BY DEF SameCommits, Started, Database
<1>6. \A r, p : SameCommits(d, ResultOf(d, r, p))
  BY DEF SameCommits, ResultOf, Database
<1>7. \A r : SameCommits(d, Cleared(d, r))
  BY DEF SameCommits, Cleared, Trigger, Database
<1>8. \A t, S : SameCommits(d, Cancel(d, t, S))
  BY DEF SameCommits, Cancel, Trigger, Database
<1>9. QED  BY <1>1, <1>2, <1>3, <1>4, <1>5, <1>6, <1>7, <1>8

-----------------------------------------------------------------------------
(* Steps, and what they do to commits *)

(* A run that is canceled by an update belongs to a test no commit wants. *)
Explained ==
    \A r \in Runs :
        /\ db.run[r].state = "running" /\ db'.run[r].state = "canceled"
        /\ ~CancelTestRun(r) /\ ~ClearTestRun(r)
        => Unwanted(db, db.run[r].test)

TestSide == SameCommits(db, db') /\ Explained

(* A write and the updates that follow it. *)
LEMMA WriteAndUpdate ==
  ASSUME NEW e, SameCommits(db, e), SameCommits(e, db'), Gentle(e, db'),
         \A r \in Runs : db.run[r].state = "running" /\ e.run[r].state = "canceled" => FALSE,
         \A r \in Runs : e.run[r].state = "running" /\ db.run[r].state = "running"
                            => e.run[r].test = db.run[r].test
  PROVE  TestSide
<1>1. SameCommits(db, db')
  BY DEF SameCommits
<1>2. ASSUME NEW r \in Runs, db.run[r].state = "running", db'.run[r].state = "canceled"
      PROVE  Unwanted(db, db.run[r].test)
  <2>1. e.run[r].state = "running" /\ Unwanted(e, e.run[r].test)
    BY <1>2 DEF Gentle
  <2>2. e.run[r].test = db.run[r].test
    BY <1>2, <2>1
  <2>3. QED  BY <2>1, <2>2 DEF Unwanted, SameCommits
<1>3. QED  BY <1>1, <1>2 DEF TestSide, Explained

(* A change that cancels nothing. *)
LEMMA CancelsNothing ==
  ASSUME SameCommits(db, db'), db'.run = db.run
  PROVE  TestSide
BY DEF TestSide, Explained

(* Recording artifacts. *)
LEMMA ArtifactsSide ==
  ASSUME Inv, NEW r \in Runs, NEW n \in Nat, RecordArtifacts(r, n)
  PROVE  TestSide
<1>1. DbInv(db) /\ db \in Database /\ db.run \in [Runs -> RunObject]
  BY Sound DEF Inv
<1>2. PICK y : y = [db.run[r] EXCEPT !.artifacts = n]
  OBVIOUS
<1>3. /\ y \in RunObject /\ y.test = db.run[r].test /\ y.state = db.run[r].state
      /\ y.success = db.run[r].success
  BY <1>1, <1>2 DEF RunObject
<1>4. PICK e : e = SetRun(db, r, y)
  OBVIOUS
<1>5. DbInv(e) /\ SameCommits(db, e)
  BY <1>1, <1>3, <1>4, FieldDb, WritesQuiet
<1>6. [db EXCEPT !.run[r].artifacts = n] = e
  BY <1>1, <1>2, <1>4 DEF SetRun, Database
<1>7. \A q \in Runs : e.run[q].state = db.run[q].state /\ e.run[q].test = db.run[q].test
  BY <1>1, <1>3, <1>4 DEF SetRun, Database
<1>8. PICK order \in SetToSeqs(Dependents(db.run[r].test)) : db' = UpdateTests(e, order)
  BY <1>6, Zenon DEF RecordArtifacts
<1>9. SameCommits(e, db') /\ Gentle(e, db')
  BY <1>5, <1>8, OrdersAre, UpdateTestsGentle
<1>10. QED  BY <1>5, <1>7, <1>9, WriteAndUpdate

(* The steps of machines leave commits alone. *)
LEMMA MachinesSide ==
  ASSUME Inv, NEW r \in Runs,
         \/ \E t \in Tests : StartNewTest(t, r)
         \/ ArtifactUploaded(r)
         \/ \E success \in BOOLEAN : ReportResults(r, success)
         \/ RecordTestResults(r)
         \/ Abandon(r)
  PROVE  TestSide /\ UNCHANGED <<phase, task>>
<1>1. DbInv(db) /\ db \in Database /\ AgentInv
  BY DEF Inv, DbInv
<1>2. /\ db.run \in [Runs -> RunObject]
      /\ \A q \in Runs : db.run[q].state # "none" => db.run[q].test \in Tests
  BY <1>1, Sound
<1>3. agent[r] # "none" =>
        /\ db.run[r].state # "none" /\ db.run[r].test \in Tests
        /\ db.run[r].artifacts \in Nat /\ Artifacts[db.run[r].test] \in Nat
  BY <1>1, <1>2, SchedulingAssumption DEF AgentInv, RunObject
<1>4. SameCommits(db, db)
  BY DEF SameCommits
<1>5. UNCHANGED <<phase, task>>
  BY DEF StartNewTest, ArtifactUploaded, ReportResults, RecordTestResults, Abandon
<1>6. ASSUME NEW t \in Tests, StartNewTest(t, r)  PROVE TestSide
  <2>1. db.run[r].state = "none"
    <3>1. PICK S : S = {x \in Runs : db.run[x].state = "none"} \cup {MaxRuns + 1}
      OBVIOUS
    <3>2. MaxRuns \in Nat
      BY SchedulingAssumption
    <3>3. S \subseteq Nat /\ S # {}
      BY <3>1, <3>2 DEF Runs
    <3>4. r \in S
      BY <1>6, <3>1, <3>3, MinIs DEF StartNewTest
    <3>5. r # MaxRuns + 1
      BY <3>2 DEF Runs
    <3>6. QED  BY <3>1, <3>4, <3>5
  <2>2. PICK e : e = Started(db, t, r)
    OBVIOUS
  <2>3. /\ DbInv(e) /\ \A q \in Runs : q # r => e.run[q] = db.run[q]
        /\ SameCommits(db, e)
    BY <1>1, <2>1, <2>2, StartedDb, WritesQuiet
  <2>4. db' = UpdateTest(e, t)
    BY <1>6, <2>2, Zenon DEF StartNewTest, Started
  <2>5. SameCommits(e, db') /\ Gentle(e, db')
    BY <2>3, <2>4, UpdateTestGentle
  <2>6. QED  BY <2>1, <2>3, <2>5, WriteAndUpdate
<1>7. CASE ArtifactUploaded(r)
  <2>1. agent[r] # "none"
    BY <1>7 DEF ArtifactUploaded
  <2>2. PICK n \in Nat : n = db.run[r].artifacts + 1
    BY <1>3, <2>1
  <2>3. RecordArtifacts(r, n)
    BY <1>7, <2>2 DEF ArtifactUploaded
  <2>4. QED  BY <1>5, <2>3, ArtifactsSide
<1>8. ASSUME NEW success \in BOOLEAN, ReportResults(r, success)  PROVE TestSide
  <2>1. agent[r] # "none"
    BY <1>8 DEF ReportResults
  <2>2. PICK n \in db.run[r].artifacts .. Artifacts[db.run[r].test] : RecordArtifacts(r, n)
    BY <1>8 DEF ReportResults
  <2>3. n \in Nat
    BY <1>3, <2>1
  <2>4. QED  BY <2>2, <2>3, ArtifactsSide
<1>9. CASE RecordTestResults(r)
  <2>1. CASE db.run[r].state # "running"
    <3>1. db' = db
      BY <1>9, <2>1 DEF RecordTestResults
    <3>2. QED  BY <1>4, <1>5, <3>1, CancelsNothing
  <2>2. CASE db.run[r].state = "running"
    <3>1. PICK passed \in BOOLEAN : passed = (agent[r] = "passed")
      OBVIOUS
    <3>2. PICK t \in Tests : t = db.run[r].test
      BY <1>2, <2>2
    <3>3. PICK order \in SetToSeqs(Dependents(t)) :
            db' = UpdateTests(ResultOf(db, r, passed), order \o <<t>>)
      BY <1>9, <2>2, <3>1, <3>2 DEF RecordTestResults
    <3>4. order \in Seq(Tests)
      BY OrdersAre
    <3>5. order \o <<t>> \in Seq(Tests)
      BY <3>4
    <3>6. PICK e : e = ResultOf(db, r, passed)
      OBVIOUS
    <3>7. DbInv(e) /\ SameCommits(db, e)
      BY <1>1, <2>2, <3>6, ResultDb, WritesQuiet
    <3>8. e.run = [db.run EXCEPT ![r] = [db.run[r] EXCEPT !.state = "finished",
                                                         !.success = passed]]
      BY <1>1, <3>6 DEF ResultOf, Database
    <3>9. /\ e.run[r].state = "finished"
          /\ \A q \in Runs : q # r => e.run[q] = db.run[q]
      BY <1>2, <3>8 DEF RunObject
    <3>10. SameCommits(e, db') /\ Gentle(e, db')
      BY <3>3, <3>5, <3>6, <3>7, UpdateTestsGentle
    <3>11. QED  BY <1>5, <3>7, <3>9, <3>10, WriteAndUpdate
  <2>3. QED  BY <2>1, <2>2
<1>10. CASE Abandon(r)
  <2>1. db' = db
    BY <1>10 DEF Abandon
  <2>2. QED  BY <1>4, <1>5, <2>1, CancelsNothing
<1>11. QED  BY <1>5, <1>6, <1>7, <1>8, <1>9, <1>10

(* So do the sweep, the clock, boots that fail, and requests about tests. *)
LEMMA RequestsSide ==
  ASSUME Inv,
         \/ \E c \in Categories : BootFails(c)
         \/ \E t \in Tests : WaitPasses(t)
         \/ CheckRetryTests
         \/ \E t \in Tests, n \in 1 .. MaxRunsDesired : UpdateSuiteRuns(t, n)
         \/ \E r \in Runs : CancelTestRun(r) \/ ClearTestRun(r)
  PROVE  TestSide /\ UNCHANGED <<phase, task>>
<1>1. DbInv(db) /\ db \in Database
  BY DEF Inv, DbInv
<1>2. db.test \in [Tests -> TestObject] /\ db.run \in [Runs -> RunObject]
  BY <1>1, Parts
<1>3. UNCHANGED <<phase, task>>
  BY DEF BootFails, WaitPasses, CheckRetryTests, UpdateSuiteRuns, CancelTestRun, ClearTestRun
<1>4. ASSUME NEW c \in Categories, BootFails(c)  PROVE TestSide
  <2>1. PICK what : db' = Trigger(GiveUp(db, c), what)
    BY <1>4, Zenon DEF BootFails, GiveUp
  <2>2. GiveUp(db, c) \in Database
    BY <1>1, GiveUpDb DEF DbInv
  <2>3. SameCommits(db, db') /\ db'.run = db.run
    BY <1>1, <2>1, <2>2, WritesQuiet DEF SameCommits
  <2>4. QED  BY <2>3, CancelsNothing
<1>5. ASSUME NEW t \in Tests, WaitPasses(t)  PROVE TestSide
  <2>1. db' = SetTest(db, t, [db.test[t] EXCEPT !.waited = TRUE])
    BY <1>1, <1>2, <1>5 DEF WaitPasses, SetTest, Database
  <2>2. QED  BY <1>1, <2>1, WritesQuiet, CancelsNothing
<1>6. CASE CheckRetryTests
  <2>1. PICK what : db' = Trigger(db, what)
    BY <1>6, Zenon DEF CheckRetryTests
  <2>2. QED  BY <1>1, <1>3, <2>1, WritesQuiet, CancelsNothing
<1>7. ASSUME NEW t \in Tests, NEW n \in 1 .. MaxRunsDesired, UpdateSuiteRuns(t, n)
      PROVE  TestSide
  <2>1. PICK f : f = [db.test EXCEPT ![t] = [db.test[t] EXCEPT !.runsDesired = n]]
    OBVIOUS
  <2>2. [db EXCEPT !.test[t].runsDesired = n] = [db EXCEPT !.test = f]
    BY <1>1, <1>2, <2>1 DEF Database
  <2>3. db' = Trigger([db EXCEPT !.test = f], {t})
    BY <1>7, <2>2, Zenon DEF UpdateSuiteRuns
  <2>4. SameCommits(db, db') /\ db'.run = db.run
    BY <1>1, <2>3 DEF Trigger, SameCommits, Database
  <2>5. QED  BY <2>4, CancelsNothing
<1>8. ASSUME NEW r \in Runs, CancelTestRun(r) \/ ClearTestRun(r)  PROVE TestSide
  <2>1. \/ db' = Cancel(db, db.run[r].test, {r})
        \/ db' = Cleared(db, r)
    BY <1>8 DEF CancelTestRun, ClearTestRun
  <2>2. SameCommits(db, db')
    BY <1>1, <2>1, WritesQuiet
  <2>3. \A q \in Runs : q # r => db'.run[q] = db.run[q]
    <3>1. CASE db' = Cancel(db, db.run[r].test, {r})
      BY <1>1, <1>2, <3>1 DEF Cancel, Trigger, Database
    <3>2. CASE db' = Cleared(db, r)
      BY <1>1, <1>2, <3>2 DEF Cleared, Trigger, Database
    <3>3. QED  BY <2>1, <3>1, <3>2
  <2>4. Explained
    <3>1. ASSUME NEW q \in Runs, db.run[q].state = "running", db'.run[q].state = "canceled"
          PROVE  q = r
      BY <2>3, <3>1
    <3>2. QED  BY <1>8, <3>1 DEF Explained
  <2>5. QED  BY <2>2, <2>4 DEF TestSide
<1>9. QED  BY <1>3, <1>4, <1>5, <1>6, <1>7, <1>8

(* A task of commits that other transactions add to stays queued, and in the  *)
(* window after it was processed they change tests only.                     *)
LEMMA CommitsKept ==
  ASSUME CommitInv, UNCHANGED <<phase, task>>,
         SameCommits(db, db') \/ (phase # "processed" /\ NothingMissed(db, db'))
  PROVE  CommitInv'
<1>1. Done' = Done
  BY DEF Done
<1>2. db.queued \subseteq db'.queued
  BY DEF SameCommits, NothingMissed
<1>3. ASSUME NEW c \in Commits  PROVE c \in db'.queued \ Done \/ Fresh(db', c)
  <2>1. CASE c \in db.queued \ Done
    BY <1>2, <2>1
  <2>2. CASE Fresh(db, c)
    <3>1. CASE SameCommits(db, db')
      BY <2>2, <3>1, FreshStays DEF SameCommits
    <3>2. CASE phase # "processed" /\ NothingMissed(db, db')
      BY <2>2, <3>2 DEF NothingMissed, Done
    <3>3. QED  BY <3>1, <3>2
  <2>3. QED  BY <2>1, <2>2 DEF CommitInv
<1>4. QED  BY <1>1, <1>2, <1>3 DEF CommitInv

(* The steps about commits and branches. *)
LEMMA CommitsSide ==
  ASSUME Inv, CommitInv, "processed" \notin Moments,
         \/ \E b \in Branches : BranchDeleted(b) \/ \E c \in Commits : UpdateBranchTopCommit(b, c)
         \/ \E cs \in PrioritySets, p \in 0 .. MaxLevel : SetCommitUserPriority(cs, p)
  PROVE  CommitInv'
<1>1. db \in Database
  BY DEF Inv, DbInv
<1>2. ASSUME NEW b \in Branches, BranchDeleted(b)  PROVE CommitInv'
  <2>1. NothingMissed(db, db')
    BY <1>1, <1>2, DropHeadTells DEF BranchDeleted
  <2>2. phase # "processed" /\ UNCHANGED <<phase, task>>
    BY <1>2 DEF BranchDeleted, WorkerThread
  <2>3. QED  BY <2>1, <2>2, CommitsKept
<1>3. ASSUME NEW b \in Branches, NEW c \in Commits, UpdateBranchTopCommit(b, c)
      PROVE  CommitInv'
  <2>1. NothingMissed(db, db')
    BY <1>1, <1>3, SetHeadTells DEF UpdateBranchTopCommit
  <2>2. phase # "processed" /\ UNCHANGED <<phase, task>>
    BY <1>3 DEF UpdateBranchTopCommit, WorkerThread
  <2>3. QED  BY <2>1, <2>2, CommitsKept
<1>4. ASSUME NEW cs \in PrioritySets, NEW p \in 0 .. MaxLevel, SetCommitUserPriority(cs, p)
      PROVE  CommitInv'
  <2>1. cs \subseteq Commits
    <3>1. \A b \in Branches : ReachedBy(db, b) \subseteq Commits
      BY AncestorsAre DEF ReachedBy, Ancestors
    <3>2. QED  BY <3>1 DEF PrioritySets
  <2>2. NothingMissed(db, db')
    BY <1>1, <1>4, <2>1, SetPrioritiesTells DEF SetCommitUserPriority
  <2>3. Moment \in Moments /\ UNCHANGED <<phase, task>>
    BY <1>4 DEF SetCommitUserPriority, UserRequest, OtherThread
  <2>4. phase # "processed"
    BY <2>3 DEF Moment, CommitInv
  <2>5. QED  BY <2>2, <2>3, <2>4, CommitsKept
<1>5. QED  BY <1>2, <1>3, <1>4

(* The steps of the background worker. *)
LEMMA BackgroundSide ==
  ASSUME Inv, CommitInv, Background
  PROVE  CommitInv'
<1>1. DbInv(db) /\ db \in Database
  BY DEF Inv, DbInv
<1>2. ASSUME NEW x \in Commits \cup Tests, Take(x)  PROVE CommitInv'
  <2>1. Done = {} /\ Done' = {} /\ db' = db /\ task' \in db.queued
    BY <1>2 DEF Take, NextTasks, Done
  <2>2. QED  BY <2>1 DEF CommitInv
<1>3. CASE ProcessCommit
  <2>1. /\ task \in Commits /\ db' = UpdateCommit(db, task) /\ Done = {} /\ Done' = {task}
        /\ task \in db.queued /\ task' = task
    BY <1>3 DEF ProcessCommit, Done, CommitInv
  <2>2. NothingMissed(db, db') /\ Fresh(db', task)
    BY <1>1, <2>1, UpdateCommitFreshens
  <2>3. QED  BY <2>1, <2>2 DEF CommitInv, NothingMissed
<1>4. CASE ProcessTest
  <2>1. /\ task \in Tests /\ db' = UpdateTest(db, task) /\ Done = {} /\ Done' = {task}
        /\ task \in db.queued /\ task' = task
    BY <1>4 DEF ProcessTest, Done, CommitInv
  <2>2. SameCommits(db, db')
    BY <1>1, <2>1, UpdateTestGentle
  <2>3. \A c \in Commits : c # task
    BY <2>1, SchedulingAssumption
  <2>4. \A c \in Commits : Fresh(db, c) => Fresh(db', c)
    BY <2>2, FreshStays DEF SameCommits
  <2>5. QED  BY <2>1, <2>2, <2>3, <2>4 DEF CommitInv, SameCommits
<1>5. CASE Finish
  <2>1. /\ db' = [db EXCEPT !.queued = @ \ {task}] /\ Done = {task} /\ Done' = {}
        /\ phase' = "idle"
    BY <1>5 DEF Finish, Done
  <2>2. db'.commit = db.commit /\ db'.head = db.head /\ db'.queued = db.queued \ {task}
    BY <1>1, <2>1 DEF Database
  <2>3. \A c \in Commits : Fresh(db, c) => Fresh(db', c)
    BY <2>2, FreshStays
  <2>4. QED  BY <2>1, <2>2, <2>3 DEF CommitInv
<1>6. QED  BY <1>2, <1>3, <1>4, <1>5 DEF Background

-----------------------------------------------------------------------------
(* Nothing is left to update at the start. *)
LEMMA InitFresh == Init => CommitInv
<1> SUFFICES ASSUME Init  PROVE CommitInv
  OBVIOUS
<1> DEFINE On(c) == {b \in Branches : InitHead[b] # NoCommit /\ c \in Ancestors(InitHead[b])}
<1> DEFINE First(c) == IF On(c) = {} THEN NoBranch ELSE Min(On(c))
<1>1. \A c \in Commits : First(c) # NoBranch <=> On(c) # {}
  <2> SUFFICES ASSUME NEW c \in Commits  PROVE First(c) # NoBranch <=> On(c) # {}
    OBVIOUS
  <2>1. On(c) \subseteq Branches
    OBVIOUS
  <2> HIDE DEF On
  <2>2. On(c) \subseteq Nat
    BY <2>1, SchedulingAssumption
  <2>3. CASE On(c) = {}
    BY <2>3
  <2>4. CASE On(c) # {}
    BY <2>1, <2>2, <2>4, MinIs, SchedulingAssumption
  <2>5. QED  BY <2>3, <2>4
<1>2. Parsed.commit = [c \in Commits |-> [user |-> 0, calc |-> 0, branch |-> First(c)]]
  BY DEF Parsed
<1> HIDE DEF First
<1>3. Parsed.head = InitHead /\ Parsed.queued = {}
  BY DEF Parsed
<1>4. /\ db.commit = Parsed.commit /\ db.head = InitHead /\ db.queued = {} /\ phase = "idle"
  <2>1. PICK f : f = [t \in Tests |-> Decide(Parsed, t)]
    OBVIOUS
  <2>2. db = [Parsed EXCEPT !.test = f] /\ phase = "idle"
    BY <2>1 DEF Init
  <2>3. QED  BY <1>3, <2>2, ParsedIs DEF Database
<1>5. \A c \in Commits : /\ db.commit[c].user = 0 /\ db.commit[c].calc = 0
                         /\ db.commit[c].branch = First(c)
  BY <1>2, <1>4
<1>6. \A b \in Branches : InitHead[b] \in Commits \cup {NoCommit}
  BY SchedulingAssumption
<1>7. ASSUME NEW c \in Commits, On(c) # {}  PROVE OnBranch(db, c)
  <2>1. PICK b \in Branches : InitHead[b] # NoCommit /\ c \in Ancestors(InitHead[b])
    BY <1>7
  <2>2. PICK h \in Commits : h = InitHead[b]
    BY <1>6, <2>1
  <2>3. PICK A : A = AncestorsIn(h, Commits)
    OBVIOUS
  <2>4. /\ h \in A /\ A \subseteq Commits
        /\ \A x \in A, p \in Commits : <<x, p>> \in Parents => p \in A
    BY <2>3, AncestorsAre, AncestorsClosed
  <2>5. PICK T : T = {p \in A : p = h \/ \E x \in A : <<x, p>> \in Parents}
    OBVIOUS
  <2>6. h \in T /\ \A x \in T, p \in Commits : <<x, p>> \in Parents => p \in T
    BY <2>4, <2>5
  <2>7. A \subseteq T
    BY <2>3, <2>6, AncestorsClosed
  <2>8. c \in T
    BY <2>1, <2>2, <2>3, <2>7 DEF Ancestors
  <2>9. CASE c = h
    BY <1>4, <2>2, <2>9 DEF OnBranch
  <2>10. CASE \E x \in A : <<x, c>> \in Parents
    <3>1. PICK x \in A : <<x, c>> \in Parents
      BY <2>10
    <3>2. x \in Commits /\ b \in On(x)
      BY <2>1, <2>2, <2>3, <2>4 DEF Ancestors
    <3>3. db.commit[x].branch # NoBranch
      BY <1>1, <1>5, <3>2
    <3>4. QED  BY <3>1, <3>2, <3>3 DEF OnBranch
  <2>11. QED  BY <2>5, <2>8, <2>9, <2>10
<1>8. ASSUME NEW c \in Commits, OnBranch(db, c)  PROVE On(c) # {}
  <2>1. CASE \E b \in Branches : db.head[b] = c
    <3>1. PICK b \in Branches : InitHead[b] = c
      BY <1>4, <2>1
    <3>2. c \in Ancestors(c) /\ c # NoCommit
      BY AncestorsClosed, SchedulingAssumption DEF Ancestors
    <3>3. b \in On(c)
      BY <3>1, <3>2
    <3>4. QED  BY <3>3
  <2>2. CASE \E x \in Commits : <<x, c>> \in Parents /\ db.commit[x].branch # NoBranch
    <3>1. PICK x \in Commits : <<x, c>> \in Parents /\ db.commit[x].branch # NoBranch
      BY <2>2
    <3>2. On(x) # {}
      BY <1>1, <1>5, <3>1
    <3>3. PICK b \in On(x) : TRUE
      BY <3>2
    <3>4. c \in Ancestors(InitHead[b])
      BY <3>1, <3>3, AncestorsClosed DEF Ancestors
    <3>5. b \in On(c)
      BY <3>3, <3>4
    <3>6. QED  BY <3>5
  <2>3. QED  BY <1>8, <2>1, <2>2 DEF OnBranch
<1>9. \A c \in Commits : Fresh(db, c)
  BY <1>1, <1>5, <1>7, <1>8 DEF Fresh
<1>10. QED  BY <1>4, <1>9 DEF CommitInv

(* Every step keeps it. *)
LEMMA CommitStep ==
  ASSUME Inv, CommitInv, "processed" \notin Moments, [Next]_vars
  PROVE  CommitInv'
<1>1. CASE Background
  BY <1>1, BackgroundSide
<1>2. CASE \/ \E b \in Branches : BranchDeleted(b)
                                  \/ \E c \in Commits : UpdateBranchTopCommit(b, c)
           \/ \E cs \in PrioritySets, p \in 0 .. MaxLevel : SetCommitUserPriority(cs, p)
  BY <1>2, CommitsSide
<1>3. CASE \/ \E c \in Categories : BootFails(c)
           \/ \E t \in Tests : WaitPasses(t)
           \/ CheckRetryTests
           \/ \E t \in Tests, n \in 1 .. MaxRunsDesired : UpdateSuiteRuns(t, n)
           \/ \E r \in Runs : CancelTestRun(r) \/ ClearTestRun(r)
  BY <1>3, RequestsSide, CommitsKept DEF TestSide
<1>4. CASE Machines
  BY <1>4, MachinesSide, CommitsKept DEF Machines, TestSide
<1>5. CASE UNCHANGED vars
  <2>1. UNCHANGED <<phase, task>> /\ SameCommits(db, db')
    BY <1>5 DEF vars, SameCommits
  <2>2. QED  BY <2>1, CommitsKept
<1>6. QED  BY <1>1, <1>2, <1>3, <1>4, <1>5 DEF Next, Users

(* With no commit queued every commit has the priority asked for. *)
LEMMA SettledWhenQuiet ==
  ASSUME Inv, CommitInv, db.queued \cap Commits = {}, NEW c \in Commits
  PROVE  db.commit[c].calc = Asked(c)
<1>1. \A x \in Commits : Fresh(db, x)
  BY DEF CommitInv
<1>2. QED  BY <1>1, FreshMeansAsked

(* For any history of commits, branches and tests, with pushes, branches      *)
(* deleted and priorities set between any two tasks of the worker and after   *)
(* it picked one: once the queue is empty every commit has the priority its   *)
(* user asked for, or none if no branch reaches it.  A request between the    *)
(* processing of a task and its deletion is excluded: its trigger finds the   *)
(* task that is about to be deleted.                                          *)
THEOREM CommitsAreSettled ==
  ASSUME "processed" \notin Moments
  PROVE  Spec => []CommitsSettled
<1>1. Init => Inv /\ CommitInv
  BY InitHolds, InitFresh
<1>2. Inv /\ CommitInv /\ [Next]_vars => (Inv /\ CommitInv)'
  BY InvStep, CommitStep
<1>3. Inv /\ CommitInv => CommitsSettled
  BY SettledWhenQuiet DEF CommitsSettled
<1>4. QED  BY <1>1, <1>2, <1>3, PTL DEF Spec

(* Every step: a run that it cancels was asked for by a user, or belongs to   *)
(* a test that no commit wants.                                              *)
LEMMA StepsExplained ==
  ASSUME Inv, [Next]_vars
  PROVE  Explained
<1>1. DbInv(db) /\ db \in Database
  BY DEF Inv, DbInv
<1>2. ASSUME db'.run = db.run  PROVE Explained
  BY <1>2 DEF Explained
<1>3. CASE Background
  <2>1. ASSUME NEW x \in Commits \cup Tests, Take(x)  PROVE db'.run = db.run
    BY <2>1 DEF Take
  <2>2. CASE ProcessCommit
    <3>1. db'.run = db.run
      BY <1>1, <2>2 DEF ProcessCommit, UpdateCommit, Trigger, Database
    <3>2. QED  BY <1>2, <3>1
  <2>3. CASE ProcessTest
    <3>1. Gentle(db, db')
      BY <1>1, <2>3, UpdateTestGentle DEF ProcessTest
    <3>2. QED  BY <3>1 DEF Gentle, Explained
  <2>4. CASE Finish
    <3>1. db'.run = db.run
      BY <1>1, <2>4 DEF Finish, Database
    <3>2. QED  BY <1>2, <3>1
  <2>5. QED  BY <1>2, <1>3, <2>1, <2>2, <2>3, <2>4 DEF Background
<1>4. CASE \/ \E b \in Branches : BranchDeleted(b)
                                  \/ \E c \in Commits : UpdateBranchTopCommit(b, c)
           \/ \E cs \in PrioritySets, p \in 0 .. MaxLevel : SetCommitUserPriority(cs, p)
  <2>1. \/ \E b \in Branches : db' = DropHead(db, b)
        \/ \E b \in Branches, c \in Commits : db' = SetHead(db, b, c)
        \/ \E cs, p : db' = SetPriorities(db, cs, p)
    BY <1>4, Zenon DEF BranchDeleted, UpdateBranchTopCommit, SetCommitUserPriority
  <2>2. db'.run = db.run
    BY <1>1, <2>1 DEF DropHead, SetHead, SetPriorities, Trigger, Database
  <2>3. QED  BY <1>2, <2>2
<1>5. CASE \/ \E c \in Categories : BootFails(c)
           \/ \E t \in Tests : WaitPasses(t)
           \/ CheckRetryTests
           \/ \E t \in Tests, n \in 1 .. MaxRunsDesired : UpdateSuiteRuns(t, n)
           \/ \E r \in Runs : CancelTestRun(r) \/ ClearTestRun(r)
  BY <1>5, RequestsSide DEF TestSide
<1>6. CASE Machines
  BY <1>6, MachinesSide DEF Machines, TestSide
<1>7. CASE UNCHANGED vars
  BY <1>2, <1>7 DEF vars
<1>8. QED  BY <1>3, <1>4, <1>5, <1>6, <1>7 DEF Next, Users

(* As long as no commit is queued, what no commit wants nobody asked for. *)
LEMMA QuietCancels ==
  ASSUME Inv, CommitInv, db.queued \cap Commits = {}, Explained
  PROVE  CancelsUnwanted
<1>1. \A t : Unwanted(db, t) => \A c \in Referencing(t) : Asked(c) = 0
  BY SettledWhenQuiet DEF Unwanted, Referencing
<1>2. QED  BY <1>1 DEF Explained, CancelsUnwanted

(* A step taken while no commit is queued cancels a run only if a user asked  *)
(* for that or no commit is left that asks for its test: what a run can lose  *)
(* its machine to otherwise is a commit update that has not been done.        *)
THEOREM QuietStepsCancelUnwanted ==
  ASSUME "processed" \notin Moments
  PROVE  Spec => [][db.queued \cap Commits = {} => CancelsUnwanted]_vars
<1>1. Init => Inv /\ CommitInv
  BY InitHolds, InitFresh
<1>2. Inv /\ CommitInv /\ [Next]_vars => (Inv /\ CommitInv)'
  BY InvStep, CommitStep
<1>3. Inv /\ CommitInv /\ [Next]_vars
        => [db.queued \cap Commits = {} => CancelsUnwanted]_vars
  BY StepsExplained, QuietCancels
<1>4. QED  BY <1>1, <1>2, <1>3, PTL DEF Spec

(* A test is processed while no commit is queued. *)
HeldBack == phase = "picked" /\ task \in Tests => db.queued \cap Commits = {}

(* With no request between the picking of a task and its processing it stays  *)
(* so.                                                                       *)
LEMMA HeldBackStep ==
  ASSUME Inv, CommitInv, HeldBack, Moments \subseteq {"drained", "idle"}, [Next]_vars
  PROVE  HeldBack'
<1>1. phase = "picked" => Moment \notin Moments
  BY DEF CommitInv, Moment
<1>2. CASE Background
  <2>1. ASSUME NEW x \in Commits \cup Tests, Take(x)  PROVE HeldBack'
    BY <2>1, SchedulingAssumption DEF Take, NextTasks, HeldBack
  <2>2. CASE ProcessCommit \/ ProcessTest \/ Finish
    BY <2>2 DEF ProcessCommit, ProcessTest, Finish, HeldBack
  <2>3. QED  BY <1>2, <2>1, <2>2 DEF Background
<1>3. CASE OtherThread /\ UNCHANGED <<phase, task>>
  BY <1>1, <1>3 DEF OtherThread, HeldBack
<1>4. CASE db'.queued = db.queued /\ UNCHANGED <<phase, task>>
  BY <1>4 DEF HeldBack
<1>5. CASE \/ \E b \in Branches : BranchDeleted(b)
                                  \/ \E c \in Commits : UpdateBranchTopCommit(b, c)
           \/ \E c \in Categories : BootFails(c)
           \/ CheckRetryTests
  BY <1>3, <1>5 DEF BranchDeleted, UpdateBranchTopCommit, BootFails, CheckRetryTests,
                    WorkerThread, OtherThread
<1>6. CASE Users
  BY <1>3, <1>6 DEF Users, SetCommitUserPriority, UpdateSuiteRuns, CancelTestRun, ClearTestRun,
                    UserRequest
<1>7. ASSUME NEW t \in Tests, WaitPasses(t)  PROVE HeldBack'
  <2>1. db \in Database
    BY DEF Inv, DbInv
  <2>2. db'.queued = db.queued
    BY <1>7, <2>1 DEF WaitPasses, Database
  <2>3. QED  BY <1>4, <1>7, <2>2 DEF WaitPasses
<1>8. ASSUME NEW r \in Runs,
             \/ \E t \in Tests : StartNewTest(t, r)
             \/ ArtifactUploaded(r)
             \/ \E success \in BOOLEAN : ReportResults(r, success)
             \/ RecordTestResults(r)
             \/ Abandon(r)
      PROVE  HeldBack'
  BY <1>3, <1>4, <1>8 DEF StartNewTest, ArtifactUploaded, ReportResults, RecordTestResults,
                          Abandon
<1>9. CASE UNCHANGED vars
  BY <1>4, <1>9 DEF vars
<1>10. QED  BY <1>2, <1>5, <1>6, <1>7, <1>8, <1>9 DEF Next, Machines

(* Commits are processed before tests, so that an update of a test that the   *)
(* worker does cancels runs only if nobody asks for them any more: with       *)
(* requests between any two tasks, and none after one was picked.             *)
THEOREM WorkerCancelsUnwanted ==
  ASSUME Moments \subseteq {"drained", "idle"}
  PROVE  Spec => [][ProcessTest => CancelsUnwanted]_vars
<1>1. Init => Inv /\ CommitInv /\ HeldBack
  BY InitHolds, InitFresh DEF Init, HeldBack
<1>2. Inv /\ CommitInv /\ HeldBack /\ [Next]_vars => (Inv /\ CommitInv /\ HeldBack)'
  BY InvStep, CommitStep, HeldBackStep
<1>3. Inv /\ CommitInv /\ HeldBack /\ [Next]_vars => [ProcessTest => CancelsUnwanted]_vars
  BY StepsExplained, QuietCancels DEF ProcessTest, HeldBack
<1>4. QED  BY <1>1, <1>2, <1>3, PTL DEF Spec

(* If requests and machines wait until the queue is empty, no step at all     *)
(* cancels a run that a commit still asks for, unless a user asked for that.  *)
THEOREM CancelsOnlyUnwantedWhenDrained ==
  ASSUME Moments \subseteq {"drained"}
  PROVE  Spec => CancelsOnlyUnwanted
<1>1. Init => Inv /\ CommitInv /\ HeldBack
  BY InitHolds, InitFresh DEF Init, HeldBack
<1>2. Inv /\ CommitInv /\ HeldBack /\ [Next]_vars => (Inv /\ CommitInv /\ HeldBack)'
  BY InvStep, CommitStep, HeldBackStep
<1>3. ASSUME Inv, CommitInv, HeldBack, Next  PROVE CancelsUnwanted
  <2>1. Explained /\ DbInv(db) /\ db \in Database
    BY <1>3, StepsExplained DEF Inv, DbInv
  <2>2. CASE db.queued \cap Commits = {}
    BY <1>3, <2>1, <2>2, QuietCancels
  <2>3. CASE db'.run = db.run
    BY <2>3 DEF CancelsUnwanted
  <2>4. CASE OtherThread
    <3>1. db.queued = {}
      BY <1>3, <2>4 DEF OtherThread, Moment, Inv, RestInv
    <3>2. QED  BY <2>2, <3>1
  <2>5. CASE Background
    <3>1. ASSUME NEW x \in Commits \cup Tests, Take(x)  PROVE db'.run = db.run
      BY <3>1 DEF Take
    <3>2. CASE ProcessCommit
      <4>1. db'.run = db.run
        BY <2>1, <3>2 DEF ProcessCommit, UpdateCommit, Trigger, Database
      <4>2. QED  BY <2>3, <4>1
    <3>3. CASE ProcessTest
      BY <1>3, <2>2, <3>3 DEF ProcessTest, HeldBack
    <3>4. CASE Finish
      <4>1. db'.run = db.run
        BY <2>1, <3>4 DEF Finish, Database
      <4>2. QED  BY <2>3, <4>1
    <3>5. QED  BY <2>3, <2>5, <3>1, <3>2, <3>3, <3>4 DEF Background
  <2>6. CASE \/ \E b \in Branches : BranchDeleted(b)
                                    \/ \E c \in Commits : UpdateBranchTopCommit(b, c)
             \/ \E c \in Categories : BootFails(c)
             \/ CheckRetryTests
    BY <2>4, <2>6 DEF BranchDeleted, UpdateBranchTopCommit, BootFails, CheckRetryTests,
                      WorkerThread, OtherThread
  <2>7. CASE Users
    BY <2>4, <2>7 DEF Users, SetCommitUserPriority, UpdateSuiteRuns, CancelTestRun,
                      ClearTestRun, UserRequest
  <2>8. ASSUME NEW t \in Tests, WaitPasses(t)  PROVE CancelsUnwanted
    <3>1. db'.run = db.run
      BY <2>1, <2>8 DEF WaitPasses, Database
    <3>2. QED  BY <2>3, <3>1
  <2>9. ASSUME NEW r \in Runs,
               \/ \E t \in Tests : StartNewTest(t, r)
               \/ ArtifactUploaded(r)
               \/ \E success \in BOOLEAN : ReportResults(r, success)
               \/ RecordTestResults(r)
               \/ Abandon(r)
        PROVE  CancelsUnwanted
    BY <2>3, <2>4, <2>9 DEF StartNewTest, ArtifactUploaded, ReportResults, RecordTestResults,
                            Abandon
  <2>10. QED  BY <1>3, <2>5, <2>6, <2>7, <2>8, <2>9 DEF Next, Machines
<1>4. Inv /\ CommitInv /\ HeldBack /\ [Next]_vars => [CancelsUnwanted]_vars
  BY <1>3
<1>5. QED  BY <1>1, <1>2, <1>4, PTL DEF Spec, CancelsOnlyUnwanted

=============================================================================
