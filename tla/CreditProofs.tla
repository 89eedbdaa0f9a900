---------------------------- MODULE CreditProofs ----------------------------
(***************************************************************************)
(* Proofs about the credits of job creation: whatever fails, every credit  *)
(* is in the balance, in one hold, charged or lost, and holding credits by *)
(* decrementing first keeps what an atomic reservation promises.           *)
(*                                                                         *)
(* A step concerns the hold of one request and moves credits one of a few  *)
(* ways (Effect); the sums over all requests follow it (SumChange), and    *)
(* both results follow from there.                                         *)
(***************************************************************************)
EXTENDS JobCreationProofs, FiniteSetTheorems

-----------------------------------------------------------------------------
(* Sums of natural numbers over a finite set, by counting units.            *)

\* The units a function counts: f[x] of them for each x in T.
UnitsOf(f, x) == {x} \X (1 .. f[x])
Units(f, T) == UNION {UnitsOf(f, x) : x \in T}

\* The recursion by which a sum is defined.
AddsUp(f, S, g) ==
  g = [s \in SUBSET S |->
         IF s = {} THEN 0 ELSE f[CHOOSE x \in s : TRUE] + g[s \ {CHOOSE x \in s : TRUE}]]

LEMMA SumAddsUp ==
  ASSUME NEW f, NEW S, NEW h, AddsUp(f, S, h)
  PROVE  \E g : AddsUp(f, S, g) /\ SumFunctionOnSet(f, S) = g[S]
<1> DEFINE P(g) == AddsUp(f, S, g)
           c == CHOOSE g : P(g)
<1>1. P(c)
  BY DEF P
<1>2. SumFunctionOnSet(f, S) = c[S]
  BY DEF SumFunctionOnSet, FoldFunctionOnSet, MapThenFoldSet, AddsUp
<1> QED BY <1>1, <1>2

LEMMA UnitsOfFinite ==
  ASSUME NEW S, NEW f \in [S -> Nat], NEW x \in S
  PROVE  IsFiniteSet(UnitsOf(f, x)) /\ Cardinality(UnitsOf(f, x)) = f[x]
<1>1. f[x] \in Nat
  OBVIOUS
<1>2. IsFiniteSet(1 .. f[x]) /\ Cardinality(1 .. f[x]) = f[x]
  BY <1>1, FS_Interval
<1>3. IsFiniteSet({x}) /\ Cardinality({x}) = 1
  BY FS_Singleton
<1>4. IsFiniteSet(UnitsOf(f, x)) /\ Cardinality(UnitsOf(f, x)) = 1 * f[x]
  BY <1>2, <1>3, FS_Product DEF UnitsOf
<1> QED BY <1>1, <1>4

LEMMA UnitsFinite ==
  ASSUME NEW S, IsFiniteSet(S), NEW f \in [S -> Nat], NEW T \in SUBSET S
  PROVE  IsFiniteSet(Units(f, T)) /\ Cardinality(Units(f, T)) \in Nat
<1> DEFINE I == {UnitsOf(f, x) : x \in T}
           m == [x \in T |-> UnitsOf(f, x)]
<1>1. IsFiniteSet(T)
  BY FS_Subset
<1>2. m \in Surjection(T, I)
  BY DEF Surjection
<1>3. IsFiniteSet(I)
  <2> HIDE DEF I, m
  <2> QED BY <1>1, <1>2, FS_Surjection
<1>4. \A U \in I : IsFiniteSet(U)
  BY UnitsOfFinite
<1>5. IsFiniteSet(Units(f, T))
  <2>1. Units(f, T) = UNION I
    BY DEF Units
  <2> HIDE DEF I
  <2> QED BY <1>3, <1>4, <2>1, FS_UNION
<1> QED BY <1>5, FS_CardinalityType

\* Taking an element out takes its units out.
LEMMA UnitsWithout ==
  ASSUME NEW S, IsFiniteSet(S), NEW f \in [S -> Nat], NEW T \in SUBSET S, NEW x \in T
  PROVE  Cardinality(Units(f, T)) = f[x] + Cardinality(Units(f, T \ {x}))
<1>1. Units(f, T) = UnitsOf(f, x) \cup Units(f, T \ {x})
  BY DEF Units
<1>2. UnitsOf(f, x) \cap Units(f, T \ {x}) = {}
  BY DEF Units, UnitsOf
<1>3. /\ IsFiniteSet(UnitsOf(f, x)) /\ Cardinality(UnitsOf(f, x)) = f[x]
      /\ IsFiniteSet(Units(f, T \ {x})) /\ Cardinality(Units(f, T \ {x})) \in Nat
  BY UnitsOfFinite, UnitsFinite
<1>4. Cardinality(Units(f, T)) = f[x] + Cardinality(Units(f, T \ {x})) - Cardinality({})
  <2> DEFINE A == UnitsOf(f, x)
             B == Units(f, T \ {x})
  <2> HIDE DEF A, B
  <2>1. /\ IsFiniteSet(A) /\ IsFiniteSet(B) /\ A \cap B = {}
        /\ Units(f, T) = A \cup B /\ Cardinality(A) = f[x]
    BY <1>1, <1>2, <1>3 DEF A, B
  <2>2. Cardinality(A \cup B) = Cardinality(A) + Cardinality(B) - Cardinality(A \cap B)
    BY <2>1, FS_Union
  <2> QED BY <2>1, <2>2 DEF B
<1>5. f[x] \in Nat
  OBVIOUS
<1> QED BY <1>3, <1>4, <1>5, FS_EmptySet

LEMMA SumIsUnits ==
  ASSUME NEW S, IsFiniteSet(S), NEW f \in [S -> Nat]
  PROVE  SumFunctionOnSet(f, S) = Cardinality(Units(f, S))
<1> DEFINE h == [s \in SUBSET S |-> Cardinality(Units(f, s))]
<1>1. AddsUp(f, S, h)
  <2>1. ASSUME NEW s \in SUBSET S, s # {}
        PROVE  h[s] = f[CHOOSE x \in s : TRUE] + h[s \ {CHOOSE x \in s : TRUE}]
    <3>1. (CHOOSE x \in s : TRUE) \in s
      BY <2>1
    <3>2. PICK y \in s : y = CHOOSE x \in s : TRUE
      BY <3>1
    <3>3. h[s] = f[y] + h[s \ {y}]
      BY UnitsWithout
    <3> QED BY <3>2, <3>3
  <2>2. h[{}] = 0
    <3>1. Units(f, {}) = {}
      BY DEF Units
    <3> QED BY <3>1, FS_EmptySet
  <2> QED BY <2>1, <2>2 DEF AddsUp
<1>2. PICK g : AddsUp(f, S, g) /\ SumFunctionOnSet(f, S) = g[S]
  <2> HIDE DEF h
  <2> QED BY <1>1, SumAddsUp
<1>3. \A s \in SUBSET S : g[s] = h[s]
  <2> DEFINE D == {s \in SUBSET S : g[s] # h[s]}
  <2>1. SUFFICES ASSUME D # {} PROVE FALSE
    OBVIOUS
  <2>2. IsWellFoundedOn(StrictSubsetOrdering(S), SUBSET S)
    BY FS_StrictSubsetOrderingWellFounded, FS_FiniteSubsetsOfFinite
  <2>3. D \subseteq SUBSET S
    OBVIOUS
  <2>4. PICK s \in D : \A t \in D : <<t, s>> \notin StrictSubsetOrdering(S)
    <3> HIDE DEF D
    <3> QED BY <2>1, <2>2, <2>3, WFMin
  <2>5. s # {}
    BY <1>1, <1>2 DEF AddsUp
  <2>6. PICK y \in s : y = CHOOSE x \in s : TRUE
    BY <2>5
  <2>7. s \ {y} \in SUBSET S /\ <<s \ {y}, s>> \in StrictSubsetOrdering(S)
    BY <2>6 DEF StrictSubsetOrdering
  <2>8. g[s \ {y}] = h[s \ {y}]
    BY <2>4, <2>7
  <2>9. g[s] = f[y] + g[s \ {y}] /\ h[s] = f[y] + h[s \ {y}]
    <3> HIDE DEF h
    <3> QED BY <1>1, <1>2, <2>5, <2>6 DEF AddsUp
  <2> QED BY <2>4, <2>8, <2>9
<1> QED BY <1>2, <1>3

LEMMA SumType ==
  ASSUME NEW S, IsFiniteSet(S), NEW f \in [S -> Nat]
  PROVE  SumFunction(f) \in Nat
BY SumIsUnits, UnitsFinite DEF SumFunction

LEMMA SumChange ==
  ASSUME NEW S, IsFiniteSet(S), NEW f \in [S -> Nat], NEW g \in [S -> Nat], NEW x \in S,
         \A y \in S \ {x} : g[y] = f[y]
  PROVE  SumFunction(g) = SumFunction(f) - f[x] + g[x]
<1>1. Units(g, S \ {x}) = Units(f, S \ {x})
  BY DEF Units, UnitsOf
<1>2. /\ SumFunction(f) = Cardinality(Units(f, S))
      /\ SumFunction(g) = Cardinality(Units(g, S))
  BY SumIsUnits DEF SumFunction
<1>3. /\ Cardinality(Units(f, S)) = f[x] + Cardinality(Units(f, S \ {x}))
      /\ Cardinality(Units(g, S)) = g[x] + Cardinality(Units(g, S \ {x}))
  BY UnitsWithout
<1>4. Cardinality(Units(f, S \ {x})) \in Nat /\ f[x] \in Nat /\ g[x] \in Nat
  BY UnitsFinite
<1> QED BY <1>1, <1>2, <1>3, <1>4

LEMMA SumZero ==
  ASSUME NEW S, IsFiniteSet(S)
  PROVE  SumFunction([x \in S |-> 0]) = 0
<1> DEFINE f == [x \in S |-> 0]
<1>1. Units(f, S) = {}
  BY DEF Units, UnitsOf
<1> QED BY <1>1, SumIsUnits, FS_EmptySet DEF SumFunction
-----------------------------------------------------------------------------
(* The ledger.                                                              *)

\* A job that does not exist has not been settled, and the pool is short of
\* nothing but what failing calls have lost.
Ledger ==
  /\ balance \in Int /\ spent \in Nat /\ lost \in Nat /\ faults \in 0 .. MaxFaults
  /\ charges \in [Requests -> {0, 1}] /\ refunds \in [Requests -> {0, 1}]
  /\ \A r \in Requests \ persisted : charges[r] = 0 /\ refunds[r] = 0
  /\ Pool + lost >= 0
  /\ CreditsAccountedFor

\* The hold of r becomes h, and the credits beside it change by p in the pool,
\* by s among the spent and by l among the lost.
Books(r, h, p, s, l) ==
  /\ Held(r)' = h
  /\ balance' + overdrawn'[r] = balance + overdrawn[r] + p
  /\ spent' = spent + s /\ lost' = lost + l

\* What a step of r may do with the owner's credits: nothing, reserve what the
\* balance covers, end the hold whole or in part, or lose credits of the pool.
Effect(r) ==
  \/ Books(r, Held(r), 0, 0, 0)
  \/ Held(r) = 0 /\ balance >= Cost(r) /\ balance' >= 0 /\ Books(r, Cost(r), 0 - Cost(r), 0, 0)
  \/ Held(r) = Cost(r) /\ \E c \in 0 .. Cost(r) :
       Books(r, 0, Cost(r) - c, c, 0) \/ Books(r, 0, 0, c, Cost(r) - c)
  \/ Books(r, Held(r), 0 - Cost(r), 0, Cost(r))

\* Nobody else's hold or rollback is touched.
Others(r) ==
  \A s \in Requests \ {r} : Held(s)' = Held(s) /\ overdrawn'[s] = overdrawn[s]

LEMMA SumTypes ==
  ASSUME Inv
  PROVE  /\ \A r \in Requests : Cost(r) \in Nat
         /\ held \in [Requests -> Nat] /\ SumFunction(held) \in Nat
         /\ overdrawn \in [Requests -> Nat] /\ SumFunction(overdrawn) \in Nat
<1>1. \A r \in Requests : Cost(r) \in Nat
  BY CreditsAssumption DEF Inv, Types, Cost
<1>2. held \in [Requests -> Nat] /\ overdrawn \in [Requests -> Nat]
  BY <1>1 DEF held, Held, overdrawn
<1> QED BY <1>1, <1>2, RequestsAssumption, SumType

\* The sums follow a step of r.
LEMMA StepSums ==
  ASSUME Inv, Inv', NEW r \in Requests, Others(r)
  PROVE  /\ SumFunction(held)' = SumFunction(held) - Held(r) + Held(r)'
         /\ SumFunction(overdrawn)' = SumFunction(overdrawn) - overdrawn[r] + overdrawn'[r]
         /\ held' = [held EXCEPT ![r] = Held(r)']
<1>1. /\ held \in [Requests -> Nat] /\ overdrawn \in [Requests -> Nat]
      /\ held' \in [Requests -> Nat] /\ overdrawn' \in [Requests -> Nat]
  <2>1. (held \in [Requests -> Nat] /\ overdrawn \in [Requests -> Nat])'
    BY SumTypes, PTL
  <2> QED BY <2>1, SumTypes
<1>2. \A s \in Requests : held[s] = Held(s) /\ held'[s] = Held(s)'
  BY DEF held
<1>3. /\ \A s \in Requests \ {r} : held'[s] = held[s]
      /\ \A s \in Requests \ {r} : overdrawn'[s] = overdrawn[s]
  BY <1>2 DEF Others
<1>4. SumFunction(held') = SumFunction(held) - held[r] + held'[r]
  BY <1>1, <1>3, RequestsAssumption, SumChange
<1>5. SumFunction(overdrawn') = SumFunction(overdrawn) - overdrawn[r] + overdrawn'[r]
  BY <1>1, <1>3, RequestsAssumption, SumChange
<1>6. held' = [held EXCEPT ![r] = held'[r]]
  BY <1>1, <1>3
<1> QED BY <1>2, <1>4, <1>5, <1>6

\* What the step does to the pool as a whole.
LEMMA PoolStep ==
  ASSUME Inv, Inv', Ledger, NEW r \in Requests, Others(r), balance' \in Int,
         NEW h, NEW p \in Int, NEW s, NEW l, Books(r, h, p, s, l)
  PROVE  /\ Pool \in Int /\ Pool' = Pool + p
         /\ SumFunction(held)' = SumFunction(held) - Held(r) + h
         /\ held' = [held EXCEPT ![r] = h] /\ held[r] = Held(r)
         /\ spent' = spent + s /\ lost' = lost + l
<1>1. /\ overdrawn[r] \in Nat /\ SumFunction(overdrawn) \in Nat
      /\ overdrawn'[r] \in Nat /\ SumFunction(overdrawn)' \in Nat
  <2>1. (overdrawn \in [Requests -> Nat] /\ SumFunction(overdrawn) \in Nat)'
    BY SumTypes, PTL
  <2> QED BY <2>1, SumTypes
<1>2. Pool' = balance' + SumFunction(overdrawn)'
  BY DEF Pool
<1>3. balance \in Int /\ Pool = balance + SumFunction(overdrawn)
  BY DEF Ledger, Pool
<1>4. SumFunction(overdrawn)' = SumFunction(overdrawn) - overdrawn[r] + overdrawn'[r]
  BY StepSums
<1>5. Pool \in Int /\ Pool' = Pool + p
  BY <1>1, <1>2, <1>3, <1>4 DEF Books
<1>6. held[r] = Held(r)
  BY DEF held
<1> QED BY <1>5, <1>6, StepSums DEF Books

\* A step that moves credits one of these ways keeps the ledger, and is a step
\* of the pool of credits or leaves it as it is.
LEMMA EffectKeeps ==
  ASSUME Inv, Inv', Ledger, NEW r \in Requests, Others(r), balance' \in Int, Effect(r)
  PROVE  /\ spent' \in Nat /\ lost' \in Nat
         /\ Pool' + lost' >= 0 /\ CreditsAccountedFor'
         /\ [Credits!Next]_(Credits!vars)
<1> DEFINE k == Cost(r)
<1>1. /\ k \in Nat /\ SumFunction(held) \in Nat /\ SumFunction(held)' \in Nat
      /\ Held(r) \in Nat /\ SumFunction(overdrawn) \in Nat /\ SumFunction(overdrawn)' \in Nat
  <2>1. (SumFunction(held) \in Nat /\ SumFunction(overdrawn) \in Nat)'
    BY SumTypes, PTL
  <2> QED BY <2>1, SumTypes DEF Held
<1>2. /\ balance \in Int /\ spent \in Nat /\ lost \in Nat /\ Pool \in Int /\ Initial \in Nat
      /\ Pool + lost >= 0 /\ Pool + SumFunction(held) + spent + lost = Initial
      /\ Pool = balance + SumFunction(overdrawn) /\ Pool' = balance' + SumFunction(overdrawn)'
  BY <1>1, CreditsAssumption DEF Ledger, CreditsAccountedFor, Pool
<1>3. Credits!vars = << Pool, held, spent >> /\ Credits!vars' = << Pool', held', spent' >>
  BY DEF Credits!vars
<1>4. CASE Books(r, Held(r), 0, 0, 0)
  <2>0. /\ Pool' = Pool + 0
        /\ SumFunction(held)' = SumFunction(held) - Held(r) + Held(r)
        /\ held' = [held EXCEPT ![r] = Held(r)] /\ held[r] = Held(r)
        /\ spent' = spent + 0 /\ lost' = lost + 0
    BY <1>1, <1>4, PoolStep
  <2>1. /\ Pool' = Pool /\ SumFunction(held)' = SumFunction(held)
        /\ held' = [held EXCEPT ![r] = held[r]] /\ spent' = spent /\ lost' = lost
    BY <1>1, <1>2, <2>0
  <2>2. held' = held
    BY <2>1 DEF held
  <2> QED BY <1>1, <1>2, <1>3, <2>1, <2>2 DEF CreditsAccountedFor
<1>5. CASE /\ Held(r) = 0 /\ balance >= k /\ balance' >= 0
           /\ Books(r, k, 0 - k, 0, 0)
  <2>1. /\ Pool' = Pool - k /\ SumFunction(held)' = SumFunction(held) + k
        /\ held' = [held EXCEPT ![r] = k] /\ held[r] = 0 /\ spent' = spent /\ lost' = lost
    BY <1>1, <1>2, <1>5, PoolStep
  <2>2. Pool' + lost' >= 0 /\ CreditsAccountedFor'
    BY <1>1, <1>2, <1>5, <2>1 DEF CreditsAccountedFor
  <2>3. CASE k = 0
    <3>1. held' = held /\ Pool' = Pool
      BY <1>2, <2>1, <2>3 DEF held
    <3> QED BY <1>2, <1>3, <2>1, <2>2, <3>1
  <2>4. CASE k # 0
    <3>1. k \in 1 .. Pool
      BY <1>1, <1>2, <1>5, <2>4
    <3>2. Credits!Reserve(r)
      BY <2>1, <3>1 DEF Credits!Reserve
    <3> QED BY <1>2, <2>1, <2>2, <3>2 DEF Credits!Next
  <2> QED BY <2>3, <2>4
<1>6. ASSUME NEW c \in 0 .. k, Held(r) = k,
             Books(r, 0, k - c, c, 0) \/ Books(r, 0, 0, c, k - c)
      PROVE  /\ spent' \in Nat /\ lost' \in Nat
             /\ Pool' + lost' >= 0 /\ CreditsAccountedFor'
             /\ [Credits!Next]_(Credits!vars)
  <2>0. c \in Nat /\ k - c \in Nat
    BY <1>1
  <2>1. /\ Pool' \in {Pool, Pool + k - c} /\ SumFunction(held)' = SumFunction(held) - k
        /\ held' = [held EXCEPT ![r] = 0] /\ held[r] = k /\ spent' = spent + c
        /\ Pool' + lost' = Pool + lost + k - c /\ lost' \in Nat
    <3>1. CASE Books(r, 0, k - c, c, 0)
      BY <1>1, <1>2, <1>6, <2>0, <3>1, PoolStep
    <3>2. CASE Books(r, 0, 0, c, k - c)
      BY <1>1, <1>2, <1>6, <2>0, <3>2, PoolStep
    <3> QED BY <1>6, <3>1, <3>2
  <2>2. Pool' + lost' >= 0 /\ CreditsAccountedFor' /\ spent' \in Nat
    <3>1. Pool' \in Int
      BY <1>1, <1>2, <2>0, <2>1
    <3>2. Pool' + lost' >= 0 /\ spent' \in Nat
      BY <1>1, <1>2, <2>0, <2>1, <3>1
    <3>3. Pool' + SumFunction(held)' + spent' + lost' = Initial
      BY <1>1, <1>2, <2>0, <2>1, <3>1
    <3> QED BY <3>2, <3>3 DEF CreditsAccountedFor
  <2>3. CASE k = 0
    <3>1. held' = held /\ Pool' = Pool /\ spent' = spent
      BY <1>2, <2>0, <2>1, <2>3 DEF held
    <3> QED BY <1>3, <2>1, <2>2, <3>1
  <2>4. CASE k # 0
    <3>1. held[r] > 0
      BY <1>1, <2>1, <2>4
    <3>2. Credits!Charge(r)
      BY <1>6, <2>1, <3>1 DEF Credits!Charge, Credits!End
    <3> QED BY <2>1, <2>2, <3>2 DEF Credits!Next
  <2> QED BY <2>3, <2>4
<1>7. CASE Books(r, Held(r), 0 - k, 0, k)
  <2>0. /\ Pool' = Pool + (0 - k)
        /\ SumFunction(held)' = SumFunction(held) - Held(r) + Held(r)
        /\ held' = [held EXCEPT ![r] = Held(r)] /\ held[r] = Held(r)
        /\ spent' = spent + 0 /\ lost' = lost + k
    BY <1>1, <1>7, PoolStep
  <2>1. /\ Pool' = Pool - k /\ SumFunction(held)' = SumFunction(held)
        /\ held' = [held EXCEPT ![r] = held[r]] /\ spent' = spent /\ lost' = lost + k
    BY <1>1, <1>2, <2>0
  <2>2. held' = held
    BY <2>1 DEF held
  <2>3. Pool' + lost' >= 0 /\ CreditsAccountedFor' /\ lost' \in Nat
    BY <1>1, <1>2, <2>1 DEF CreditsAccountedFor
  <2>4. CASE k = 0
    <3>1. Pool' = Pool
      BY <1>2, <2>1, <2>4
    <3> QED BY <1>2, <1>3, <2>1, <2>2, <2>3, <3>1
  <2>5. CASE k # 0
    <3>1. Pool' < Pool
      BY <1>1, <1>2, <2>1, <2>5
    <3>2. Credits!Shrink
      BY <2>1, <2>2, <3>1 DEF Credits!Shrink
    <3> QED BY <1>2, <2>1, <2>3, <3>2 DEF Credits!Next
  <2> QED BY <2>4, <2>5
<1> QED BY <1>4, <1>5, <1>6, <1>7 DEF Effect

-----------------------------------------------------------------------------
(* What each action does to the credits.                                    *)

HoldPCs == {"insert", "duplicate", "verify", "release"}

\* What r holds, by where it is and what has become of its job.
HeldAs(r) ==
  /\ r \in persisted /\ charges[r] + refunds[r] = 0 => Held(r) = Cost(r)
  /\ r \in persisted /\ charges[r] + refunds[r] # 0 => Held(r) = 0
  /\ r \notin persisted /\ pc[r] \in HoldPCs => Held(r) = Cost(r)
  /\ r \notin persisted /\ pc[r] \notin HoldPCs => Held(r) = 0

LEMMA HeldIs ==
  ASSUME NEW r \in Requests
  PROVE  HeldAs(r) /\ HeldAs(r)'
BY DEF HeldAs, Held, Holding, HoldPCs

\* A step of r leaves everybody else where they are.
Mine(r) ==
  /\ ask' = ask
  /\ \A s \in Requests \ {r} :
       /\ pc'[s] = pc[s] /\ (s \in persisted' <=> s \in persisted)
       /\ charges'[s] = charges[s] /\ refunds'[s] = refunds[s]

LEMMA MineOthers ==
  ASSUME NEW r \in Requests, Mine(r)
  PROVE  Others(r)
BY DEF Mine, Others, Held, Holding, overdrawn, Cost, At

\* A step of r as the ledger sees it.
Booked(r) == Mine(r) /\ balance' \in Int /\ Effect(r)

LEMMA Facts ==
  ASSUME Inv, Ledger, NEW r \in Requests
  PROVE  /\ pc \in [Requests -> PCs] /\ Sound(r, pc[r], answer[r], ask, persisted)
         /\ Cost(r) \in Nat /\ balance \in Int /\ spent \in Nat /\ lost \in Nat
         /\ charges[r] \in {0, 1} /\ refunds[r] \in {0, 1}
         /\ r \notin persisted => charges[r] + refunds[r] = 0
<1>1. Cost(r) \in Nat
  BY SumTypes
<1> QED BY <1>1 DEF Inv, Types, Ledger

\* Going from one point of the code to another without touching credits.
LEMMA QuietStep ==
  ASSUME Inv, Ledger, NEW r \in Requests, NEW l \in PCs \ {"overdrawn"},
         ask' = ask, UNCHANGED << money, charges, refunds >>,
         pc' = [pc EXCEPT ![r] = l], pc[r] # "overdrawn",
         \/ persisted' = persisted /\ (r \in persisted \/ (pc[r] \in HoldPCs <=> l \in HoldPCs))
         \/ persisted' = persisted \cup {r} /\ pc[r] \in HoldPCs
  PROVE  Booked(r)
<1>1. pc'[r] = l /\ \A s \in Requests \ {r} : pc'[s] = pc[s]
  BY Facts
<1>2. Mine(r)
  BY <1>1 DEF Mine
<1>3. Cost(r)' = Cost(r)
  BY DEF Cost
<1>4. Held(r)' = Held(r)
  BY <1>1, <1>3, HeldIs, Facts DEF HeldAs
<1>5. overdrawn'[r] = 0 /\ overdrawn[r] = 0
  BY <1>1 DEF overdrawn, At
<1>6. Books(r, Held(r), 0, 0, 0) /\ balance' \in Int
  BY <1>4, <1>5, Facts DEF Books, money
<1> QED BY <1>2, <1>6 DEF Booked, Effect

LEMMA BeforeBooks ==
  ASSUME Inv, Ledger, NEW r \in Requests, Before(r)
  PROVE  Booked(r)
<1>1. CASE Reject(r)
  BY <1>1, QuietStep DEF Reject, Finish, GoTo, At, jobs, PCs, HoldPCs
<1>2. CASE Lookup(r)
  <2>1. PICK l \in {"admit", "done"} : GoTo(r, l)
    BY <1>2 DEF Lookup
  <2> QED BY <1>2, <2>1, QuietStep DEF Lookup, GoTo, At, jobs, PCs, HoldPCs
<1>3. CASE Admit(r)
  <2>1. PICK l \in {"done", "insert", "hold"} : GoTo(r, l) /\ (l = "insert" => Cost(r) = 0)
    BY <1>3 DEF Admit, Finish
  <2>2. CASE l # "insert"
    BY <1>3, <2>1, <2>2, QuietStep DEF Admit, GoTo, At, jobs, PCs, HoldPCs
  <2>3. CASE l = "insert"
    <3>1. pc'[r] = "insert" /\ \A s \in Requests \ {r} : pc'[s] = pc[s]
      BY <2>1, <2>3, Facts DEF GoTo
    <3>2. UNCHANGED << ask, persisted, charges, refunds, balance, spent, lost >>
      BY <1>3 DEF Admit, jobs, money
    <3>3. Mine(r)
      BY <3>1, <3>2 DEF Mine
    <3>4. pc[r] = "admit" /\ r \notin persisted
      BY <1>3, Facts DEF Admit, At, Sound, JoblessPCs
    <3>5. Held(r) = 0 /\ Held(r)' = 0
      <4>1. Cost(r) = 0 /\ Cost(r)' = 0
        BY <2>1, <2>3, <3>2 DEF Cost
      <4> QED BY <4>1 DEF Held
    <3>6. overdrawn'[r] = 0 /\ overdrawn[r] = 0
      BY <3>1, <3>4 DEF overdrawn, At
    <3>7. Books(r, Held(r), 0, 0, 0) /\ balance' \in Int
      BY <3>2, <3>5, <3>6, Facts DEF Books
    <3> QED BY <3>3, <3>7 DEF Booked, Effect
  <2> QED BY <2>2, <2>3
<1> QED BY <1>1, <1>2, <1>3 DEF Before

\* A step of r that stays outside the engine and keeps the jobs there are.
LEMMA MoneyStep ==
  ASSUME Inv, Ledger, NEW r \in Requests, NEW l \in PCs,
         UNCHANGED << ask, persisted, jobs >>, pc' = [pc EXCEPT ![r] = l]
  PROVE  /\ Mine(r) /\ pc'[r] = l /\ Cost(r)' = Cost(r)
         /\ Held(r) = (IF r \in persisted
                         THEN IF charges[r] + refunds[r] = 0 THEN Cost(r) ELSE 0
                         ELSE IF pc[r] \in HoldPCs THEN Cost(r) ELSE 0)
         /\ Held(r)' = (IF r \in persisted THEN Held(r)
                         ELSE IF l \in HoldPCs THEN Cost(r) ELSE 0)
         /\ overdrawn[r] = (IF pc[r] = "overdrawn" THEN Cost(r) ELSE 0)
         /\ overdrawn'[r] = (IF l = "overdrawn" THEN Cost(r) ELSE 0)
<1>1. pc'[r] = l /\ \A s \in Requests \ {r} : pc'[s] = pc[s]
  BY Facts
<1>2. charges' = charges /\ refunds' = refunds
  BY DEF jobs
<1>3. Mine(r)
  BY <1>1, <1>2 DEF Mine
<1>4. Cost(r)' = Cost(r)
  BY DEF Cost
<1>5. /\ overdrawn[r] = (IF pc[r] = "overdrawn" THEN Cost(r) ELSE 0)
      /\ overdrawn'[r] = (IF l = "overdrawn" THEN Cost(r) ELSE 0)
  BY <1>1, <1>4 DEF overdrawn, At
<1>6. Held(r) = (IF r \in persisted
                   THEN IF charges[r] + refunds[r] = 0 THEN Cost(r) ELSE 0
                   ELSE IF pc[r] \in HoldPCs THEN Cost(r) ELSE 0)
  BY HeldIs DEF HeldAs
<1>7. Held(r)' = (IF r \in persisted THEN Held(r)
                   ELSE IF l \in HoldPCs THEN Cost(r) ELSE 0)
  BY <1>1, <1>2, <1>4, HeldIs DEF HeldAs
<1> QED BY <1>1, <1>3, <1>4, <1>5, <1>6, <1>7

LEMMA HoldBooks ==
  ASSUME Inv, Ledger, NEW r \in Requests, Hold(r)
  PROVE  Booked(r)
<1>1. pc[r] = "hold" /\ balance' = balance - Cost(r) /\ UNCHANGED << spent, lost >>
  BY DEF Hold, At
<1>2. r \notin persisted
  BY <1>1, Facts DEF Sound, JoblessPCs
<1>3. PICK l \in {"overdrawn", "insert"} :
        pc' = [pc EXCEPT ![r] = l] /\ (l = "insert" => ~(balance' < 0))
  BY DEF Hold, GoTo
<1>4. /\ Mine(r) /\ Held(r) = 0 /\ overdrawn[r] = 0
      /\ Held(r)' = (IF l = "insert" THEN Cost(r) ELSE 0)
      /\ overdrawn'[r] = (IF l = "overdrawn" THEN Cost(r) ELSE 0)
  BY <1>1, <1>2, <1>3, MoneyStep DEF Hold, PCs, HoldPCs
<1>5. Cost(r) \in Nat /\ balance \in Int /\ spent \in Nat /\ lost \in Nat /\ balance' \in Int
  BY <1>1, Facts
<1>6. CASE l = "insert"
  <2>1. balance' >= 0 /\ balance >= Cost(r)
    BY <1>1, <1>3, <1>5, <1>6
  <2>2. Books(r, Cost(r), 0 - Cost(r), 0, 0)
    BY <1>1, <1>4, <1>5, <1>6 DEF Books
  <2> QED BY <1>4, <1>5, <2>1, <2>2 DEF Booked, Effect
<1>7. CASE l = "overdrawn"
  <2>1. Books(r, 0, 0, 0, 0)
    BY <1>1, <1>4, <1>5, <1>7 DEF Books
  <2> QED BY <1>4, <1>5, <2>1 DEF Booked, Effect
<1> QED BY <1>3, <1>6, <1>7

\* Going on with as much in the hold, and credits of the pool kept or lost.
LEMMA PoolWrite ==
  ASSUME Inv, Ledger, NEW r \in Requests, Mine(r), Held(r)' = Held(r),
         NEW c \in {0, Cost(r)}, balance' \in Int, spent' = spent, lost' = lost + c,
         balance' + overdrawn'[r] = balance + overdrawn[r] - c
  PROVE  Booked(r)
<1>1. /\ Cost(r) \in Nat /\ balance \in Int /\ spent \in Nat /\ lost \in Nat
      /\ overdrawn[r] \in Nat
  BY Facts, SumTypes
<1>2. CASE c = 0
  <2>1. Books(r, Held(r), 0, 0, 0)
    BY <1>1, <1>2 DEF Books
  <2> QED BY <2>1 DEF Booked, Effect
<1>3. CASE c = Cost(r)
  <2>1. Books(r, Held(r), 0 - Cost(r), 0, Cost(r))
    BY <1>1, <1>3 DEF Books
  <2> QED BY <2>1 DEF Booked, Effect
<1> QED BY <1>2, <1>3

\* Ending a hold: c of it is charged, and the rest goes back or is lost.
LEMMA EndWrite ==
  ASSUME Inv, Ledger, NEW r \in Requests, Mine(r), Held(r) = Cost(r), Held(r)' = 0,
         overdrawn'[r] = overdrawn[r], NEW c \in 0 .. Cost(r), spent' = spent + c,
         \/ balance' = balance + Cost(r) - c /\ lost' = lost
         \/ balance' = balance /\ lost' = lost + Cost(r) - c
  PROVE  Booked(r)
<1>1. /\ Cost(r) \in Nat /\ balance \in Int /\ spent \in Nat /\ lost \in Nat
      /\ overdrawn[r] \in Nat
  BY Facts, SumTypes
<1>2. c \in Nat /\ balance' \in Int
  BY <1>1
<1>3. Books(r, 0, Cost(r) - c, c, 0) \/ Books(r, 0, 0, c, Cost(r) - c)
  BY <1>1, <1>2 DEF Books
<1> QED BY <1>2, <1>3 DEF Booked, Effect

LEMMA HoldFailsBooks ==
  ASSUME Inv, Ledger, NEW r \in Requests, HoldFails(r)
  PROVE  Booked(r)
<1>1. /\ pc[r] = "hold" /\ pc' = [pc EXCEPT ![r] = "done"]
      /\ spent' = spent /\ UNCHANGED << ask, persisted, jobs >>
  BY DEF HoldFails, At, Finish, GoTo
<1>2. r \notin persisted
  BY <1>1, Facts DEF Sound, JoblessPCs
<1>3. Mine(r) /\ Held(r)' = Held(r) /\ overdrawn[r] = 0 /\ overdrawn'[r] = 0
  BY <1>1, <1>2, MoneyStep DEF PCs, HoldPCs
<1>4. PICK c \in {0, Cost(r)} : balance' = balance - c /\ lost' = lost + (balance - balance')
  <2>1. balance - 0 = balance
    BY Facts
  <2> QED BY <2>1 DEF HoldFails
<1>5. balance' \in Int /\ lost' = lost + c
  BY <1>4, Facts
<1>6. balance' + overdrawn'[r] = balance + overdrawn[r] - c
  BY <1>3, <1>4, Facts
<1> QED BY <1>1, <1>3, <1>5, <1>6, PoolWrite

LEMMA RollbackBooks ==
  ASSUME Inv, Ledger, NEW r \in Requests, Rollback(r) \/ RollbackFails(r)
  PROVE  Booked(r)
<1>1. /\ pc[r] = "overdrawn" /\ pc' = [pc EXCEPT ![r] = "done"]
      /\ spent' = spent /\ UNCHANGED << ask, persisted, jobs >>
  BY DEF Rollback, RollbackFails, At, Finish, GoTo
<1>2. r \notin persisted
  BY <1>1, Facts DEF Sound, JoblessPCs
<1>3. Mine(r) /\ Held(r)' = Held(r) /\ overdrawn[r] = Cost(r) /\ overdrawn'[r] = 0
  BY <1>1, <1>2, MoneyStep DEF PCs, HoldPCs
<1>4. Cost(r) \in Nat /\ balance \in Int /\ lost \in Nat
  BY Facts
<1>5. PICK c \in {0, Cost(r)} : balance' = balance + Cost(r) - c /\ lost' = lost + c
  <2>1. balance + Cost(r) - 0 = balance + Cost(r) /\ balance + Cost(r) - Cost(r) = balance
        /\ lost + 0 = lost
    BY <1>4
  <2>2. CASE Rollback(r)
    BY <2>1, <2>2 DEF Rollback
  <2>3. CASE RollbackFails(r)
    <3>1. CASE balance' = balance + Cost(r)
      BY <1>4, <2>3, <3>1 DEF RollbackFails
    <3>2. CASE balance' = balance
      BY <1>4, <2>3, <3>2 DEF RollbackFails
    <3> QED BY <2>3, <3>1, <3>2 DEF RollbackFails
  <2> QED BY <2>2, <2>3
<1>6. balance' \in Int /\ balance' + overdrawn'[r] = balance + overdrawn[r] - c
  BY <1>3, <1>4, <1>5
<1> QED BY <1>1, <1>3, <1>5, <1>6, PoolWrite

LEMMA ReleaseBooks ==
  ASSUME Inv, Ledger, NEW r \in Requests, Release(r) \/ ReleaseFails(r)
  PROVE  Booked(r)
<1>1. /\ pc[r] = "release" /\ pc' = [pc EXCEPT ![r] = "done"]
      /\ spent' = spent /\ UNCHANGED << ask, persisted, jobs >>
  BY DEF Release, ReleaseFails, At, GoTo
<1>2. r \notin persisted
  BY <1>1, Facts DEF Sound, JoblessPCs
<1>3. /\ Mine(r) /\ Held(r) = Cost(r) /\ Held(r)' = 0
      /\ overdrawn'[r] = overdrawn[r]
  BY <1>1, <1>2, MoneyStep DEF PCs, HoldPCs
<1>4. Cost(r) \in Nat /\ balance \in Int /\ lost \in Nat /\ spent \in Nat
  BY Facts
<1>5. \/ balance' = balance + Cost(r) - 0 /\ lost' = lost
      \/ balance' = balance /\ lost' = lost + Cost(r) - 0
  <2>1. CASE Release(r)
    BY <1>4, <2>1 DEF Release
  <2>2. CASE ReleaseFails(r)
    <3>1. CASE balance' = balance + Cost(r)
      BY <1>4, <2>2, <3>1 DEF ReleaseFails
    <3>2. CASE balance' = balance
      BY <1>4, <2>2, <3>2 DEF ReleaseFails
    <3> QED BY <2>2, <3>1, <3>2 DEF ReleaseFails
  <2> QED BY <2>1, <2>2
<1>6. 0 \in 0 .. Cost(r) /\ spent' = spent + 0
  BY <1>1, <1>4
<1> QED BY <1>3, <1>5, <1>6, EndWrite

\* Stopping short: at the check of the insert, or anywhere in a crash.
LEMMA VerifyFailsBooks ==
  ASSUME Inv, Ledger, NEW r \in Requests, VerifyFails(r)
  PROVE  Booked(r)
<1>1. /\ pc[r] = "verify" /\ pc' = [pc EXCEPT ![r] = "done"]
      /\ UNCHANGED << ask, persisted, jobs >> /\ balance' = balance /\ spent' = spent
      /\ lost' = lost + IF r \in persisted THEN 0 ELSE Cost(r)
  BY DEF VerifyFails, At, Finish, GoTo
<1>2. Mine(r) /\ overdrawn[r] = 0 /\ overdrawn'[r] = 0
  BY <1>1, MoneyStep DEF PCs
<1>3. Cost(r) \in Nat /\ balance \in Int /\ lost \in Nat /\ spent \in Nat
  BY Facts
<1>4. CASE r \in persisted
  <2>1. Held(r)' = Held(r)
    BY <1>1, <1>4, MoneyStep DEF PCs
  <2>2. lost' = lost + 0 /\ balance' + overdrawn'[r] = balance + overdrawn[r] - 0
    BY <1>1, <1>2, <1>3, <1>4
  <2> QED BY <1>1, <1>2, <1>3, <2>1, <2>2, PoolWrite
<1>5. CASE r \notin persisted
  <2>1. Held(r) = Cost(r) /\ Held(r)' = 0
    BY <1>1, <1>5, MoneyStep DEF PCs, HoldPCs
  <2>2. /\ 0 \in 0 .. Cost(r) /\ spent' = spent + 0
        /\ lost' = lost + Cost(r) - 0
    BY <1>1, <1>3, <1>5
  <2> QED BY <1>1, <1>2, <2>1, <2>2, EndWrite
<1> QED BY <1>4, <1>5

LEMMA CrashBooks ==
  ASSUME Inv, Ledger, NEW r \in Requests, Crash(r)
  PROVE  Booked(r)
<1>1. /\ pc' = [pc EXCEPT ![r] = "done"]
      /\ UNCHANGED << ask, persisted, jobs >> /\ balance' = balance /\ spent' = spent
      /\ lost' = lost + IF Holding(r) \/ pc[r] = "overdrawn" THEN Cost(r) ELSE 0
  BY DEF Crash, At, GoTo
<1>2. Mine(r) /\ overdrawn'[r] = 0
  BY <1>1, MoneyStep DEF PCs
<1>3. Cost(r) \in Nat /\ balance \in Int /\ lost \in Nat /\ spent \in Nat
  BY Facts
<1>4. CASE Holding(r)
  <2>1. r \notin persisted /\ pc[r] \in HoldPCs /\ pc[r] # "overdrawn"
    BY <1>4 DEF Holding, HoldPCs
  <2>2. Held(r) = Cost(r) /\ Held(r)' = 0 /\ overdrawn[r] = 0
    BY <1>1, <2>1, MoneyStep DEF PCs, HoldPCs
  <2>3. /\ 0 \in 0 .. Cost(r) /\ spent' = spent + 0
        /\ lost' = lost + Cost(r) - 0
    BY <1>1, <1>3, <1>4
  <2> QED BY <1>1, <1>2, <2>2, <2>3, EndWrite
<1>5. CASE pc[r] = "overdrawn"
  <2>1. r \notin persisted
    BY <1>5, Facts DEF Sound, JoblessPCs
  <2>2. Held(r)' = Held(r) /\ overdrawn[r] = Cost(r)
    BY <1>1, <1>5, <2>1, MoneyStep DEF PCs, HoldPCs
  <2>3. lost' = lost + Cost(r) /\ balance' + overdrawn'[r] = balance + overdrawn[r] - Cost(r)
    BY <1>1, <1>2, <1>3, <1>5, <2>2
  <2> QED BY <1>1, <1>2, <1>3, <2>2, <2>3, PoolWrite
<1>6. CASE ~Holding(r) /\ pc[r] # "overdrawn"
  <2>1. r \in persisted \/ pc[r] \notin HoldPCs
    BY <1>6 DEF Holding, HoldPCs
  <2>2. Held(r)' = Held(r) /\ overdrawn[r] = 0
    BY <1>1, <1>6, <2>1, MoneyStep DEF PCs, HoldPCs
  <2>3. lost' = lost + 0 /\ balance' + overdrawn'[r] = balance + overdrawn[r] - 0
    BY <1>1, <1>2, <1>3, <1>6, <2>2
  <2> QED BY <1>1, <1>2, <1>3, <2>2, <2>3, PoolWrite
<1> QED BY <1>4, <1>5, <1>6

LEMMA PersistBooks ==
  ASSUME Inv, Ledger, NEW r \in Requests, Persist(r)
  PROVE  Booked(r)
<1> USE DEF GoTo, At, PCs, HoldPCs, jobs
<1>1. CASE Insert(r) \/ InsertFails(r)
  <2>1. PICK l \in {"enqueue", "verify", "duplicate"} :
          /\ GoTo(r, l)
          /\ \/ persisted' = persisted \cup {r}
             \/ persisted' = persisted /\ l # "enqueue"
    BY <1>1 DEF Insert, InsertFails
  <2>2. pc[r] = "insert" /\ UNCHANGED << ask, money, charges, refunds >>
    BY <1>1 DEF Insert, InsertFails
  <2> QED BY <2>1, <2>2, QuietStep
<1>2. CASE FindHolder(r) \/ FindHolderFails(r) \/ Verify(r)
  <2>1. PICK l \in {"enqueue", "release", "verify"} :
          GoTo(r, l) /\ (l = "enqueue" => r \in persisted)
    BY <1>2 DEF FindHolder, FindHolderFails, Verify, KeyHolders
  <2>2. /\ pc[r] \in {"duplicate", "verify"} /\ persisted' = persisted
        /\ UNCHANGED << ask, money, charges, refunds >>
    BY <1>2 DEF FindHolder, FindHolderFails, Verify
  <2> QED BY <2>1, <2>2, QuietStep
<1>3. CASE Enqueue(r) \/ EnqueueFails(r) \/ FailBeforeStart(r) \/ FailBeforeStartFails(r)
  <2>1. PICK l \in {"done", "unqueued"} : GoTo(r, l)
    BY <1>3 DEF Enqueue, EnqueueFails, FailBeforeStart, FailBeforeStartFails, Finish
  <2>2. /\ pc[r] \in {"enqueue", "unqueued"} /\ persisted' = persisted
        /\ UNCHANGED << ask, money, charges, refunds >>
    BY <1>3 DEF Enqueue, EnqueueFails, FailBeforeStart, FailBeforeStartFails
  <2> QED BY <2>1, <2>2, QuietStep
<1> QED BY <1>1, <1>2, <1>3, VerifyFailsBooks, ReleaseBooks DEF Persist

\* The settlement of a job: the one write that ends what the job holds.
LEMMA SettlementStep ==
  ASSUME Inv, Ledger, NEW r \in Requests, r \in persisted,
         UNCHANGED << ask, pc, persisted >>, Engine!Charge(r) \/ Engine!Refund(r)
  PROVE  /\ Mine(r) /\ Held(r) = Cost(r) /\ Held(r)' = 0
         /\ overdrawn'[r] = overdrawn[r]
<1>1. charges[r] + refunds[r] = 0
  BY DEF Engine!Charge, Engine!Refund
<1>2. /\ charges'[r] + refunds'[r] # 0
      /\ \A s \in Requests \ {r} : charges'[s] = charges[s] /\ refunds'[s] = refunds[s]
  BY <1>1, Facts DEF Engine!Charge, Engine!Refund, Ledger
<1>3. Mine(r)
  BY <1>2 DEF Mine
<1>4. Held(r) = Cost(r) /\ Held(r)' = 0
  BY <1>1, <1>2, HeldIs DEF HeldAs
<1> QED BY <1>3, <1>4 DEF overdrawn, At, Cost

LEMMA LifeBooks ==
  ASSUME Inv, Ledger, NEW r \in Requests, Life(r)
  PROVE  Booked(r)
<1>1. Cost(r) \in Nat /\ balance \in Int /\ lost \in Nat /\ spent \in Nat
  BY Facts
<1>2. CASE Advance(r)
  <2>1. UNCHANGED << ask, pc, persisted, charges, refunds, money >>
    BY <1>2 DEF Advance, Engine!Move, Engine!AcceptCancel
  <2>2. Mine(r) /\ Held(r)' = Held(r) /\ overdrawn' = overdrawn
    BY <2>1 DEF Mine, Held, Holding, overdrawn, At, Cost
  <2>3. balance' \in Int /\ spent' = spent /\ lost' = lost + 0
        /\ balance' + overdrawn'[r] = balance + overdrawn[r] - 0
    <3>1. overdrawn[r] \in Nat
      BY SumTypes
    <3> QED BY <1>1, <2>1, <2>2, <3>1 DEF money
  <2> QED BY <2>2, <2>3, PoolWrite
<1>3. ASSUME NEW c \in 0 .. Cost(r), spent' = spent + c, r \in persisted,
             UNCHANGED << ask, pc, persisted >>, Engine!Charge(r) \/ Engine!Refund(r),
             \/ balance' = balance + Cost(r) - c /\ lost' = lost
             \/ balance' = balance /\ lost' = lost + Cost(r) - c
      PROVE  Booked(r)
  <2>1. /\ Mine(r) /\ Held(r) = Cost(r) /\ Held(r)' = 0
        /\ overdrawn'[r] = overdrawn[r]
    BY <1>3, SettlementStep
  <2> QED BY <1>3, <2>1, EndWrite
<1>4. CASE Refund(r)
  <2>1. 0 \in 0 .. Cost(r) /\ spent' = spent + 0 /\ balance' = balance + Cost(r) - 0
        /\ lost' = lost
    BY <1>1, <1>4 DEF Refund
  <2> QED BY <1>3, <1>4, <2>1 DEF Refund
<1>5. CASE Settle(r)
  BY <1>3, <1>5 DEF Settle
<1>6. CASE SettleFails(r)
  <2>1. PICK c \in 0 .. Cost(r) - 1 : spent' = spent + c /\ lost' = lost + Cost(r) - c
    BY <1>6 DEF SettleFails
  <2>2. c \in 0 .. Cost(r)
    BY <1>1
  <2> QED BY <1>3, <1>6, <2>1, <2>2 DEF SettleFails
<1> QED BY <1>2, <1>4, <1>5, <1>6 DEF Life

-----------------------------------------------------------------------------
(* The ledger holds.                                                        *)

\* The settlements, and the calls that fail.
LEMMA TallyStep ==
  ASSUME Inv, Ledger, [Next]_vars
  PROVE  /\ charges' \in [Requests -> {0, 1}] /\ refunds' \in [Requests -> {0, 1}]
         /\ \A r \in Requests \ persisted' : charges'[r] = 0 /\ refunds'[r] = 0
         /\ faults' \in 0 .. MaxFaults
<1>1. faults' = faults \/ Fault
  BY DEF Next, vars, Before, Reject, Lookup, Admit, TakeHold, Hold, HoldFails, Rollback,
         RollbackFails, Persist, Insert, InsertFails, FindHolder, FindHolderFails, Verify,
         VerifyFails, Release, ReleaseFails, Enqueue, EnqueueFails, FailBeforeStart,
         FailBeforeStartFails, Life, Advance, Refund, Settle, SettleFails, Crash
<1>2. faults' \in 0 .. MaxFaults
  BY <1>1, CreditsAssumption DEF Fault, Ledger
<1>3. \/ UNCHANGED << charges, refunds >>
      \/ \E r \in persisted : charges' = [charges EXCEPT ![r] = 1] /\ refunds' = refunds
      \/ \E r \in persisted : refunds' = [refunds EXCEPT ![r] = 1] /\ charges' = charges
  <2>1. CASE UNCHANGED vars
    BY <2>1 DEF vars, jobs
  <2>2. ASSUME NEW r \in Requests, Before(r) \/ TakeHold(r) \/ Persist(r) \/ Crash(r)
        PROVE  UNCHANGED << charges, refunds >>
    BY <2>2 DEF Before, Reject, Lookup, Admit, TakeHold, Hold, HoldFails, Rollback,
         RollbackFails, Persist, Insert, InsertFails, FindHolder, FindHolderFails, Verify,
         VerifyFails, Release, ReleaseFails, Enqueue, EnqueueFails, FailBeforeStart,
         FailBeforeStartFails, Crash, jobs
  <2>3. ASSUME NEW r \in Requests, Life(r)
        PROVE  \/ UNCHANGED << charges, refunds >>
               \/ r \in persisted /\ charges' = [charges EXCEPT ![r] = 1] /\ refunds' = refunds
               \/ r \in persisted /\ refunds' = [refunds EXCEPT ![r] = 1] /\ charges' = charges
    BY <2>3 DEF Life, Advance, Refund, Settle, SettleFails, Engine!Move,
         Engine!AcceptCancel, Engine!Charge, Engine!Refund
  <2> QED BY <2>1, <2>2, <2>3 DEF Next
<1>4. persisted \subseteq persisted'
  BY DEF Next, vars, Before, Reject, Lookup, Admit, TakeHold, Hold, HoldFails, Rollback,
         RollbackFails, Persist, Insert, InsertFails, FindHolder, FindHolderFails, Verify,
         VerifyFails, Release, ReleaseFails, Enqueue, EnqueueFails, FailBeforeStart,
         FailBeforeStartFails, Life, Advance, Refund, Settle, SettleFails, Crash
<1>5. charges' \in [Requests -> {0, 1}] /\ refunds' \in [Requests -> {0, 1}]
  BY <1>3 DEF Ledger
<1>6. \A r \in Requests \ persisted' : charges'[r] = 0 /\ refunds'[r] = 0
  BY <1>3, <1>4 DEF Ledger
<1> QED BY <1>2, <1>5, <1>6

LEMMA LedgerInit == Init => Ledger /\ Credits!Init
<1> SUFFICES ASSUME Init PROVE Ledger /\ Credits!Init
  OBVIOUS
<1>1. held = [r \in Requests |-> 0] /\ overdrawn = [r \in Requests |-> 0]
  BY DEF Init, held, Held, Holding, overdrawn, At
<1>2. SumFunction(held) = 0 /\ SumFunction(overdrawn) = 0
  BY <1>1, SumZero, RequestsAssumption
<1>3. Initial \in Nat /\ balance = Initial /\ spent = 0 /\ lost = 0 /\ Pool = Initial
  BY <1>2, CreditsAssumption DEF Init, Pool
<1>4. Pool + lost >= 0 /\ CreditsAccountedFor
  BY <1>2, <1>3 DEF CreditsAccountedFor
<1>5. Ledger
  BY <1>3, <1>4, CreditsAssumption DEF Ledger, Init, Engine!Init
<1> QED BY <1>1, <1>3, <1>5 DEF Credits!Init

LEMMA LedgerNext ==
  ASSUME Inv, Ledger, [Next]_vars
  PROVE  Ledger' /\ [Credits!Next]_(Credits!vars)
<1>1. Inv'
  BY InvNext
<1>2. CASE UNCHANGED vars
  <2>1. UNCHANGED << held, overdrawn, balance, spent, lost, faults, charges, refunds, persisted >>
    BY <1>2 DEF vars, jobs, money, held, Held, Holding, overdrawn, At, Cost
  <2>2. UNCHANGED Pool
    BY <2>1 DEF Pool
  <2> QED BY <2>1, <2>2 DEF Ledger, CreditsAccountedFor, Credits!vars
<1>3. ASSUME NEW r \in Requests,
             Before(r) \/ TakeHold(r) \/ Persist(r) \/ Life(r) \/ Crash(r)
      PROVE  Ledger' /\ [Credits!Next]_(Credits!vars)
  <2>1. Booked(r)
    BY <1>3, BeforeBooks, HoldBooks, HoldFailsBooks, RollbackBooks, PersistBooks, LifeBooks,
       CrashBooks DEF TakeHold
  <2>2. Others(r) /\ balance' \in Int /\ Effect(r)
    BY <2>1, MineOthers DEF Booked
  <2>3. /\ spent' \in Nat /\ lost' \in Nat /\ Pool' + lost' >= 0 /\ CreditsAccountedFor'
        /\ [Credits!Next]_(Credits!vars)
    BY <1>1, <2>2, EffectKeeps
  <2> QED BY <2>2, <2>3, TallyStep DEF Ledger
<1> QED BY <1>2, <1>3 DEF Next

LEMMA LedgerHolds == Spec => [](Inv /\ Ledger)
<1>1. Init => Inv /\ Ledger
  BY InvInit, LedgerInit
<1>2. Inv /\ Ledger /\ [Next]_vars => (Inv /\ Ledger)'
  BY InvNext, LedgerNext
<1> QED BY <1>1, <1>2, PTL DEF Spec

\* Every credit is in the balance, in one hold, charged or lost to a call that
\* failed (createJob.ts:142-229, creditHold.ts:117-215).
THEOREM NoCreditsMade == Spec => []CreditsAccountedFor
<1>1. Ledger => CreditsAccountedFor
  BY DEF Ledger
<1> QED BY <1>1, LedgerHolds, PTL

\* The variables of job creation keep their types; in particular the owner is
\* never charged more credits than there were.
THEOREM CreationTypes == Spec => []TypeOK
<1>1. ASSUME Inv, Ledger PROVE TypeOK
  <2>1. SumFunction(held) \in Nat
    BY <1>1, SumTypes
  <2>2. Pool \in Int
    <3>1. SumFunction(overdrawn) \in Nat
      BY <1>1, SumTypes
    <3> QED BY <1>1, <3>1 DEF Ledger, Pool
  <2>3. spent \in 0 .. Initial
    BY <1>1, <2>1, <2>2, CreditsAssumption DEF Ledger, CreditsAccountedFor
  <2> QED BY <1>1, <2>3 DEF Inv, Types, Answers, Ledger, TypeOK
<1> QED BY <1>1, LedgerHolds, PTL

\* Decrementing first and rolling back an overdraft reserves credits as an
\* atomic reservation would (holdCredits, creditHold.ts:117-152).
THEOREM HoldsReserve == Spec => KeepsCredits
<1>1. Init => Credits!Init
  BY LedgerInit
<1>2. Inv /\ Ledger /\ [Next]_vars => [Credits!Next]_(Credits!vars)
  BY LedgerNext
<1> QED BY <1>1, <1>2, LedgerHolds, PTL DEF Spec, KeepsCredits, Credits!Spec
=============================================================================
