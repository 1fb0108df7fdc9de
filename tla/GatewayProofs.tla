--------------------------- MODULE GatewayProofs ----------------------------
(***************************************************************************)
(* Proofs about the replicas of the gateway, for any number of replicas,   *)
(* webhook configurations and disturbances: types are kept, and replicas   *)
(* that start together come to serve the one bundle of the Secret.         *)
(***************************************************************************)
EXTENDS Gateway, FiniteSetTheorems, TLAPS

Held   == Bundles \cup {None}
Stored == Bundles \cup {None, Stray}
Bools  == [Replicas -> BOOLEAN]
Labels == Starting \cup Passing \cup {"down", "idle", "gone"}

(* The values of a function on a finite set are at most as many.           *)
LEMMA ImageBound ==
    ASSUME NEW S, IsFiniteSet(S), NEW f
    PROVE  /\ IsFiniteSet({f[x] : x \in S})
           /\ Cardinality({f[x] : x \in S}) <= Cardinality(S)
  <1> DEFINE T == {f[x] : x \in S}
             g == [x \in S |-> f[x]]
  <1>1. g \in Surjection(S, T)
    BY DEF Surjection
  <1> QED
    BY <1>1, FS_Surjection

(* Every webhook configuration has a place in a pass.                      *)
LEMMA HookNamesFinite ==
    /\ Len(Hooks) \in Nat
    /\ IsFiniteSet(HookNames) /\ Cardinality(HookNames) <= Len(Hooks)
    /\ Cardinality(HookNames) \in Nat
  <1>1. Len(Hooks) \in Nat /\ DOMAIN Hooks = 1 .. Len(Hooks)
    BY GatewayAssumption
  <1>2. /\ IsFiniteSet(1 .. Len(Hooks))
        /\ Cardinality(1 .. Len(Hooks)) <= Len(Hooks)
    BY <1>1, FS_Interval
  <1>3. HookNames = {Hooks[x] : x \in 1 .. Len(Hooks)}
    BY <1>1 DEF HookNames
  <1>4. IsFiniteSet(HookNames)
        /\ Cardinality(HookNames) <= Cardinality(1 .. Len(Hooks))
    BY <1>2, <1>3, ImageBound
  <1> QED
    BY <1>1, <1>2, <1>4, FS_CardinalityType

(* The union of two finite sets is no larger than both together.           *)
LEMMA UnionBound ==
    ASSUME NEW S, NEW T, IsFiniteSet(S), IsFiniteSet(T),
           NEW m \in Nat, NEW n \in Nat,
           Cardinality(S) <= m, Cardinality(T) <= n
    PROVE  IsFiniteSet(S \cup T) /\ Cardinality(S \cup T) <= m + n
  <1>1. /\ Cardinality(S) \in Nat /\ Cardinality(T) \in Nat
        /\ IsFiniteSet(S \cap T)
    BY FS_CardinalityType, FS_Intersection
  <1>2. Cardinality(S \cap T) \in Nat
    BY <1>1, FS_CardinalityType
  <1>3. /\ IsFiniteSet(S \cup T)
        /\ Cardinality(S \cup T) =
              Cardinality(S) + Cardinality(T) - Cardinality(S \cap T)
    BY FS_Union
  <1> QED
    BY <1>1, <1>2, <1>3

(* There always is a bundle that nobody holds: GenerateClusterBundle makes *)
(* a new one.                                                              *)
LEMMA NewBundleIsNew == NewBundle \in Bundles /\ NewBundle \notin Known
  <1> DEFINE K == {secret, crd}
             C == {conf[h] : h \in HookNames}
             S == {serving[r] : r \in Replicas}
             M == {mem[r] : r \in Replicas}
             c == Cardinality(Replicas)
             n == Len(Hooks)
  <1>1. c \in Nat /\ n \in Nat
    BY BundlesAssumption, HookNamesFinite, FS_CardinalityType
  <1>2. IsFiniteSet(K) /\ Cardinality(K) <= 2
    <2>1. IsFiniteSet({secret}) /\ Cardinality({secret}) = 1
      BY FS_Singleton
    <2>2. K = {secret} \cup {crd}
      OBVIOUS
    <2> QED
      BY <2>1, <2>2, FS_AddElement
  <1>3. IsFiniteSet(C) /\ Cardinality(C) <= n
    <2>1. IsFiniteSet(C) /\ Cardinality(C) <= Cardinality(HookNames)
      BY HookNamesFinite, ImageBound
    <2> QED
      BY <2>1, HookNamesFinite, FS_CardinalityType
  <1>4. IsFiniteSet(S) /\ Cardinality(S) <= c
    BY BundlesAssumption, ImageBound
  <1>5. IsFiniteSet(M) /\ Cardinality(M) <= c
    BY BundlesAssumption, ImageBound
  <1> HIDE DEF K, C, S, M, c, n
  <1>6. IsFiniteSet(K \cup C) /\ Cardinality(K \cup C) <= 2 + n
    BY <1>1, <1>2, <1>3, UnionBound
  <1>7. IsFiniteSet(S \cup M) /\ Cardinality(S \cup M) <= c + c
    BY <1>1, <1>4, <1>5, UnionBound
  <1>8. IsFiniteSet((K \cup C) \cup (S \cup M))
        /\ Cardinality((K \cup C) \cup (S \cup M)) <= (2 + n) + (c + c)
    <2>1. 2 + n \in Nat /\ c + c \in Nat
      BY <1>1
    <2> QED
      BY <1>6, <1>7, <2>1, UnionBound
  <1>9. Known = (K \cup C) \cup (S \cup M)
    BY DEF Known, K, C, S, M
  <1>10. \E b \in Bundles : b \notin Known
    <2> SUFFICES ASSUME Bundles \subseteq Known PROVE FALSE
      OBVIOUS
    <2>1. Cardinality(Bundles) <= Cardinality(Known)
      BY <1>8, <1>9, FS_Subset
    <2>2. Cardinality(Bundles) \in Nat /\ Cardinality(Known) \in Nat
      BY <1>8, <1>9, BundlesAssumption, FS_CardinalityType
    <2> QED
      BY <1>1, <1>8, <1>9, <2>1, <2>2, BundlesAssumption DEF c, n
  <1> QED
    BY <1>10 DEF NewBundle

-----------------------------------------------------------------------------
(* The helpers of the actions keep the types: the trigger of a watch,      *)
LEMMA NotifyType ==
    ASSUME TypeOK, NEW happened, Notify(happened)
    PROVE  trigger' \in Bools
  <1>1. [r \in Replicas |-> trigger[r] \/ Up(r)] \in Bools
    BY DEF Bools
  <1> QED
    BY <1>1 DEF TypeOK, Notify, Bools

(* a write to a webhook configuration,                                     *)
LEMMA SetConfType ==
    ASSUME TypeOK, NEW h, NEW value \in Stored, NEW writer,
           SetConf(h, value, writer)
    PROVE  conf' \in [HookNames -> Stored] /\ stale' \in Bools
  <1>1. conf' \in [HookNames -> Stored]
    BY DEF TypeOK, SetConf, Stored
  <1>2. stale' \in Bools
    BY DEF SetConf, Bools
  <1> QED
    BY <1>1, <1>2

(* a Get of one,                                                           *)
LEMMA RereadType ==
    ASSUME TypeOK, NEW r \in Replicas, Reread(r)
    PROVE  stale' \in Bools
  BY DEF TypeOK, Reread, Bools

(* the end of a process,                                                   *)
LEMMA DieType ==
    ASSUME TypeOK, NEW r \in Replicas, Die(r)
    PROVE  /\ pc' \in [Replicas -> Labels]
           /\ trigger' \in Bools
           /\ clean' \in [Replicas -> 0 .. Cleaned]
           /\ at' \in [Replicas -> 1 .. Len(Hooks) + 1]
           /\ serving' \in [Replicas -> Held] /\ mem' \in [Replicas -> Held]
  <1>1. 0 \in 0 .. Cleaned /\ 1 \in 1 .. Len(Hooks) + 1
    BY HookNamesFinite DEF Cleaned
  <1>2. pc' \in [Replicas -> Labels]
    BY DEF TypeOK, Die, Goto, Labels
  <1>3. trigger' \in Bools
    BY DEF TypeOK, Die, Bools
  <1>4. clean' \in [Replicas -> 0 .. Cleaned]
        /\ at' \in [Replicas -> 1 .. Len(Hooks) + 1]
    BY <1>1 DEF TypeOK, Die
  <1>5. serving' \in [Replicas -> Held] /\ mem' \in [Replicas -> Held]
    BY DEF TypeOK, Die, Held
  <1> QED
    BY <1>2, <1>3, <1>4, <1>5

(* the step of a pass to its next configuration,                           *)
LEMMA HookDoneType ==
    ASSUME TypeOK, NEW r \in Replicas, NEW ok, HookDone(r, ok)
    PROVE  /\ pc' \in [Replicas -> Labels]
           /\ at' \in [Replicas -> 1 .. Len(Hooks) + 1]
  <1> DEFINE i == NextHook(at[r], ok)
  <1>1. at[r] \in 1 .. Len(Hooks) + 1 /\ Len(Hooks) \in Nat
    BY HookNamesFinite DEF TypeOK
  <1>2. i \in Nat /\ i >= 1
    BY <1>1 DEF NextHook
  <1>3. pc' \in [Replicas -> Labels]
    BY DEF TypeOK, HookDone, Goto, Labels, Passing
  <1>4. at' \in [Replicas -> 1 .. Len(Hooks) + 1]
    <2> HIDE DEF i
    <2>1. i <= Len(Hooks) => i \in 1 .. Len(Hooks) + 1
      BY <1>1, <1>2
    <2>2. \/ i <= Len(Hooks) /\ at' = [at EXCEPT ![r] = i]
          \/ at' = [at EXCEPT ![r] = 1]
      BY DEF HookDone, i
    <2>3. at \in [Replicas -> 1 .. Len(Hooks) + 1]
          /\ 1 \in 1 .. Len(Hooks) + 1
      BY <1>1 DEF TypeOK
    <2> QED
      BY <2>1, <2>2, <2>3
  <1> QED
    BY <1>3, <1>4

(* and the count of what the environment does.                             *)
LEMMA DisturbType ==
    ASSUME TypeOK, Disturb
    PROVE  acts' \in 0 .. MaxDisturbances
  BY GatewayAssumption DEF TypeOK, Disturb

(* A variable at a time.                                                   *)
TypeParts ==
    /\ secret \in Stored /\ conf \in [HookNames -> Stored] /\ crd \in Held
    /\ due \subseteq Bundles
    /\ pc \in [Replicas -> Labels]
    /\ at \in [Replicas -> 1 .. Len(Hooks) + 1]
    /\ clean \in [Replicas -> 0 .. Cleaned]
    /\ serving \in [Replicas -> Held] /\ mem \in [Replicas -> Held]
    /\ stale \in Bools /\ trigger \in Bools
    /\ calm \in BOOLEAN
    /\ acts \in 0 .. MaxDisturbances

(* The type invariant is the conjunction of these.                         *)
LEMMA SameTypes == (TypeOK <=> TypeParts) /\ (TypeOK' <=> TypeParts')
  BY DEF TypeOK, TypeParts, Stored, Held, Bools, Labels

(* The start of a replica keeps the types.                                 *)
LEMMA StartUpType ==
    ASSUME TypeOK, NEW r \in Replicas, StartUp(r) PROVE TypeOK'
  <1> SUFFICES TypeParts'
    BY SameTypes
  <1>0. TypeParts
    BY SameTypes
  <1> USE <1>0 DEF TypeParts, cluster, own
  <1>1. CASE Launch(r)
    BY <1>1 DEF Launch, Goto, Labels, Starting
  <1>2. CASE EnsureCertificate(r)
    BY <1>2 DEF EnsureCertificate, Adopt, Goto, Labels, Starting, Held
  <1>3. CASE Discard(r)
    <2>1. trigger' \in Bools
      BY <1>3, NotifyType DEF Discard
    <2>2. pc' \in [Replicas -> Labels] /\ secret' \in Stored
      BY <1>3 DEF Discard, Goto, Labels, Starting, Stored
    <2>3. calm' \in BOOLEAN
      BY <1>3 DEF Discard
    <2> QED
      BY <1>3, <2>1, <2>2, <2>3 DEF Discard
  <1>4. CASE CreateSecret(r)
    <2>1. CASE secret = None
      BY <1>4, <2>1, NewBundleIsNew
      DEF CreateSecret, Store, Adopt, Goto, Labels, Starting, Held, Stored
    <2>2. CASE secret # None
      BY <1>4, <2>2, DieType DEF CreateSecret
    <2> QED
      BY <2>1, <2>2
  <1>5. CASE PatchAtStart(r)
    <2>1. trigger' \in Bools
      BY <1>5, NotifyType DEF PatchAtStart, PatchCRD
    <2> QED
      BY <1>5, <2>1 DEF PatchAtStart, PatchCRD, Goto, Labels, Passing
  <1> QED
    BY <1>1, <1>2, <1>3, <1>4, <1>5 DEF StartUp

(* The housekeeper and its pass keep the types.                            *)
LEMMA HousekeeperType ==
    ASSUME TypeOK, NEW r \in Replicas, Housekeeper(r) PROVE TypeOK'
  <1> SUFFICES TypeParts'
    BY SameTypes
  <1>0. TypeParts
    BY SameTypes
  <1> USE <1>0 DEF TypeParts, cluster, own
  <1>1. CASE Wake(r)
    <2>1. trigger' \in Bools
      BY <1>1 DEF Wake, Bools
    <2> QED
      BY <1>1, <2>1 DEF Wake, Goto, Labels, Passing
  <1>2. CASE Tick(r) \/ HousekeeperStops(r)
    BY <1>2 DEF Tick, HousekeeperStops, Goto, Labels, Passing
  <1>3. CASE ReconcileCertSecret(r)
    <2>1. pc' \in [Replicas -> Labels]
      BY <1>3 DEF ReconcileCertSecret, Goto, Labels, Passing
    <2> QED
      BY <1>3, <2>1 DEF ReconcileCertSecret
  <1>4. CASE RestoreCertSecret(r)
    BY <1>4 DEF RestoreCertSecret, Goto, Labels, Passing, Held, Stored
  <1>5. CASE MaybeRotateCert(r)
    BY <1>5, NewBundleIsNew
    DEF MaybeRotateCert, Store, Goto, Labels, Passing, Held, Stored
  <1>6. CASE GetHook(r)
    <2>1. stale' \in Bools
      BY <1>6, RereadType DEF GetHook
    <2>2. pc' \in [Replicas -> Labels]
          /\ at' \in [Replicas -> 1 .. Len(Hooks) + 1]
      <3>1. CASE HookDone(r, TRUE)
        BY <3>1, HookDoneType
      <3>2. CASE ~HookDone(r, TRUE)
        BY <1>6, <3>2 DEF GetHook, Goto, Labels, Passing
      <3> QED
        BY <3>1, <3>2
    <2> QED
      BY <1>6, <2>1, <2>2 DEF GetHook
  <1>7. CASE CreateHook(r)
    <2>1. serving[r] \in Stored
      BY DEF Held, Stored
    <2>2. conf' \in [HookNames -> Stored] /\ stale' \in Bools
      BY <1>7, <2>1, SetConfType, RereadType DEF CreateHook, Trusted
    <2>3. pc' \in [Replicas -> Labels]
          /\ at' \in [Replicas -> 1 .. Len(Hooks) + 1]
      <3>1. CASE HookDone(r, TRUE) \/ HookDone(r, FALSE)
        BY <3>1, HookDoneType
      <3>2. CASE ~(HookDone(r, TRUE) \/ HookDone(r, FALSE))
        BY <1>7, <3>2 DEF CreateHook, Goto, Labels, Passing
      <3> QED
        BY <3>1, <3>2
    <2> QED
      BY <1>7, <2>2, <2>3 DEF CreateHook
  <1>8. CASE UpdateHook(r)
    <2>1. serving[r] \in Stored
      BY DEF Held, Stored
    <2>2. conf' \in [HookNames -> Stored] /\ stale' \in Bools
      BY <1>8, <2>1, SetConfType, RereadType DEF UpdateHook, Trusted
    <2>3. pc' \in [Replicas -> Labels]
          /\ at' \in [Replicas -> 1 .. Len(Hooks) + 1]
      BY <1>8, HookDoneType DEF UpdateHook
    <2> QED
      BY <1>8, <2>2, <2>3 DEF UpdateHook
  <1>9. CASE ReconcileConversion(r)
    <2>1. trigger' \in Bools
      BY <1>9, NotifyType DEF ReconcileConversion, PatchCRD
    <2> QED
      BY <1>9, <2>1 DEF ReconcileConversion, PatchCRD, Goto, Labels
  <1> QED
    BY <1>1, <1>2, <1>3, <1>4, <1>5, <1>6, <1>7, <1>8, <1>9
    DEF Housekeeper, Pass

(* The clean-up of Shutdown and the environment keep the types.            *)
LEMMA OtherType ==
    ASSUME TypeOK,
           Environment \/ \E r \in Replicas : Cleanup(r)
    PROVE  TypeOK'
  <1> SUFFICES TypeParts'
    BY SameTypes
  <1>0. TypeParts /\ Len(Hooks) \in Nat
        /\ None \in Stored /\ Stray \in Stored /\ None \in Held
    BY SameTypes, HookNamesFinite DEF Stored, Held
  <1> USE <1>0 DEF TypeParts, cluster, own
  <1>1. ASSUME NEW r \in Replicas, Stop(r) PROVE TypeParts'
    <2>1. acts' \in 0 .. MaxDisturbances
      BY <1>1, DisturbType DEF Stop
    <2> QED
      BY <1>1, <2>1 DEF Stop, Cleaned
  <1>2. ASSUME NEW r \in Replicas, CleanHook(r) PROVE TypeParts'
    <2>1. /\ conf' \in [HookNames -> Stored] /\ stale' \in Bools
          /\ trigger' \in Bools
      BY <1>2, SetConfType, NotifyType DEF CleanHook
    <2>2. clean[r] \in 1 .. Len(Hooks)
      BY <1>2, GatewayAssumption DEF CleanHook
    <2> QED
      BY <1>2, <2>1, <2>2 DEF CleanHook, Cleaned
  <1>3. ASSUME NEW r \in Replicas, CleanSecret(r) PROVE TypeParts'
    <2>1. trigger' \in Bools
      BY <1>3, NotifyType DEF CleanSecret
    <2>2. calm' \in BOOLEAN
      BY <1>3 DEF CleanSecret
    <2>3. clean' \in [Replicas -> 0 .. Cleaned]
      BY <1>3 DEF CleanSecret, Cleaned
    <2> QED
      BY <1>3, <2>1, <2>2, <2>3 DEF CleanSecret
  <1>4. ASSUME NEW r \in Replicas, Exit(r) PROVE TypeParts'
    BY <1>4, DieType DEF Exit
  <1>5. ASSUME NEW r \in Replicas, Crash(r) PROVE TypeParts'
    BY <1>5, DieType, DisturbType DEF Crash
  <1>6. ASSUME NEW r \in Replicas, CallFails(r) PROVE TypeParts'
    <2>1. acts' \in 0 .. MaxDisturbances
      BY <1>6, DisturbType DEF CallFails
    <2>2. CASE Die(r)
      BY <1>6, <2>1, <2>2, DieType DEF CallFails
    <2>3. CASE HookDone(r, FALSE) /\ UNCHANGED <<clean, own, trigger>>
      BY <1>6, <2>1, <2>3, HookDoneType DEF CallFails
    <2>4. CASE (\E l \in Labels : Goto(r, l))
               /\ UNCHANGED <<at, clean, own, trigger>>
      BY <1>6, <2>1, <2>4 DEF CallFails, Goto
    <2> QED
      BY <1>6, <2>2, <2>3, <2>4 DEF CallFails, Labels, Passing
  <1>7. ASSUME NEW r \in Replicas, CleanFails(r) PROVE TypeParts'
    <2>1. acts' \in 0 .. MaxDisturbances
      BY <1>7, DisturbType DEF CleanFails
    <2>2. clean[r] \in 1 .. Len(Hooks) + 1
      BY <1>7 DEF CleanFails, Cleaned
    <2>3. NextHook(clean[r], FALSE) \in 0 .. Cleaned
      BY <2>2 DEF NextHook, Cleaned
    <2> QED
      BY <1>7, <2>1, <2>3 DEF CleanFails
  <1>8. ASSUME NEW r \in Replicas, EventMissed(r) PROVE TypeParts'
    <2>1. acts' \in 0 .. MaxDisturbances
      BY <1>8, DisturbType DEF EventMissed
    <2>2. trigger' \in Bools
      BY <1>8 DEF EventMissed, Bools
    <2> QED
      BY <1>8, <2>1, <2>2 DEF EventMissed
  <1>9. ASSUME NEW h \in HookNames, HookDrifts(h) PROVE TypeParts'
    <2>1. /\ conf' \in [HookNames -> Stored] /\ stale' \in Bools
          /\ trigger' \in Bools /\ acts' \in 0 .. MaxDisturbances
      BY <1>9, SetConfType, NotifyType, DisturbType DEF HookDrifts
    <2> QED
      BY <1>9, <2>1 DEF HookDrifts
  <1>10. CASE ConversionStripped \/ SecretDrifts
    <2>1. trigger' \in Bools /\ acts' \in 0 .. MaxDisturbances
      BY <1>10, NotifyType, DisturbType DEF ConversionStripped, SecretDrifts
    <2> QED
      BY <1>10, <2>1 DEF ConversionStripped, SecretDrifts
  <1>11. CASE ComesDue
    BY <1>11, DisturbType DEF ComesDue
  <1> QED
    BY <1>1, <1>2, <1>3, <1>4, <1>5, <1>6, <1>7, <1>8, <1>9, <1>10, <1>11
    DEF Environment, Cleanup

(* The state of the replicas and of what they keep in the cluster keeps    *)
(* its types; in particular a certificate is always there to be generated. *)
THEOREM TypeCorrect == Spec => []TypeOK
<1>1. Init => TypeOK
  <2> SUFFICES ASSUME Init PROVE TypeParts
    BY SameTypes
  <2>1. 0 \in 0 .. Cleaned /\ 1 \in 1 .. Len(Hooks) + 1
    BY HookNamesFinite DEF Cleaned
  <2>2. stale \in Bools /\ trigger \in Bools /\ calm \in BOOLEAN
    BY DEF Init, Bools
  <2> QED
    BY <2>1, <2>2, GatewayAssumption
    DEF Init, TypeParts, Stored, Held, Labels
<1>2. TypeOK /\ [Next]_vars => TypeOK'
  <2> SUFFICES ASSUME TypeOK, [Next]_vars PROVE TypeOK'
    OBVIOUS
  <2>1. CASE UNCHANGED vars
    BY <2>1 DEF vars, cluster, own, TypeOK
  <2> QED
    BY <2>1, StartUpType, HousekeeperType, OtherType DEF Next
<1> QED
  BY <1>1, <1>2, PTL DEF Spec

-----------------------------------------------------------------------------
(* Past EnsureCertificate, whether the replica still serves or is stopping. *)
Adopted(r) == pc[r] \in Passing \cup {"patch", "idle", "gone"}

(* The strengthening of ServesStored: while the Secret is neither deleted  *)
(* nor spoiled nor rotated, whoever is past EnsureCertificate has the      *)
(* Secret's bundle, and there is one.  So the Create that wins the race    *)
(* meets nobody with another bundle, and a restore changes nothing.        *)
OneBundle ==
    calm => \A r \in Replicas : Adopted(r) =>
              serving[r] = secret /\ mem[r] = secret /\ secret # None

(* A step that changes nobody's bundle, and takes no one past              *)
(* EnsureCertificate.                                                      *)
LEMMA BundlesRest ==
    ASSUME OneBundle, calm' => calm, calm' => secret' = secret,
           \A r \in Replicas : Adopted(r)' =>
              Adopted(r) /\ serving'[r] = serving[r] /\ mem'[r] = mem[r]
    PROVE  OneBundle'
  BY DEF OneBundle

(* What one replica does to its own control leaves the others adopted or   *)
(* not as they were.                                                       *)
LEMMA Moves ==
    ASSUME TypeOK, NEW r \in Replicas, NEW l, Goto(r, l)
    PROVE  /\ pc'[r] = l
           /\ \A q \in Replicas \ {r} : Adopted(q)' <=> Adopted(q)
           /\ Adopted(r)' <=> l \in Passing \cup {"patch", "idle", "gone"}
  <1>1. pc'[r] = l /\ \A q \in Replicas \ {r} : pc'[q] = pc[q]
    BY DEF TypeOK, Goto
  <1> QED
    BY <1>1 DEF Adopted

(* A process that ends has no bundle any more.                             *)
LEMMA DieRests ==
    ASSUME TypeOK, OneBundle, NEW r \in Replicas, Die(r),
           secret' = secret, calm' = calm
    PROVE  OneBundle'
  <1>1. ~Adopted(r)' /\ \A q \in Replicas \ {r} : Adopted(q)' <=> Adopted(q)
    BY Moves DEF Die, Passing
  <1>2. \A q \in Replicas \ {r} : serving'[q] = serving[q] /\ mem'[q] = mem[q]
    BY DEF TypeOK, Die
  <1> QED
    BY <1>1, <1>2, BundlesRest

(* The pass goes on to its next configuration or to the conversion.        *)
LEMMA HookDoneRests ==
    ASSUME TypeOK, OneBundle, NEW r \in Replicas, NEW ok, HookDone(r, ok),
           Adopted(r), UNCHANGED <<secret, calm, serving, mem>>
    PROVE  OneBundle'
  BY Moves, BundlesRest DEF HookDone

(* The start of a replica: it adopts the Secret's bundle, or creates the   *)
(* Secret when nobody has a bundle, or gives way.                          *)
LEMMA StartUpAdopts ==
    ASSUME TypeOK, OneBundle, NEW r \in Replicas, StartUp(r)
    PROVE  OneBundle'
  <1> USE DEF cluster, own
  <1>1. CASE Launch(r)
    BY <1>1, Moves, BundlesRest DEF Launch, Passing
  <1>2. CASE EnsureCertificate(r)
    <2>1. CASE secret \in Bundles /\ Adopt(r, secret) /\ Goto(r, "patch")
      <3>1. /\ serving'[r] = secret /\ mem'[r] = secret
            /\ \A q \in Replicas \ {r} :
                  serving'[q] = serving[q] /\ mem'[q] = mem[q]
        BY <2>1 DEF TypeOK, Adopt
      <3>2. secret # None /\ secret' = secret /\ calm' = calm
        BY <1>2, <2>1, GatewayAssumption DEF EnsureCertificate
      <3> QED
        BY <2>1, <3>1, <3>2, Moves DEF OneBundle
    <2>2. CASE UNCHANGED own /\ (Goto(r, "create") \/ Goto(r, "discard"))
      BY <1>2, <2>2, Moves, BundlesRest DEF EnsureCertificate, Passing
    <2> QED
      BY <1>2, <2>1, <2>2 DEF EnsureCertificate
  <1>3. CASE Discard(r)
    BY <1>3, Moves, BundlesRest DEF Discard, Passing, TypeOK
  <1>4. CASE CreateSecret(r)
    <2>1. CASE secret = None
      <3>1. secret' = NewBundle /\ NewBundle # None /\ calm' = calm
        BY <1>4, <2>1, NewBundleIsNew, GatewayAssumption
        DEF CreateSecret, Store
      <3>2. serving'[r] = NewBundle /\ mem'[r] = NewBundle
        BY <1>4, <2>1 DEF CreateSecret, Adopt, TypeOK
      <3>3. calm => \A q \in Replicas \ {r} : ~Adopted(q)'
        BY <1>4, <2>1, Moves DEF CreateSecret, OneBundle
      <3> QED
        BY <3>1, <3>2, <3>3 DEF OneBundle
    <2>2. CASE secret # None
      BY <1>4, <2>2, DieRests DEF CreateSecret
    <2> QED
      BY <2>1, <2>2
  <1>5. CASE PatchAtStart(r)
    BY <1>5, Moves, BundlesRest DEF PatchAtStart, Adopted
  <1> QED
    BY <1>1, <1>2, <1>3, <1>4, <1>5 DEF StartUp

(* The housekeeper: only a rotation changes a bundle.                      *)
LEMMA HousekeeperKeeps ==
    ASSUME TypeOK, OneBundle, NEW r \in Replicas, Housekeeper(r)
    PROVE  OneBundle'
  <1> USE DEF cluster, own
  <1>0. Adopted(r)
    BY DEF Housekeeper, Pass, Wake, Tick, HousekeeperStops,
       ReconcileCertSecret, RestoreCertSecret, MaybeRotateCert, GetHook,
       CreateHook, UpdateHook, ReconcileConversion, Adopted, Passing
  <1>1. CASE Wake(r) \/ Tick(r) \/ HousekeeperStops(r)
    BY <1>0, <1>1, Moves, BundlesRest DEF Wake, Tick, HousekeeperStops
  <1>2. CASE ReconcileCertSecret(r)
    BY <1>0, <1>2, Moves, BundlesRest DEF ReconcileCertSecret
  <1>3. CASE RestoreCertSecret(r)
    <2>1. calm => secret' = secret
      BY <1>0, <1>3 DEF RestoreCertSecret, OneBundle
    <2> QED
      BY <1>0, <1>3, <2>1, Moves, BundlesRest DEF RestoreCertSecret
  <1>4. CASE MaybeRotateCert(r)
    <2>1. CASE secret = None
      BY <1>0, <1>4, <2>1, Moves, BundlesRest DEF MaybeRotateCert
    <2>2. CASE secret # None
      BY <1>4, <2>2 DEF MaybeRotateCert, OneBundle
    <2> QED
      BY <2>1, <2>2
  <1>5. CASE GetHook(r)
    <2>1. CASE \E ok : HookDone(r, ok)
      BY <1>0, <1>5, <2>1, HookDoneRests DEF GetHook
    <2>2. CASE \E l : Goto(r, l)
      BY <1>0, <1>5, <2>2, Moves, BundlesRest DEF GetHook
    <2> QED
      BY <1>5, <2>1, <2>2 DEF GetHook
  <1>6. CASE CreateHook(r)
    <2>1. CASE \E ok : HookDone(r, ok)
      BY <1>0, <1>6, <2>1, HookDoneRests DEF CreateHook
    <2>2. CASE \E l : Goto(r, l)
      BY <1>0, <1>6, <2>2, Moves, BundlesRest DEF CreateHook
    <2> QED
      BY <1>6, <2>1, <2>2 DEF CreateHook
  <1>7. CASE UpdateHook(r)
    BY <1>0, <1>7, HookDoneRests DEF UpdateHook
  <1>8. CASE ReconcileConversion(r)
    BY <1>0, <1>8, Moves, BundlesRest DEF ReconcileConversion
  <1> QED
    BY <1>1, <1>2, <1>3, <1>4, <1>5, <1>6, <1>7, <1>8 DEF Housekeeper, Pass

(* Clean-up and environment: what touches the Secret ends the calm.        *)
LEMMA OthersKeep ==
    ASSUME TypeOK, OneBundle,
           Environment \/ \E r \in Replicas : Cleanup(r)
    PROVE  OneBundle'
  <1> USE DEF cluster, own
  <1>1. ASSUME NEW r \in Replicas, CallFails(r) PROVE OneBundle'
    <2>1. CASE Die(r)
      BY <1>1, <2>1, DieRests DEF CallFails
    <2>2. CASE Adopted(r) /\ HookDone(r, FALSE) /\ UNCHANGED own
      BY <1>1, <2>2, HookDoneRests DEF CallFails
    <2>3. CASE Adopted(r) /\ UNCHANGED own /\ \E l : Goto(r, l)
      BY <1>1, <2>3, Moves, BundlesRest DEF CallFails
    <2> QED
      BY <1>1, <2>1, <2>2, <2>3 DEF CallFails, Adopted, Passing
  <1>2. ASSUME NEW r \in Replicas, Exit(r) \/ Crash(r) PROVE OneBundle'
    BY <1>2, DieRests DEF Exit, Crash
  <1>3. ASSUME NEW r \in Replicas, CleanSecret(r) PROVE OneBundle'
    BY <1>3, BundlesRest DEF CleanSecret, Adopted, TypeOK
  <1>4. CASE SecretDrifts
    BY <1>4 DEF SecretDrifts, OneBundle
  <1>5. CASE UNCHANGED <<secret, calm, pc, own>>
    BY <1>5 DEF OneBundle, Adopted
  <1> QED
    BY <1>1, <1>2, <1>3, <1>4, <1>5
    DEF Environment, Cleanup, Stop, CleanHook, CleanFails, EventMissed,
        HookDrifts, ConversionStripped, ComesDue

(* However many replicas start at once, whichever creates the Secret and   *)
(* whichever lose the race, crash, stop or fail: as long as the Secret is  *)
(* neither deleted, spoiled nor rotated, every replica that serves does so *)
(* with the Secret's bundle and would restore that one.                    *)
THEOREM OneCertificate == Spec => []ServesStored
<1>1. Init => OneBundle
  BY DEF Init, OneBundle, Adopted, Passing
<1>2. TypeOK /\ OneBundle /\ [Next]_vars => OneBundle'
  <2> SUFFICES ASSUME TypeOK, OneBundle, [Next]_vars PROVE OneBundle'
    OBVIOUS
  <2>1. CASE UNCHANGED vars
    BY <2>1 DEF vars, cluster, own, OneBundle, Adopted
  <2> QED
    BY <2>1, StartUpAdopts, HousekeeperKeeps, OthersKeep DEF Next
<1>3. OneBundle => ServesStored
  BY DEF OneBundle, ServesStored, Adopted, Up
<1> QED
  BY <1>1, <1>2, <1>3, TypeCorrect, PTL DEF Spec
=============================================================================
