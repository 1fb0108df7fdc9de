------------------------------ MODULE Gateway ------------------------------
(***************************************************************************)
(* The replicas of the gateway and what they keep in the cluster together: *)
(* the TLS Secret, the webhook configurations and the conversion webhook   *)
(* of the CRDs (pkg/gateway/webhook: housekeeper.go, registration.go,      *)
(* infrastructure.go; pkg/gateway/certmanager; cmd/internal/security.go).  *)
(*                                                                         *)
(* There is no leader: every replica starts, reconciles, rotates and       *)
(* cleans up on its own.  A step is one call to the API server together    *)
(* with the code up to the next call.  A certificate is the identity of    *)
(* its bundle; an identity nobody holds any more is used again, so Bundles *)
(* stays finite.                                                           *)
(***************************************************************************)
EXTENDS Naturals, Sequences, FiniteSets

CONSTANTS
    Replicas,
    Hooks,          \* the webhook configurations, in the order of a pass
    Mutating,       \* those of them that are mutating
    Bundles,        \* more of them than can be held at once
    AutoRotate,     \* CertAutoRotate() of the Catalog
    CleanupOnShutdown,
    MaxDisturbances \* bound: what the environment does: calls fail,
                    \* a watch misses an event, others change things,
                    \* replicas crash or stop, certificates come due

None  == "none"
Stray == "stray"    \* content that no replica wrote

HookNames == {Hooks[i] : i \in DOMAIN Hooks}

ASSUME GatewayAssumption ==
    /\ Hooks \in Seq(HookNames) /\ Mutating \subseteq HookNames
    /\ {None, Stray} \cap Bundles = {}
    /\ {AutoRotate, CleanupOnShutdown} \subseteq BOOLEAN
    /\ MaxDisturbances \in Nat
\* The places that can hold a bundle: the Secret, the CRDs, each webhook
\* configuration, and the files and the memory of each replica.
ASSUME BundlesAssumption ==
    /\ IsFiniteSet(Replicas) /\ IsFiniteSet(Bundles)
    /\ Cardinality(Bundles) > 2 + Len(Hooks) + 2 * Cardinality(Replicas)

VARIABLES
    secret,     \* the bundle in the TLS Secret
    conf,       \* conf[h]: the certificate a webhook configuration trusts
    crd,        \* the caBundle of the CRDs' conversion webhook
    due,        \* the bundles within the rotation threshold
    pc,         \* pc[r]: the call the start-up or the housekeeper makes next
    at,         \* at[r]: the position in Hooks of the pass
    clean,      \* clean[r]: 0, or the position of Shutdown's clean-up
    serving,    \* serving[r]: the bundle in the files of writeTLSToFiles
    mem,        \* mem[r]: certSecretData
    stale,      \* stale[r]: the configuration changed since r's Get of it
    trigger,    \* trigger[r]: the channel of capacity 1
    calm,       \* history: the Secret was never deleted, spoiled or rotated
    acts        \* how often the environment acted

cluster == <<secret, conf, crd, due>>
own     == <<serving, mem>>
vars    == <<cluster, pc, at, clean, own, stale, trigger, calm, acts>>

Starting == {"ensure", "discard", "create", "patch"}
Passing  == {"secret", "restore", "rotate", "hook", "hookCreate",
             "hookUpdate", "conv"}

\* clean[r] when nothing is left to clean up.
Cleaned == Len(Hooks) + 2

\* The replica serves and watches; Shutdown ends both before it cleans up.
Up(r) == pc[r] \in Passing \cup {"idle"} /\ clean[r] = 0

\* Every variable keeps the type of the field or local it stands for.
TypeOK ==
    /\ secret \in Bundles \cup {None, Stray}
    /\ conf \in [HookNames -> Bundles \cup {None, Stray}]
    /\ crd \in Bundles \cup {None}
    /\ due \subseteq Bundles
    /\ pc \in [Replicas -> Starting \cup Passing \cup {"down", "idle", "gone"}]
    /\ at \in [Replicas -> 1 .. Len(Hooks) + 1]
    /\ clean \in [Replicas -> 0 .. Cleaned]
    /\ {serving, mem} \subseteq [Replicas -> Bundles \cup {None}]
    /\ {stale, trigger} \subseteq [Replicas -> BOOLEAN]
    /\ calm \in BOOLEAN
    /\ acts \in 0 .. MaxDisturbances

Init ==
    /\ secret = None /\ conf = [h \in HookNames |-> None] /\ crd = None
    /\ due = {}
    /\ pc = [r \in Replicas |-> "down"]
    /\ at = [r \in Replicas |-> 1] /\ clean = [r \in Replicas |-> 0]
    /\ serving = [r \in Replicas |-> None] /\ mem = serving
    /\ stale = [r \in Replicas |-> FALSE] /\ trigger = stale
    /\ calm = TRUE
    /\ acts = 0

Goto(r, label) == pc' = [pc EXCEPT ![r] = label]

\* A watch event that matters to drainWatchEvents (DELETED) or to
\* watchSingleConversionCRD (MODIFIED): trigger is filled unless it is full.
Notify(happened) ==
    trigger' = IF happened THEN [r \in Replicas |-> trigger[r] \/ Up(r)]
                           ELSE trigger

\* A configuration gets other content: whoever else has read it and not yet
\* written it back will meet a conflict.
SetConf(h, value, writer) ==
    /\ conf' = [conf EXCEPT ![h] = value]
    /\ stale' = [r \in Replicas |->
                    /\ r # writer
                    /\ \/ stale[r]
                       \/ pc[r] = "hookUpdate" /\ Hooks[at[r]] = h]

Reread(r) == stale' = [stale EXCEPT ![r] = FALSE]

Known ==
    {secret, crd} \cup {conf[h] : h \in HookNames}
        \cup UNION {{serving[r], mem[r]} : r \in Replicas}

\* GenerateClusterBundle; named when it is stored, not when it is generated.
NewBundle == CHOOSE b \in Bundles : b \notin Known

Store(b) == secret' = b /\ due' = due \ {b}

-----------------------------------------------------------------------------
(* Start-up: ensureSecurity, then WebhookServer.Start.                     *)

Launch(r) ==
    /\ pc[r] = "down"
    /\ Goto(r, "ensure")
    /\ UNCHANGED <<cluster, at, clean, own, stale, trigger, calm, acts>>

\* The bundle is written to the files the HTTPS server reads once, and kept
\* as certSecretData (SetCertBundle).
Adopt(r, b) ==
    /\ serving' = [serving EXCEPT ![r] = b]
    /\ mem' = [mem EXCEPT ![r] = b]

EnsureCertificate(r) ==
    /\ pc[r] = "ensure"
    /\ \/ secret \in Bundles /\ Adopt(r, secret) /\ Goto(r, "patch")
       \/ secret = None /\ Goto(r, "create") /\ UNCHANGED own
       \/ secret = Stray /\ Goto(r, "discard") /\ UNCHANGED own
    /\ UNCHANGED <<cluster, at, clean, stale, trigger, calm, acts>>

\* The Secret was malformed when it was read.
Discard(r) ==
    /\ pc[r] = "discard"
    /\ secret' = None
    /\ calm' = (calm /\ secret = None)
    /\ Notify(secret # None)
    /\ Goto(r, "create")
    /\ UNCHANGED <<conf, crd, due, at, clean, own, stale, acts>>

Die(r) ==
    /\ Goto(r, "down")
    /\ trigger' = [trigger EXCEPT ![r] = FALSE]
    /\ clean' = [clean EXCEPT ![r] = 0]
    /\ at' = [at EXCEPT ![r] = 1]
    /\ serving' = [serving EXCEPT ![r] = None]
    /\ mem' = [mem EXCEPT ![r] = None]

\* Mutant of CreateSecret: a Secret that exists already is as good.
CreateTolerant(r) ==
    /\ pc[r] = "create"
    /\ IF secret = None THEN Store(NewBundle) ELSE UNCHANGED <<secret, due>>
    /\ Adopt(r, NewBundle)
    /\ Goto(r, "patch")
    /\ UNCHANGED <<conf, crd, at, clean, stale, trigger, calm, acts>>

\* AlreadyExists is fatal: the loser of the race starts again and adopts the
\* winner's bundle.
CreateSecret(r) ==
    /\ pc[r] = "create"
    /\ \/ /\ secret = None
          /\ Store(NewBundle)
          /\ Adopt(r, NewBundle)
          /\ Goto(r, "patch")
          /\ UNCHANGED <<at, clean, trigger>>
       \/ /\ secret # None
          /\ Die(r)
          /\ UNCHANGED <<secret, due>>
    /\ UNCHANGED <<conf, crd, stale, calm, acts>>

\* Mutant of PatchCRD: the patch always counts as a modification.
PatchAlways(b) == crd' = b /\ Notify(TRUE)

\* applyCRDConversionPatch; a patch that changes nothing emits no event.
PatchCRD(b) == crd' = b /\ Notify(crd # b)

\* patchConversionCRDs, then Start: the watchers and the first pass.  Start's
\* registration goroutines make the calls of that pass once more.
PatchAtStart(r) ==
    /\ pc[r] = "patch"
    /\ PatchCRD(mem[r])
    /\ Goto(r, "secret")
    /\ UNCHANGED <<secret, conf, due, at, clean, own, stale, calm, acts>>

-----------------------------------------------------------------------------
(* The housekeeper's loop and one pass of reconcileAll.                    *)

Wake(r) ==
    /\ pc[r] = "idle" /\ trigger[r]
    /\ trigger' = [trigger EXCEPT ![r] = FALSE]
    /\ Goto(r, "secret")
    /\ UNCHANGED <<cluster, at, clean, own, stale, calm, acts>>

Tick(r) ==
    /\ pc[r] = "idle"
    /\ Goto(r, "secret")
    /\ UNCHANGED <<cluster, at, clean, own, stale, trigger, calm, acts>>

\* ctx.Done; select may prefer a ready trigger or tick to it.
HousekeeperStops(r) ==
    /\ pc[r] = "idle" /\ clean[r] > 0
    /\ Goto(r, "gone")
    /\ UNCHANGED <<cluster, at, clean, own, stale, trigger, calm, acts>>

\* Mutant of ReconcileCertSecret: a missing Secret is left to the next start.
RestoreNever(r) ==
    /\ pc[r] = "secret"
    /\ Goto(r, IF AutoRotate /\ secret \in due THEN "rotate" ELSE "hook")
    /\ UNCHANGED <<cluster, at, clean, own, stale, trigger, calm, acts>>

\* A malformed Secret is left as it is: it has no expiry to read.
ReconcileCertSecret(r) ==
    /\ pc[r] = "secret"
    /\ Goto(r, CASE secret = None                -> "restore"
                 [] AutoRotate /\ secret \in due -> "rotate"
                 [] OTHER                         -> "hook")
    /\ UNCHANGED <<cluster, at, clean, own, stale, trigger, calm, acts>>

RestoreCertSecret(r) ==
    /\ pc[r] = "restore"
    /\ secret' = IF secret = None THEN mem[r] ELSE secret
    /\ Goto(r, "hook")
    /\ UNCHANGED <<conf, crd, due, at, clean, own, stale, trigger, calm, acts>>

\* The re-fetch and the Update of maybeRotateCert.  Whatever the Secret holds
\* by then is replaced; the server goes on with the files it has.
MaybeRotateCert(r) ==
    /\ pc[r] = "rotate"
    /\ IF secret = None
       THEN UNCHANGED <<secret, due, mem, calm>>
       ELSE /\ Store(NewBundle)
            /\ mem' = [mem EXCEPT ![r] = NewBundle]
            /\ calm' = FALSE
    /\ Goto(r, "hook")
    /\ UNCHANGED <<conf, crd, at, clean, serving, stale, trigger, acts>>

\* Where the pass goes from hook at[r].  RegisterAdmissionWebhooks returns the
\* error of the validating configuration before it comes to the mutating one.
NextHook(i, ok) ==
    IF ~ok /\ i < Len(Hooks) /\ Hooks[i + 1] \in Mutating THEN i + 2 ELSE i + 1

HookDone(r, ok) ==
    LET i == NextHook(at[r], ok)
    IN  IF i <= Len(Hooks)
        THEN Goto(r, "hook") /\ at' = [at EXCEPT ![r] = i]
        ELSE Goto(r, "conv") /\ at' = [at EXCEPT ![r] = 1]

\* Mutant of Trusted: the certificate of the Secret's bundle.
TrustedInMemory(r) == mem[r]

\* readCABundle: the file the server was started with.
Trusted(r) == serving[r]

\* Mutant of GetHook: a configuration that exists is taken to be right.
GetHookExists(r) ==
    /\ pc[r] = "hook"
    /\ IF conf[Hooks[at[r]]] = None
       THEN Goto(r, "hookCreate") /\ UNCHANGED at
       ELSE HookDone(r, TRUE)
    /\ UNCHANGED <<cluster, clean, own, stale, trigger, calm, acts>>

\* The Get of applyWebhookConfig and its comparison.
GetHook(r) ==
    /\ pc[r] = "hook"
    /\ LET existing == conf[Hooks[at[r]]]
       IN  CASE existing = None ->
                  Goto(r, "hookCreate") /\ UNCHANGED at
             [] existing = Trusted(r) ->
                  HookDone(r, TRUE)
             [] OTHER ->
                  Goto(r, "hookUpdate") /\ UNCHANGED at
    /\ Reread(r)
    /\ UNCHANGED <<cluster, clean, own, trigger, calm, acts>>

\* AlreadyExists: applyWebhookConfig reads the configuration again and updates
\* it, applyMutatingWebhookConfig returns the error.
CreateHook(r) ==
    LET h == Hooks[at[r]]
    IN  /\ pc[r] = "hookCreate"
        /\ \/ /\ conf[h] = None
              /\ SetConf(h, Trusted(r), r)
              /\ HookDone(r, TRUE)
           \/ /\ conf[h] # None /\ h \notin Mutating
              /\ Reread(r)
              /\ Goto(r, "hookUpdate")
              /\ UNCHANGED <<conf, at>>
           \/ /\ conf[h] # None /\ h \in Mutating
              /\ HookDone(r, FALSE)
              /\ UNCHANGED <<conf, stale>>
        /\ UNCHANGED <<secret, crd, due, clean, own, trigger, calm, acts>>

UpdateHook(r) ==
    /\ pc[r] = "hookUpdate"
    /\ IF stale[r]
       THEN HookDone(r, FALSE) /\ Reread(r) /\ UNCHANGED conf
       ELSE SetConf(Hooks[at[r]], Trusted(r), r) /\ HookDone(r, TRUE)
    /\ UNCHANGED <<secret, crd, due, clean, own, trigger, calm, acts>>

\* reconcileCRDConversionWebhooks takes the CA of certSecretData.
ReconcileConversion(r) ==
    /\ pc[r] = "conv"
    /\ PatchCRD(mem[r])
    /\ Goto(r, "idle")
    /\ UNCHANGED <<secret, conf, due, at, clean, own, stale, calm, acts>>

-----------------------------------------------------------------------------
(* Shutdown: cancels the housekeeper's context, does not wait for it.      *)

Disturb == acts < MaxDisturbances /\ acts' = acts + 1

Stop(r) ==
    /\ Up(r)
    /\ Disturb
    /\ clean' = [clean EXCEPT ![r] = IF CleanupOnShutdown THEN 1 ELSE Cleaned]
    /\ UNCHANGED <<cluster, pc, at, own, stale, trigger, calm>>

CleanHook(r) ==
    /\ clean[r] \in DOMAIN Hooks
    /\ LET h == Hooks[clean[r]]
       IN  SetConf(h, None, None) /\ Notify(conf[h] # None)
    /\ clean' = [clean EXCEPT ![r] = @ + 1]
    /\ UNCHANGED <<secret, crd, due, pc, at, own, calm, acts>>

\* DeleteCertificateAndSecret.
CleanSecret(r) ==
    /\ clean[r] = Len(Hooks) + 1
    /\ secret' = None
    /\ calm' = (calm /\ secret = None)
    /\ Notify(secret # None)
    /\ clean' = [clean EXCEPT ![r] = Cleaned]
    /\ UNCHANGED <<conf, crd, due, pc, at, own, stale, acts>>

\* The process ends, and with it a pass still under way.
Exit(r) ==
    /\ clean[r] = Cleaned
    /\ Die(r)
    /\ UNCHANGED <<cluster, stale, calm, acts>>

-----------------------------------------------------------------------------
(* The environment.                                                        *)

\* A call fails: fatal in EnsureCertificate, logged and skipped elsewhere.
CallFails(r) ==
    /\ Disturb
    /\ \/ pc[r] \in {"ensure", "discard", "create"} /\ Die(r)
       \/ /\ pc[r] = "patch"
          /\ Goto(r, "secret")
          /\ UNCHANGED <<at, clean, own, trigger>>
       \/ /\ pc[r] \in {"secret", "restore", "rotate"}
          /\ Goto(r, "hook")
          /\ UNCHANGED <<at, clean, own, trigger>>
       \/ /\ pc[r] \in {"hook", "hookCreate", "hookUpdate"}
          /\ HookDone(r, FALSE)
          /\ UNCHANGED <<clean, own, trigger>>
       \/ /\ pc[r] = "conv"
          /\ Goto(r, "idle")
          /\ UNCHANGED <<at, clean, own, trigger>>
    /\ UNCHANGED <<cluster, stale, calm>>

\* UnregisterAdmissionWebhooks gives up at its first error.
CleanFails(r) ==
    /\ clean[r] \in 1 .. Cleaned - 1
    /\ Disturb
    /\ clean' = [clean EXCEPT ![r] = NextHook(@, FALSE)]
    /\ UNCHANGED <<cluster, pc, at, own, stale, trigger, calm>>

\* The stream had ended when the change happened; it is opened again without
\* a resource version and does not tell of the change.
EventMissed(r) ==
    /\ trigger[r]
    /\ Disturb
    /\ trigger' = [trigger EXCEPT ![r] = FALSE]
    /\ UNCHANGED <<cluster, pc, at, clean, own, stale, calm>>

Crash(r) ==
    /\ pc[r] # "down"
    /\ Disturb
    /\ Die(r)
    /\ UNCHANGED <<cluster, stale, calm>>

HookDrifts(h) ==
    /\ conf[h] # None
    /\ Disturb
    /\ \/ SetConf(h, Stray, None) /\ UNCHANGED trigger
       \/ SetConf(h, None, None) /\ Notify(TRUE)
    /\ UNCHANGED <<secret, crd, due, pc, at, clean, own, calm>>

ConversionStripped ==
    /\ crd # None
    /\ Disturb
    /\ crd' = None /\ Notify(TRUE)
    /\ UNCHANGED <<secret, conf, due, pc, at, clean, own, stale, calm>>

SecretDrifts ==
    /\ secret \in Bundles
    /\ Disturb
    /\ \/ secret' = Stray /\ UNCHANGED trigger
       \/ secret' = None /\ Notify(TRUE)
    /\ calm' = FALSE
    /\ UNCHANGED <<conf, crd, due, pc, at, clean, own, stale>>

\* Time passes until the stored certificate is within its threshold.
ComesDue ==
    /\ secret \in Bundles \ due
    /\ Disturb
    /\ due' = due \cup {secret}
    /\ UNCHANGED <<secret, conf, crd, pc, at, clean, own, stale, trigger,
                   calm>>

-----------------------------------------------------------------------------
StartUp(r) ==
    \/ Launch(r) \/ EnsureCertificate(r) \/ Discard(r) \/ CreateSecret(r)
    \/ PatchAtStart(r)

Pass(r) ==
    \/ ReconcileCertSecret(r) \/ RestoreCertSecret(r) \/ MaybeRotateCert(r)
    \/ GetHook(r) \/ CreateHook(r) \/ UpdateHook(r) \/ ReconcileConversion(r)

Housekeeper(r) == Wake(r) \/ Tick(r) \/ HousekeeperStops(r) \/ Pass(r)

Cleanup(r) == CleanHook(r) \/ CleanSecret(r) \/ Exit(r)

Environment ==
    \/ \E r \in Replicas :
         \/ Stop(r) \/ Crash(r) \/ CallFails(r) \/ CleanFails(r)
         \/ EventMissed(r)
    \/ \E h \in HookNames : HookDrifts(h)
    \/ ConversionStripped \/ SecretDrifts \/ ComesDue

Next ==
    \/ \E r \in Replicas : StartUp(r) \/ Housekeeper(r) \/ Cleanup(r)
    \/ Environment

Spec == Init /\ [][Next]_vars

\* The kubelet starts what has ended, every goroutine runs, every call is
\* answered and the safety ticker ticks.
FairSpec ==
    /\ Spec
    /\ \A r \in Replicas :
         /\ WF_vars(StartUp(r)) /\ WF_vars(Housekeeper(r))
         /\ WF_vars(Cleanup(r))

-----------------------------------------------------------------------------
(* What the gateway promises.                                              *)

\* Replicas that start together end up with one certificate: as long as the
\* Secret is neither deleted nor rotated, every replica serves, and would
\* restore, the bundle the Secret holds (the Create of EnsureCertificate
\* decides the race, its loser starts over).
ServesStored ==
    calm => \A r \in Replicas :
              Up(r) => serving[r] = secret /\ mem[r] = secret

\* Drift is repaired: if the Secret is left alone, every webhook
\* configuration and the CRDs come to trust the certificate it holds and keep
\* doing so, whatever was changed, missed by a watch, or lost to a conflict
\* between two replicas (reconcileAll on the safety ticker).
Settles ==
    []calm => <>[](/\ secret # None
                   /\ \A h \in HookNames : conf[h] = secret
                   /\ crd = secret)

\* Through rotations, lost Secrets, restarts and clean-ups, every webhook
\* configuration comes to exist and to trust a certificate some running
\* replica serves: the API server can call it (applyWebhookConfig).
HooksSettle ==
    <>[](\A h \in HookNames :
            \E r \in Replicas : Up(r) /\ conf[h] = serving[r])

\* A TLS Secret that is gone comes back (restoreCertSecret, or the start of a
\* replica), also when it was a shutdown that deleted it.
SecretReturns == secret = None ~> secret # None

Agreed == \A q, r \in Replicas : Up(q) /\ Up(r) => mem[q] = mem[r]

\* Some replica's housekeeper starts a pass because of a watch event.
Woken == \E r \in Replicas : Wake(r)

\* Once the replicas hold the same bundle the chain of events ends: a pass
\* that finds the CRDs right emits nothing (watchSingleConversionCRD).
Quiet == <>[]Agreed => <>[][~Woken]_vars
=============================================================================
