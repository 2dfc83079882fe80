--------------------------- MODULE EngineRetirement ---------------------------
(***************************************************************************)
(* How a user's daemon hands its image engine over to the machine's engine *)
(* service: the bridge that adopts the service and retries the retirement  *)
(* (service/src/machine-engine/bridge.ts), the image manager that routes   *)
(* requests and drains (providers/image/manager.ts, http/routes/config.ts),*)
(* and the provider's lifecycle.                                           *)
(*                                                                         *)
(* A retirement awaits the managers of chat, image, video and speech       *)
(* together; it fails with the first that fails, while the others go on.   *)
(* All but the image manager's part is "the rest" here.                    *)
(***************************************************************************)
EXTENDS Naturals, Sequences, ProviderLifecycle

CONSTANTS
  Edits,     \* bound: changes of the image settings
  Failures,  \* bound: failures of a shutdown or of the rest of a retirement
  Flips      \* bound: times the service found is of another role

ASSUME RetirementAssumption == Edits \in Nat /\ Failures \in Nat /\ Flips \in Nat

VARIABLES
  config,      \* the image provider that is configured
  owed,        \* a settings handler has still to reset the image provider
  asked,       \* what configuration each request was routed by
  remote,      \* the adopted service is known: the bridge's current
  complete,    \* retirementComplete
  branches,    \* the image manager's part of each attempt to retire
  flight,      \* retirementInFlight, 0 when there is none
  refreshing,  \* refreshInFlight, awaiting the attempt
  timer,       \* retirementRetryTimer
  spent        \* how much of each bound is used

bridgeVars == <<remote, complete, flight, refreshing, timer>>
vars == <<lifecycleVars, config, owed, asked, branches, bridgeVars, spent>>

Kinds == {"native", "cloud"}

TypeOK ==
  /\ LifecycleTypeOK
  /\ config \in Kinds /\ owed \in BOOLEAN
  /\ asked \in [Request -> Kinds \cup {"no", "routed"}]
  /\ remote \in BOOLEAN /\ complete \in BOOLEAN /\ refreshing \in BOOLEAN /\ timer \in BOOLEAN
  /\ branches \in Seq({"asks", "native", "drains", "gone", "kept", "failed"})
  /\ flight \in 0 .. Len(branches)
  /\ spent \in [edits : 0 .. Edits, failures : 0 .. Failures, flips : 0 .. Flips]
  /\ complete => flight = 0 /\ ~timer

Init ==
  /\ LifecycleInit
  /\ config \in Kinds /\ owed = FALSE /\ asked = [r \in Request |-> "no"]
  /\ remote = FALSE /\ complete = FALSE /\ branches = <<>> /\ flight = 0
  /\ refreshing = FALSE /\ timer = FALSE
  /\ spent = [edits |-> 0, failures |-> 0, flips |-> 0]

Spends(bound, limit) == spent[bound] < limit /\ spent' = [spent EXCEPT ![bound] = @ + 1]

-----------------------------------------------------------------------------
(* The image manager and its lifecycle.                                    *)

\* current() awaits the configuration first.
ReadsConfig(r) ==
  /\ asked[r] = "no" /\ asked' = [asked EXCEPT ![r] = config]
  /\ UNCHANGED <<lifecycleVars, config, owed, branches, bridgeVars, spent>>

Route(r) ==
  /\ asked[r] \in Kinds
  /\ asked' = [asked EXCEPT ![r] = "routed"]
  /\ IF remote /\ asked[r] = "native" THEN UNCHANGED lifecycleVars
     ELSE Current(r, asked[r] = "native")
  /\ UNCHANGED <<config, owed, branches, bridgeVars, spent>>

Uses(r) ==
  /\ Retry(r) \/ Operate(r) \/ OperationEnds(r)
  /\ UNCHANGED <<config, owed, asked, branches, bridgeVars, spent>>

\* The settings handler writes the configuration and resets the provider later.
Configure ==
  /\ Spends("edits", Edits) /\ ~owed /\ owed' = TRUE /\ config' \in Kinds
  /\ UNCHANGED <<lifecycleVars, asked, branches, bridgeVars>>

Resets ==
  /\ owed /\ owed' = FALSE /\ Reset
  /\ UNCHANGED <<config, asked, branches, bridgeVars, spent>>

Builds ==
  /\ \E g \in Request : BuildEnds(g)
  /\ UNCHANGED <<config, owed, asked, branches, bridgeVars, spent>>

Drains ==
  /\ DrainGoesOn
  /\ UNCHANGED <<config, owed, asked, branches, bridgeVars, spent>>

\* Mutant: a failed shutdown is logged and taken for a success, as in a reset.
OutcomeSwallowed(ok) == "gone"

Outcome(ok) == IF ok THEN "gone" ELSE "failed"

\* The end of a drain reaches every attempt that joined it.
Ends(ok) ==
  /\ DrainEnds(ok)
  /\ branches' = [k \in DOMAIN branches |->
                    IF branches[k] = "drains" THEN Outcome(ok) ELSE branches[k]]
  /\ IF ok THEN UNCHANGED spent ELSE Spends("failures", Failures)
  /\ UNCHANGED <<config, owed, asked, bridgeVars>>

\* retireLocalForMachineBroker: the configuration is awaited, then acted upon.
BranchReads(k) ==
  /\ branches[k] = "asks"
  /\ branches' = [branches EXCEPT ![k] = IF config = "native" THEN "native" ELSE "kept"]
  /\ UNCHANGED <<lifecycleVars, config, owed, asked, bridgeVars, spent>>

BranchRetires(k) ==
  /\ branches[k] = "native" /\ RetireForMachineBroker
  /\ branches' = [branches EXCEPT ![k] =
                    IF Spared \/ (cur = NoOne /\ ~InTransition) THEN "gone" ELSE "drains"]
  /\ UNCHANGED <<config, owed, asked, bridgeVars, spent>>

-----------------------------------------------------------------------------
(* The bridge.                                                             *)

\* retireLocalEngines: who finds an attempt in flight joins it.
Attempt ==
  IF flight # 0 THEN UNCHANGED <<branches, flight>>
  ELSE /\ branches' = Append(branches, "asks") /\ flight' = Len(branches) + 1

\* refresh finds the engine service.
Adopt ==
  /\ ~refreshing /\ remote' = TRUE
  /\ IF complete THEN UNCHANGED <<branches, flight, refreshing>>
     ELSE Attempt /\ refreshing' = TRUE
  /\ UNCHANGED <<lifecycleVars, config, owed, asked, complete, timer, spent>>

\* refresh finds a service that no longer owns engines. An unreachable service
\* changes nothing here.
Disown ==
  /\ ~refreshing /\ remote /\ Spends("flips", Flips) /\ remote' = FALSE
  /\ UNCHANGED <<lifecycleVars, config, owed, asked, branches, complete, flight,
                 refreshing, timer>>

\* The rest has ended by then; it may fail until it has.
Completes ==
  /\ flight # 0 /\ branches[flight] \in {"gone", "kept"}
  /\ complete' = TRUE /\ flight' = 0 /\ timer' = FALSE /\ refreshing' = FALSE
  /\ UNCHANGED <<lifecycleVars, config, owed, asked, branches, remote, spent>>

\* Mutant: only a refresh tries again.
RearmsNever == FALSE

\* scheduleRetirementRetry
Rearms == ~complete

\* The attempt is rejected: by the image manager's part, or by the rest.
Rejects ==
  /\ flight' = 0 /\ refreshing' = FALSE /\ timer' = (timer \/ Rearms)
  /\ UNCHANGED <<lifecycleVars, config, owed, asked, branches, remote, complete>>

PartFails == flight # 0 /\ branches[flight] = "failed" /\ Rejects /\ UNCHANGED spent

RestFails == flight # 0 /\ Spends("failures", Failures) /\ Rejects

TimerFires ==
  /\ timer /\ timer' = FALSE
  /\ IF ~complete /\ remote THEN Attempt
     ELSE UNCHANGED <<branches, flight>>
  /\ UNCHANGED <<lifecycleVars, config, owed, asked, remote, complete, refreshing, spent>>

-----------------------------------------------------------------------------
Branches ==
  \E k \in DOMAIN branches : BranchReads(k) \/ BranchRetires(k)

Bridge ==
  \/ Adopt \/ Disown \/ RestFails \/ Completes \/ PartFails \/ TimerFires

Next ==
  \/ \E r \in Request : ReadsConfig(r) \/ Route(r) \/ Uses(r)
  \/ Configure \/ Resets \/ Builds \/ Drains \/ \E ok \in BOOLEAN : Ends(ok)
  \/ Branches \/ Bridge

Spec == Init /\ [][Next]_vars

\* Promises settle and timers fire: operations, builds, drains and the rest end.
FairSpec ==
  /\ Spec
  /\ \A r \in Request : WF_vars(req[r].at = "runs" /\ Uses(r))
  /\ WF_vars(Builds) /\ WF_vars(Drains) /\ WF_vars(\E ok \in BOOLEAN : Ends(ok))
  /\ WF_vars(Branches) /\ WF_vars(Completes \/ PartFails)
  /\ WF_vars(TimerFires)

-----------------------------------------------------------------------------
(* Properties.                                                             *)

\* bridge.ts:92-99: once the image manager's part of a retirement has succeeded for an
\* on-device engine, there is none and there will be none, though the settings change,
\* the service changes its role, or requests wait from before.
GoneForGood ==
  (\E k \in DOMAIN branches : branches[k] = "gone") =>
    /\ brokerRetired
    /\ \A g \in Request : gens[g].native => ~Running(g)

\* bridge.ts:122-124: an adopted service gets the device for itself: the retirement
\* completes, whichever shutdown fails first, unless the service is given up.
RetirementCompletes == remote ~> complete \/ ~remote

=============================================================================
