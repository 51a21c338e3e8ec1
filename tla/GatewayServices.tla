--------------------------- MODULE GatewayServices ---------------------------
(***************************************************************************)
(* The services beside the node registry: broadcast hub, pending work,     *)
(* node probes, outbound deliveries, scheduled jobs, queued wakes, the     *)
(* runtime of an instance and the pairing of a device.  They share no      *)
(* state in the code, so a behaviour here is one of one of them: the       *)
(* states are the sum of theirs and not the product.  What they have in    *)
(* common is the event loop, which runs every step that is ready; that is  *)
(* the fairness of their liveness properties.                              *)
(***************************************************************************)
EXTENDS BroadcastHub, PendingWork, NodeProbe, Deliveries, ScheduledJobs, WakeQueue,
        RuntimeRefresh, NodePairing

CONSTANT Services \* the services a run looks at

ASSUME ServicesAssumption ==
  Services \subseteq {"hub", "work", "probes", "deliveries", "wakes", "missions", "queue",
                       "runtime", "pairing"}

VARIABLE focus \* the service of this behaviour

servicesVars ==
  <<hubVars, workVars, probeVars, deliveryVars, cronVars, queueVars, runtimeVars, pairingVars, focus>>

\* Of the scheduled jobs, those of one kind are there.
ServicesInit ==
  /\ HubInit /\ WorkInit /\ ProbeInit /\ DeliveryInit /\ CronInit /\ QueueInit /\ RuntimeInit
  /\ PairingInit
  /\ focus \in Services
  /\ removed = IF focus = "wakes" THEN MissionJobs ELSE WakeJobs

HubMoves ==
  /\ focus = "hub" /\ HubNext
  /\ UNCHANGED <<workVars, probeVars, deliveryVars, cronVars, queueVars, runtimeVars, pairingVars,
                 focus>>
WorkMoves ==
  /\ focus = "work" /\ WorkNext
  /\ UNCHANGED <<hubVars, probeVars, deliveryVars, cronVars, queueVars, runtimeVars, pairingVars,
                 focus>>
ProbesMove(A) ==
  /\ focus = "probes" /\ A
  /\ UNCHANGED <<hubVars, workVars, deliveryVars, cronVars, queueVars, runtimeVars, pairingVars,
                 focus>>
DeliveriesMove ==
  /\ focus = "deliveries" /\ DeliveryNext
  /\ UNCHANGED <<hubVars, workVars, probeVars, cronVars, queueVars, runtimeVars, pairingVars,
                 focus>>
JobsMove(A) ==
  /\ focus \in {"wakes", "missions"} /\ A
  /\ UNCHANGED <<hubVars, workVars, probeVars, deliveryVars, queueVars, runtimeVars, pairingVars,
                 focus>>
QueueMoves(A) ==
  /\ focus = "queue" /\ A
  /\ UNCHANGED <<hubVars, workVars, probeVars, deliveryVars, cronVars, runtimeVars, pairingVars,
                 focus>>
RuntimeMoves(A) ==
  /\ focus = "runtime" /\ A
  /\ UNCHANGED <<hubVars, workVars, probeVars, deliveryVars, cronVars, queueVars, pairingVars,
                 focus>>
PairingMoves ==
  /\ focus = "pairing" /\ PairingNext
  /\ UNCHANGED <<hubVars, workVars, probeVars, deliveryVars, cronVars, queueVars, runtimeVars,
                 focus>>

ServicesNext ==
  \/ HubMoves \/ WorkMoves \/ ProbesMove(ProbeNext) \/ DeliveriesMove
  \/ JobsMove(CronNext) \/ QueueMoves(QueueNext) \/ RuntimeMoves(RuntimeNext) \/ PairingMoves

ServicesSafety == ServicesInit /\ [][ServicesNext]_servicesVars

\* A probe ends, since invoke() has a timer; a caller whose task is over is
\* resumed; the tick comes round and goes on; so does the attention loop, the
\* timer threads run and a cooldown passes; a call of a client times out, and
\* close() kills a process that does not end.
ServicesFairness ==
  /\ \A p \in Probes : WF_servicesVars(ProbesMove(Finish(p) \/ Die(p)))
  /\ \A a \in Askers : WF_servicesVars(ProbesMove(ReturnFromProbe(a)))
  /\ WF_servicesVars(JobsMove(TickStep /\ CronNext))
  /\ \A d \in Workers : WF_servicesVars(QueueMoves(WorkerStep(d)))
  /\ WF_servicesVars(QueueMoves(LoopTicks)) /\ WF_servicesVars(QueueMoves(Cool))
  /\ \A d \in Drains : WF_servicesVars(RuntimeMoves(DrainStep(d)))
  /\ \A e \in Disconnectors : WF_servicesVars(RuntimeMoves(DrainAwaited(e) \/ CloseEnds(e)))
  /\ \A c \in Connectors : WF_servicesVars(RuntimeMoves(CopyInfo(c) \/ ConnectFails(c)))

ServicesSpec == ServicesSafety /\ ServicesFairness

---------------------------------------------------------------------------

\* The state of the service that moves stays in its domain; the others are as they began.
ServicesTypeOK ==
  CASE focus = "hub" -> HubTypeOK
    [] focus = "work" -> WorkTypeOK
    [] focus = "probes" -> ProbeTypeOK
    [] focus = "deliveries" -> DeliveryTypeOK
    [] focus \in {"wakes", "missions"} -> CronTypeOK
    [] focus = "queue" -> QueueTypeOK
    [] focus = "runtime" -> RuntimeTypeOK
    [] focus = "pairing" -> PairingTypeOK

=============================================================================
