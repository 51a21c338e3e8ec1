------------------------------ MODULE NodeProbe ------------------------------
(***************************************************************************)
(* GatewayRemoteNodeBinsService (services/gateway_remote_node_bins.py):    *)
(* callers that want the binaries of a node share one probe, a task that   *)
(* is kept in _inflight.  All of them await the task itself, so cancelling *)
(* any of them cancels the probe, and each hears of it when it is resumed. *)
(***************************************************************************)
EXTENDS Naturals, FiniteSets

CONSTANTS
  ProbeNodes, \* connected macOS nodes that can be probed
  Askers,     \* tasks that call refresh_for_node
  MaxProbes,  \* bound: probe tasks created
  MaxCancels  \* bound: callers cancelled

ASSUME ProbeAssumption == MaxProbes \in Nat /\ MaxCancels \in Nat

Probes == 1..MaxProbes

VARIABLES
  inflight,  \* _inflight: the probe of each node, 0 for none
  probe,     \* state of each task
  probes,    \* how many were created
  asker,     \* where each caller is, in which probe, of which node
  cancels    \* bound: callers cancelled so far

probeVars == <<inflight, probe, probes, asker, cancels>>


IdleAsker == [pc |-> "idle"]

ProbeInit ==
  /\ inflight = [n \in ProbeNodes |-> 0]
  /\ probe = [p \in Probes |-> "none"] /\ probes = 0
  /\ asker = [a \in Askers |-> IdleAsker]
  /\ cancels = 0

---------------------------------------------------------------------------

Running(p) == probe[p] \in {"running", "cancelling"}
Over(p) == probe[p] \in {"done", "cancelled"}

\* refresh_for_node up to its await.  An entry whose task is over but whose
\* creator has not been resumed is joined as well.
JoinProbe(a, n) ==
  /\ asker[a].pc = "idle" /\ inflight[n] # 0
  /\ asker' = [asker EXCEPT ![a] = [pc |-> "joined", in |-> inflight[n], node |-> n]]
  /\ UNCHANGED <<inflight, probe, probes, cancels>>

\* Mutant: the entry is made when the probe is over.
CreateUnrecorded(a, n) ==
  /\ asker[a].pc = "idle" /\ inflight[n] = 0 /\ probes < MaxProbes
  /\ probes' = probes + 1
  /\ probe' = [probe EXCEPT ![probes + 1] = "running"]
  /\ asker' = [asker EXCEPT ![a] = [pc |-> "created", in |-> probes + 1, node |-> n]]
  /\ UNCHANGED <<inflight, cancels>>

Create(a, n) ==
  /\ asker[a].pc = "idle" /\ inflight[n] = 0 /\ probes < MaxProbes
  /\ probes' = probes + 1
  /\ inflight' = [inflight EXCEPT ![n] = probes + 1]
  /\ probe' = [probe EXCEPT ![probes + 1] = "running"]
  /\ asker' = [asker EXCEPT ![a] = [pc |-> "created", in |-> probes + 1, node |-> n]]
  /\ UNCHANGED cancels

\* _refresh_for_node_uncoalesced ends: invoke has a timer, its answer or
\* failure is written to the pairing table.
Finish(p) ==
  /\ probe[p] = "running"
  /\ probe' = [probe EXCEPT ![p] = "done"]
  /\ UNCHANGED <<inflight, probes, asker, cancels>>

\* Cancelling a task that awaits another cancels that one; the caller itself
\* goes on when the probe is over.
CancelAsker(a) ==
  /\ asker[a].pc # "idle" /\ cancels < MaxCancels /\ cancels' = cancels + 1
  /\ probe[asker[a].in] = "running"
  /\ probe' = [probe EXCEPT ![asker[a].in] = "cancelling"]
  /\ UNCHANGED <<inflight, probes, asker>>

Die(p) ==
  /\ probe[p] = "cancelling"
  /\ probe' = [probe EXCEPT ![p] = "cancelled"]
  /\ UNCHANGED <<inflight, probes, asker, cancels>>

\* Mutant: only an answer removes the entry, not a cancellation.
ReturnOnAnswer(a) ==
  LET p == asker[a].in
  IN  /\ asker[a].pc # "idle" /\ Over(p)
      /\ asker' = [asker EXCEPT ![a] = IdleAsker]
      /\ inflight' = IF asker[a].pc = "created" /\ probe[p] = "done"
                     THEN [inflight EXCEPT ![asker[a].node] = 0] ELSE inflight
      /\ UNCHANGED <<probe, probes, cancels>>

\* The caller is resumed; the one that created the probe removes the entry,
\* whichever way the probe ended.
ReturnFromProbe(a) ==
  LET p == asker[a].in
  IN  /\ asker[a].pc # "idle" /\ Over(p)
      /\ asker' = [asker EXCEPT ![a] = IdleAsker]
      /\ inflight' = IF asker[a].pc = "created" /\ inflight[asker[a].node] = p
                     THEN [inflight EXCEPT ![asker[a].node] = 0] ELSE inflight
      /\ UNCHANGED <<probe, probes, cancels>>

ProbeNext ==
  \/ \E a \in Askers :
       \/ \E n \in ProbeNodes : JoinProbe(a, n) \/ Create(a, n)
       \/ CancelAsker(a) \/ ReturnFromProbe(a)
  \/ \E p \in Probes : Finish(p) \/ Die(p)

ProbeSpec == ProbeInit /\ [][ProbeNext]_probeVars

---------------------------------------------------------------------------

ProbeTypeOK ==
  /\ inflight \in [ProbeNodes -> 0..MaxProbes]
  /\ probe \in [Probes -> {"none", "running", "cancelling", "done", "cancelled"}]
  /\ probes \in 0..MaxProbes
  /\ asker \in [Askers -> {IdleAsker} \cup [pc : {"joined", "created"}, in : Probes,
                                       node : ProbeNodes]]
  /\ cancels \in Nat

\* A node never runs two probes at a time, with callers cancelled at any
\* moment and new ones coming while the old probe unwinds: a probe that runs
\* is in the table, under its node.
OneProbePerNode ==
  \A p \in Probes : Running(p) => \E n \in ProbeNodes : inflight[n] = p

\* No entry stays for ever: a probe that was cancelled would fail every later
\* caller of its node.
EntriesGo == \A n \in ProbeNodes, p \in Probes : inflight[n] = p ~> inflight[n] # p

=============================================================================
