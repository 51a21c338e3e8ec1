----------------------------- MODULE CallLedger -----------------------------
(***************************************************************************)
(* What CodexAppServerClient.call and GatewayNodeRegistry.invoke promise   *)
(* to the code that awaits them: every request gets an identifier of its   *)
(* own, it comes back once, with an answer only if the other side answered *)
(* that very request, and it does come back.                               *)
(***************************************************************************)
CONSTANT Ids

VARIABLES
  outcome,   \* what the call of each identifier came back with
  answered   \* identifiers the other side has answered

Outcomes == {"unused", "open", "answer", "raised"}

LedgerInit ==
  /\ outcome = [i \in Ids |-> "unused"]
  /\ answered = {}

Open(i) ==
  /\ outcome[i] = "unused"
  /\ outcome' = [outcome EXCEPT ![i] = "open"]
  /\ UNCHANGED answered

Answer(i) ==
  /\ outcome[i] # "unused"
  /\ i \notin answered
  /\ answered' = answered \cup {i}
  /\ UNCHANGED outcome

ReturnAnswer(i) ==
  /\ outcome[i] = "open"
  /\ i \in answered
  /\ outcome' = [outcome EXCEPT ![i] = "answer"]
  /\ UNCHANGED answered

Raise(i) ==
  /\ outcome[i] = "open"
  /\ outcome' = [outcome EXCEPT ![i] = "raised"]
  /\ UNCHANGED answered

LedgerNext ==
  \E i \in Ids : Open(i) \/ Answer(i) \/ ReturnAnswer(i) \/ Raise(i)

ledgerVars == <<outcome, answered>>

LedgerSafety == LedgerInit /\ [][LedgerNext]_ledgerVars

LedgerLiveness == \A i \in Ids : (outcome[i] = "open") ~> (outcome[i] # "open")

LedgerSpec == LedgerSafety /\ LedgerLiveness
=============================================================================
