----------------------------- MODULE NodePairing -----------------------------
(***************************************************************************)
(* The pairing of one device (services/gateway_node_pairing.py): what it   *)
(* asks for, what an operator grants, and a token for each role.  Every    *)
(* method reads rows, awaits, and writes whole rows back, so two of them   *)
(* can work from one reading; the process may die between their writes.    *)
(*                                                                         *)
(* Of the rows, roles are kept: names, capabilities and scopes come and go *)
(* with them and decide nothing here, but for whether a request has        *)
(* changed.  Who may approve what is left out: who may not, writes nothing.*)
(***************************************************************************)
EXTENDS Naturals

CONSTANTS
  PairRoles,    \* roles a device may have
  Requesters,   \* tasks in request()
  Approvers,    \* tasks in approve()
  Keepers,      \* tasks that update metadata, rotate or revoke
  MaxPairIds,   \* bound: request ids given out
  MaxPairDeaths \* bound: times the process dies

ASSUME PairingAssumption == MaxPairIds \in Nat /\ MaxPairDeaths \in Nat

VARIABLES
  pairRequest, \* the row of gateway_node_pairing_requests, unique for a device
  pairIds,     \* ids given out
  paired,      \* the row of gateway_node_paired_nodes
  roleToken,   \* gateway_node_device_tokens of each role
  requester, approver, keeper,
  owed,        \* history: roles a request() was told are pending, but for ...
  lost,        \* ... those an outdated write, an operator or a death disposed of
  pairDeaths   \* bound: so far

pairingRows == <<pairRequest, pairIds, paired, roleToken>>
pairingVars == <<pairingRows, requester, approver, keeper, owed, lost, pairDeaths>>

Nothing == [id |-> 0, roles |-> {}]
Unpaired == [there |-> FALSE, roles |-> {}]
AtEase == [pc |-> "idle"]

PairingInit ==
  /\ pairRequest = Nothing /\ pairIds = 0
  /\ paired = Unpaired /\ roleToken = [r \in PairRoles |-> "none"]
  /\ requester = [q \in Requesters |-> AtEase]
  /\ approver = [a \in Approvers |-> AtEase]
  /\ keeper = [k \in Keepers |-> AtEase]
  /\ owed = {} /\ lost = {} /\ pairDeaths = 0

Lose(roles) == lost' = lost \cup roles /\ owed' = owed \ lost'
Discard(id) == pairRequest' = IF pairRequest.id = id THEN Nothing ELSE pairRequest

\* What becomes of the roles of a row when one who read it as "old" writes "new".
\* Nobody else's write in between: then nothing is to excuse.
Outdated(old, now, new) ==
  IF old = now THEN {} ELSE (old.roles \ now.roles) \cup (now.roles \ new)

\* Roles that the request of this id has beyond those it was read with: it was
\* updated in place, which takes two request()s at once.
Since(id, roles) == IF pairRequest.id = id THEN pairRequest.roles \ roles ELSE {}

---------------------------------------------------------------------------
(* request()                                                               *)

\* A request that names no role asks for what is pending; one that differs in
\* its roles, scopes or key replaces it, and adds to its roles.
AskPairing(q, roles, differs) ==
  LET old == pairRequest
      wanted == IF roles = {} THEN old.roles ELSE roles
      same == wanted = old.roles /\ ~differs
  IN  /\ requester[q].pc = "idle"
      /\ requester' = [requester EXCEPT ![q] =
           IF old = Nothing \/ same
           THEN [pc |-> "writing", old |-> old, roles |-> wanted]
           ELSE [pc |-> "replacing", old |-> old, roles |-> old.roles \cup wanted]]
      /\ UNCHANGED <<pairingRows, approver, keeper, owed, lost, pairDeaths>>

Replace(q) ==
  /\ requester[q].pc = "replacing"
  /\ Discard(requester[q].old.id)
  /\ requester' = [requester EXCEPT ![q].pc = "replaced"]
  /\ Lose(Since(requester[q].old.id, requester[q].old.roles))
  /\ UNCHANGED <<pairIds, paired, roleToken, approver, keeper, pairDeaths>>

\* The upsert: a row that is there keeps its id.
WriteRequest(q) ==
  LET found == pairRequest # Nothing
      old == IF requester[q].pc = "replaced" THEN Nothing ELSE requester[q].old
      roles == requester[q].roles
  IN  /\ requester[q].pc \in {"writing", "replaced"}
      /\ found \/ pairIds < MaxPairIds
      /\ pairIds' = IF found THEN pairIds ELSE pairIds + 1
      /\ pairRequest' = [id |-> IF found THEN pairRequest.id ELSE pairIds', roles |-> roles]
      /\ requester' = [requester EXCEPT ![q] = AtEase]
      /\ lost' = lost \cup (IF old = pairRequest THEN {} ELSE pairRequest.roles \ roles)
      /\ owed' = (owed \cup roles) \ lost'
      /\ UNCHANGED <<paired, roleToken, approver, keeper, pairDeaths>>

---------------------------------------------------------------------------
(* approve() and reject()                                                  *)

Approve(a) ==
  /\ approver[a].pc = "idle" /\ pairRequest # Nothing
  /\ approver' = [approver EXCEPT ![a] = [pc |-> "read", request |-> pairRequest]]
  /\ UNCHANGED <<pairingRows, requester, keeper, owed, lost, pairDeaths>>

ReadPaired(a) ==
  /\ approver[a].pc = "read"
  /\ approver' = [approver EXCEPT ![a] =
                    [pc |-> "pairing", request |-> @.request, old |-> paired]]
  /\ UNCHANGED <<pairingRows, requester, keeper, owed, lost, pairDeaths>>

\* Mutant: the request is deleted as soon as the device is paired.
PairAndDiscard(a) ==
  LET request == approver[a].request
      roles == approver[a].old.roles \cup request.roles
  IN  /\ approver[a].pc = "pairing" /\ Discard(request.id)
      /\ paired' = [there |-> TRUE, roles |-> roles]
      /\ approver' = [approver EXCEPT ![a] =
                        [pc |-> "granting", request |-> request, todo |-> request.roles]]
      /\ Lose(Outdated(approver[a].old, paired, roles))
      /\ UNCHANGED <<pairIds, roleToken, requester, keeper, pairDeaths>>

\* The device gets the roles it asked for beside those it has.
Pair(a) ==
  LET request == approver[a].request
      roles == approver[a].old.roles \cup request.roles
  IN  /\ approver[a].pc = "pairing"
      /\ paired' = [there |-> TRUE, roles |-> roles]
      /\ approver' = [approver EXCEPT ![a] =
                        [pc |-> "granting", request |-> request, todo |-> request.roles]]
      /\ Lose(Outdated(approver[a].old, paired, roles))
      /\ UNCHANGED <<pairRequest, pairIds, roleToken, requester, keeper, pairDeaths>>

\* One role after the other.
Grant(a) ==
  /\ approver[a].pc = "granting"
  /\ \E r \in approver[a].todo :
       /\ roleToken' = [roleToken EXCEPT ![r] = "valid"]
       /\ approver' = [approver EXCEPT ![a].todo = @ \ {r}]
  /\ UNCHANGED <<pairRequest, pairIds, paired, requester, keeper, owed, lost, pairDeaths>>

EndApproval(a, id) ==
  /\ approver[a].pc = "granting" /\ approver[a].todo = {}
  /\ Discard(id)
  /\ approver' = [approver EXCEPT ![a] = AtEase]
  /\ Lose(Since(approver[a].request.id, approver[a].request.roles))
  /\ UNCHANGED <<pairIds, paired, roleToken, requester, keeper, pairDeaths>>

\* Mutant: whatever the device asks for by now is over.
ApprovedAll(a) == EndApproval(a, pairRequest.id)

\* Only the request that was read is over.
Approved(a) == EndApproval(a, approver[a].request.id)

Reject ==
  /\ pairRequest # Nothing /\ pairRequest' = Nothing
  /\ Lose(pairRequest.roles)
  /\ UNCHANGED <<pairIds, paired, roleToken, requester, approver, keeper, pairDeaths>>

---------------------------------------------------------------------------
(* remove(), and what is done to a device that is paired                   *)

Unpair ==
  /\ paired.there /\ paired' = Unpaired
  /\ roleToken' = [r \in PairRoles |-> "none"]
  /\ Lose(paired.roles)
  /\ UNCHANGED <<pairRequest, pairIds, requester, approver, keeper, pairDeaths>>

\* Metadata of a device, and rotation or revocation of a token.
ReadToKeep(k) ==
  /\ keeper[k].pc = "idle" /\ paired.there
  /\ \/ keeper' = [keeper EXCEPT ![k] = [pc |-> "refreshing", old |-> paired]]
     \/ \E r \in paired.roles, pc \in {"rotating", "revoking"} :
          /\ pc = "revoking" => roleToken[r] # "none"
          /\ keeper' = [keeper EXCEPT ![k] = [pc |-> pc, role |-> r]]
  /\ UNCHANGED <<pairingRows, requester, approver, owed, lost, pairDeaths>>

\* update_paired_node_metadata writes the whole row it read.
RefreshPaired(k) ==
  /\ keeper[k].pc = "refreshing" /\ keeper' = [keeper EXCEPT ![k] = AtEase]
  /\ paired' = keeper[k].old
  /\ Lose(Outdated(keeper[k].old, paired, keeper[k].old.roles))
  /\ UNCHANGED <<pairRequest, pairIds, roleToken, requester, approver, pairDeaths>>

\* Rotation makes a token that is not there, revocation does not.
ChangeToken(k) ==
  /\ keeper[k].pc \in {"rotating", "revoking"} /\ keeper' = [keeper EXCEPT ![k] = AtEase]
  /\ roleToken' = [roleToken EXCEPT ![keeper[k].role] =
                     IF keeper[k].pc = "rotating" THEN "valid"
                     ELSE IF @ = "none" THEN @ ELSE "revoked"]
  /\ UNCHANGED <<pairRequest, pairIds, paired, requester, approver, owed, lost, pairDeaths>>

\* The process dies.  The roles of a request that is being replaced are in no row.
InHand == UNION {requester[q].roles : q \in {q \in Requesters : requester[q].pc = "replaced"}}
PairingDies ==
  /\ pairDeaths < MaxPairDeaths /\ pairDeaths' = pairDeaths + 1
  /\ Lose(InHand)
  /\ requester' = [q \in Requesters |-> AtEase] /\ approver' = [a \in Approvers |-> AtEase]
  /\ keeper' = [k \in Keepers |-> AtEase]
  /\ UNCHANGED <<pairingRows>>

PairingNext ==
  \/ \E q \in Requesters :
       \/ \E roles \in SUBSET PairRoles, differs \in BOOLEAN : AskPairing(q, roles, differs)
       \/ Replace(q) \/ WriteRequest(q)
  \/ \E a \in Approvers : Approve(a) \/ ReadPaired(a) \/ Pair(a) \/ Grant(a) \/ Approved(a)
  \/ \E k \in Keepers : ReadToKeep(k) \/ RefreshPaired(k) \/ ChangeToken(k)
  \/ Reject \/ Unpair \/ PairingDies

PairingSpec == PairingInit /\ [][PairingNext]_pairingVars

---------------------------------------------------------------------------

PairingTypeOK ==
  /\ pairRequest \in [id : 0..MaxPairIds, roles : SUBSET PairRoles]
  /\ pairIds \in 0..MaxPairIds
  /\ paired \in [there : BOOLEAN, roles : SUBSET PairRoles]
  /\ roleToken \in [PairRoles -> {"none", "valid", "revoked"}]
  /\ \A q \in Requesters : requester[q].pc \in {"idle", "writing", "replacing", "replaced"}
  /\ \A a \in Approvers : approver[a].pc \in {"idle", "read", "pairing", "granting"}
  /\ \A k \in Keepers : keeper[k].pc \in {"idle", "refreshing", "rotating", "revoking"}
  /\ {owed, lost} \subseteq SUBSET PairRoles /\ pairDeaths \in 0..MaxPairDeaths

\* What a device was told is pending stays pending until it is granted, through
\* requests that replace it, approvals of an older one and a process that dies.
\* An operator dismisses it, or a write from an outdated reading loses it.
AskedRolesStay == owed \subseteq pairRequest.roles \cup paired.roles \cup InHand

\* A role that is granted comes with a token: one that an approval has not made
\* yet, or never makes because it died, is still pending, to be approved again.
GrantsHaveTokens ==
  \A r \in paired.roles \cap owed : roleToken[r] # "none" \/ r \in pairRequest.roles \cup InHand

=============================================================================
