--------------------------- MODULE GovernanceProofs ---------------------------
(***************************************************************************)
(* Theorems about Governance, for every value of its constants.            *)
(***************************************************************************)
EXTENDS Governance, FiniteSetTheorems, WellFoundedInduction, TLAPS

-------------------------------------------------------------------------------
(* Type correctness *)

\* An approver list never has a position beyond the sixteen of the bitmap.
LEMMA ListPositions ==
    ASSUME NEW l \in ApproverLists
    PROVE  DOMAIN l \subseteq ApproverIndices
BY SMT DEF ApproverLists, ApproverIndices, MaxApprovers

\* approver_index returns a position of the list that holds the address, or 0.
LEMMA ApproverIndexOf ==
    ASSUME NEW l \in ApproverLists, NEW m, approver_index(l, m) # 0
    PROVE  /\ approver_index(l, m) \in DOMAIN l
           /\ l[approver_index(l, m)] = m
<1> DEFINE at == {k \in DOMAIN l : l[k] = m}
           first(k) == \A j \in at : k <= j
<1>1. at # {}
  BY DEF approver_index
<1>2. at \in SUBSET Nat /\ at # {}
  BY <1>1, ListPositions DEF ApproverIndices
<1>3. \E k \in at : first(k)
  <2>1. PICK k \in at : \A j \in at : ~(<<j, k>> \in OpToRel(<, Nat))
    BY <1>2, NatLessThanWellFounded, WFMin
  <2>2. \A j \in at : ~(j < k)
    BY <1>2, <2>1 DEF OpToRel
  <2> QED
    BY <1>2, <2>2
<1>4. (CHOOSE k \in at : first(k)) \in at
  BY <1>3
<1> QED
  BY <1>1, <1>4 DEF approver_index

\* The record of an absent intent, and any body or creation argument, has the
\* type of an intent record.
LEMMA RecordTypes ==
    /\ NoIntent \in IntentRecords
    /\ \A b \in Bodies \cup {NoIntent} : b \in IntentRecords
    /\ NoProposal \in ProposalRecords
    /\ Targets \subseteq IntentIds /\ 0 \in IntentIds
<1>1. <<>> \in ApproverLists
  BY SMT DEF ApproverLists, MaxApprovers
<1>2. NoIntent \in IntentRecords
  BY <1>1 DEF NoIntent, IntentRecords
<1>3. NoProposal \in ProposalRecords
  BY BoundsAssumption DEF NoProposal, ProposalRecords, Statuses, Kinds,
     TypedKinds, IntentTypes, IntentIds
<1> QED
  BY <1>2, <1>3, BodiesAssumption, BoundsAssumption DEF IntentIds

\* Storing a new proposal keeps every account well formed.
LEMMA StoreProposalType ==
    ASSUME TypeOK, NEW m \in Members, NEW i \in IntentIds,
           NEW typed \in BOOLEAN, NEW kind \in Kinds, NEW target \in IntentIds,
           NEW body \in Bodies \cup {NoIntent},
           NEW expires \in 0 .. (MaxTime + MaxTTL),
           StoreProposal(m, i, typed, kind, target, body, expires)
    PROVE  TypeOK'
<1> DEFINE idx  == approver_index(intent[i].approvers, m)
           bits == IF idx = 0 THEN {} ELSE {idx}
<1> USE BoundsAssumption
<1>1. intent[i] \in IntentRecords /\ intent[i].approvers \in ApproverLists
  BY DEF TypeOK, IntentRecords
<1>2. bits \in SUBSET ApproverIndices
  BY <1>1, ApproverIndexOf, ListPositions
<1>3. proposal' \in [ProposalIds -> ProposalRecords]
  <2>1. now \in 0 .. MaxTime
    BY DEF TypeOK
  <2>2. \A met \in BOOLEAN :
          [status |-> IF met THEN "Approved" ELSE "Active",
           typed |-> typed, kind |-> kind, intent |-> i,
           target |-> target, body |-> body,
           approved_at |-> IF met THEN now ELSE 0, expires_at |-> expires,
           approvals |-> bits, cancellations |-> {}] \in ProposalRecords
    BY <1>2, <2>1 DEF ProposalRecords, Statuses
  <2> QED
    BY <2>2 DEF TypeOK, StoreProposal
<1>4. {[idx |-> k, member |-> m, at |-> now] : k \in bits} \in SUBSET Votes
  BY <1>2 DEF TypeOK, Votes
<1>5. cast' \in [ProposalIds -> SUBSET Votes]
  BY <1>4 DEF TypeOK, StoreProposal
<1>6. intent' \in [IntentIds -> IntentRecords]
  BY DEF TypeOK, StoreProposal, IntentRecords
<1>7. proposal_index' \in 0 .. MaxProposals
  BY DEF TypeOK, StoreProposal
<1> QED
  BY <1>3, <1>5, <1>6, <1>7 DEF TypeOK, StoreProposal

\* An approval vote keeps every account well formed.
LEMMA SetApprovalType ==
    ASSUME TypeOK, NEW p \in ProposalIds, NEW idx \in ApproverIndices,
           NEW m \in Members, SetApproval(p, idx, m)
    PROVE  TypeOK'
<1>1. proposal' \in [ProposalIds -> ProposalRecords]
  <2>1. proposal[p] \in ProposalRecords /\ now \in 0 .. MaxTime
    BY DEF TypeOK
  <2> DEFINE met == Cardinality(proposal[p].approvals \cup {idx})
                      >= IntentOf(p).approval_threshold
             s == IF met THEN "Approved" ELSE proposal[p].status
             t == ApprovedAt(proposal[p], met)
             A == proposal[p].approvals \cup {idx}
             C == proposal[p].cancellations \ {idx}
  <2>a. proposal'[p] = [proposal[p] EXCEPT !.approvals = A, !.cancellations = C,
                                           !.status = s, !.approved_at = t]
    BY DEF TypeOK, SetApproval
  <2>b. /\ s \in Statuses /\ t \in 0 .. MaxTime
        /\ A \in SUBSET ApproverIndices /\ C \in SUBSET ApproverIndices
    BY <2>1 DEF ProposalRecords, Statuses, ApprovedAt
  <2> HIDE DEF met, s, t, A, C
  <2>2. proposal'[p] \in ProposalRecords
    BY <2>1, <2>a, <2>b DEF ProposalRecords
  <2> QED
    BY <2>2 DEF TypeOK, SetApproval
<1>2. cast' \in [ProposalIds -> SUBSET Votes]
  BY DEF TypeOK, SetApproval, Votes
<1> QED
  BY <1>1, <1>2 DEF TypeOK, SetApproval

\* And a cancellation vote.
LEMMA SetCancellationType ==
    ASSUME TypeOK, NEW p \in ProposalIds, NEW idx \in ApproverIndices,
           SetCancellation(p, idx)
    PROVE  TypeOK'
<1>1. proposal' \in [ProposalIds -> ProposalRecords]
  <2>1. proposal[p] \in ProposalRecords
    BY DEF TypeOK
  <2> DEFINE A == proposal[p].approvals \ {idx}
             C == proposal[p].cancellations \cup {idx}
             s == StatusAfterCancel(proposal[p],
                    Cardinality(C) >= IntentOf(p).cancellation_threshold,
                    Cardinality(A) < IntentOf(p).approval_threshold)
  <2>a. proposal'[p] = [proposal[p] EXCEPT !.approvals = A,
                                           !.cancellations = C, !.status = s]
    BY DEF TypeOK, SetCancellation
  <2>b. /\ s \in Statuses /\ proposal[p].approved_at \in 0 .. MaxTime
        /\ A \in SUBSET ApproverIndices /\ C \in SUBSET ApproverIndices
    BY <2>1 DEF ProposalRecords, Statuses, StatusAfterCancel
  <2> HIDE DEF s, A, C
  <2>2. proposal'[p] \in ProposalRecords
    BY <2>1, <2>a, <2>b DEF ProposalRecords
  <2> QED
    BY <2>2 DEF TypeOK, SetCancellation
<1>2. cast' \in [ProposalIds -> SUBSET Votes]
  BY DEF TypeOK, SetCancellation
<1>3. proposal[p].intent \in IntentIds
  BY DEF TypeOK, ProposalRecords
<1>4. intent' \in [IntentIds -> IntentRecords]
  BY <1>3 DEF TypeOK, SetCancellation, IntentRecords, saturating_sub
<1> QED
  BY <1>1, <1>2, <1>4 DEF TypeOK, SetCancellation

\* And consuming a proposal, whatever well-formed intents its action leaves.
LEMMA MarkExecutedType ==
    ASSUME TypeOK, NEW p \in ProposalIds,
           NEW rules \in [IntentIds -> IntentRecords], MarkExecuted(p, rules),
           intent_index' \in 2 .. MaxIntentIndex
    PROVE  TypeOK'
<1>1. proposal' \in [ProposalIds -> ProposalRecords]
  BY DEF TypeOK, MarkExecuted, ProposalRecords, Statuses
<1>2. proposal[p].intent \in IntentIds
  BY DEF TypeOK, ProposalRecords
<1>3. intent' \in [IntentIds -> IntentRecords]
  <2> DEFINE i == proposal[p].intent
  <2>1. rules[i] \in IntentRecords
    BY <1>2
  <2>2. [rules[i] EXCEPT !.active = saturating_sub(@)] \in IntentRecords
    BY <2>1 DEF IntentRecords, saturating_sub
  <2> QED
    BY <1>2, <2>2 DEF MarkExecuted
<1> QED
  BY <1>1, <1>3 DEF TypeOK, MarkExecuted

\* Each executor is MarkExecuted on well-formed intents.
LEMMA ExecuteType ==
    ASSUME TypeOK, NEW p \in ProposalIds, Execute(p)
    PROVE  TypeOK'
<1> USE BoundsAssumption
<1>1. proposal[p] \in ProposalRecords /\ proposal[p].target \in IntentIds
      /\ proposal[p].body \in IntentRecords
  BY RecordTypes DEF TypeOK, ProposalRecords
<1>2. CASE ExecuteAddIntent(p)
  <2>1. intent_index' \in 2 .. MaxIntentIndex
    BY <1>2 DEF ExecuteAddIntent, TypeOK
  <2>2. [intent EXCEPT ![intent_index + 1] = proposal[p].body]
          \in [IntentIds -> IntentRecords]
    BY <1>1, <1>2 DEF ExecuteAddIntent, TypeOK
  <2> QED
    BY <1>2, <2>1, <2>2, MarkExecutedType DEF ExecuteAddIntent
<1>3. CASE ExecuteRemoveIntent(p)
  <2>1. [intent EXCEPT ![proposal[p].target].approved = FALSE]
          \in [IntentIds -> IntentRecords]
    BY <1>1 DEF TypeOK, IntentRecords
  <2>2. intent_index' \in 2 .. MaxIntentIndex
    BY <1>3 DEF ExecuteRemoveIntent, TypeOK
  <2> QED
    BY <1>3, <2>1, <2>2, MarkExecutedType DEF ExecuteRemoveIntent
<1>4. CASE ExecuteUpdateIntent(p) \/ ExecuteTypedIntentGovernance(p)
  <2>1. [intent EXCEPT ![proposal[p].target] = proposal[p].body]
          \in [IntentIds -> IntentRecords]
    BY <1>1 DEF TypeOK
  <2>2. intent_index' \in 2 .. MaxIntentIndex
    BY <1>4 DEF ExecuteUpdateIntent, ExecuteTypedIntentGovernance, TypeOK
  <2> QED
    BY <1>4, <2>1, <2>2, MarkExecutedType
       DEF ExecuteUpdateIntent, ExecuteTypedIntentGovernance
<1>5. CASE ExecuteCustom(p) \/ IkaSign(p) \/ ExecuteTypedAction(p)
  <2>1. intent \in [IntentIds -> IntentRecords]
    BY DEF TypeOK
  <2>2. intent_index' \in 2 .. MaxIntentIndex
    BY <1>5 DEF ExecuteCustom, IkaSign, ExecuteTypedAction, TypeOK
  <2> QED
    BY <1>5, <2>1, <2>2, MarkExecutedType
       DEF ExecuteCustom, IkaSign, ExecuteTypedAction
<1> QED
  BY <1>2, <1>3, <1>4, <1>5 DEF Execute

\* Closing an account and the passing of time keep every account well formed.
LEMMA CloseType ==
    ASSUME TypeOK, NEW p \in ProposalIds, Close(p)
    PROVE  TypeOK'
<1>1. [NoProposal EXCEPT !.status = "Closed"] \in ProposalRecords
  BY RecordTypes DEF ProposalRecords, NoProposal, Statuses
<1> QED
  BY <1>1 DEF TypeOK, Close

\* create_wallet leaves every account well formed.
LEMMA InitType == Init => TypeOK
<1> SUFFICES ASSUME Init PROVE TypeOK
  OBVIOUS
<1>1. PICK a \in CreateArgs :
        intent = [i \in IntentIds |->
                    CASE i = 0 -> [a EXCEPT !.type = "AddIntent"]
                      [] i = 1 -> [a EXCEPT !.type = "RemoveIntent"]
                      [] i = 2 -> [a EXCEPT !.type = "UpdateIntent"]
                      [] OTHER -> NoIntent]
  BY DEF Init
<1>2. /\ [a EXCEPT !.type = "AddIntent"] \in IntentRecords
      /\ [a EXCEPT !.type = "RemoveIntent"] \in IntentRecords
      /\ [a EXCEPT !.type = "UpdateIntent"] \in IntentRecords
  BY CreateArgsAssumption DEF IntentRecords, IntentTypes
<1>3. intent \in [IntentIds -> IntentRecords]
  BY <1>1, <1>2, RecordTypes
<1> QED
  BY <1>3, RecordTypes, BoundsAssumption DEF Init, TypeOK

\* Every instruction keeps every account well formed.
LEMMA NextType == TypeOK /\ [Next]_vars => TypeOK'
<1> SUFFICES ASSUME TypeOK, [Next]_vars PROVE TypeOK'
  OBVIOUS
<1> USE BoundsAssumption
<1>1. ASSUME NEW m \in Members, NEW i \in IntentIds, Propose(m, i)
      PROVE  TypeOK'
  <2>1. intent[i].type \in IntentTypes
    BY <1>1 DEF Propose, TypeOK, IntentRecords
  <2>2. PICK params \in LegacyParams(intent[i].type) :
          StoreProposal(m, i, FALSE, intent[i].type, params[1], params[2], 0)
    BY <1>1 DEF Propose
  <2>3. params[1] \in IntentIds /\ params[2] \in Bodies \cup {NoIntent}
    BY <2>1, RecordTypes DEF LegacyParams, IntentTypes
  <2>4. 0 \in 0 .. (MaxTime + MaxTTL) /\ intent[i].type \in Kinds
        /\ FALSE \in BOOLEAN
    BY <2>1 DEF Kinds
  <2> QED
    BY <2>2, <2>3, <2>4, StoreProposalType
<1>2. ASSUME NEW m \in Members, NEW i \in IntentIds, ProposeTypedV4(m, i)
      PROVE  TypeOK'
  <2>1. PICK kind \in TypedKinds, expires \in (now + 1) .. (now + MaxTTL) :
          \E params \in TypedParams(kind) :
            StoreProposal(m, i, TRUE, kind, params[1], params[2], expires)
    BY <1>2 DEF ProposeTypedV4
  <2>2. PICK params \in TypedParams(kind) :
          StoreProposal(m, i, TRUE, kind, params[1], params[2], expires)
    BY <2>1
  <2>3. params[1] \in IntentIds /\ params[2] \in Bodies \cup {NoIntent}
    BY RecordTypes DEF TypedParams
  <2>4. expires \in 0 .. (MaxTime + MaxTTL)
    BY DEF TypeOK
  <2>5. kind \in Kinds /\ TRUE \in BOOLEAN
    BY DEF Kinds
  <2> QED
    BY <2>2, <2>3, <2>4, <2>5, StoreProposalType
<1>3. ASSUME NEW p \in ProposalIds, Vote(p) PROVE TypeOK'
  BY <1>3, SetApprovalType, SetCancellationType
     DEF Vote, Approve, ApproveTyped, Cancel, CancelTyped
<1>4. ASSUME NEW p \in ProposalIds, Execute(p) PROVE TypeOK'
  BY <1>4, ExecuteType
<1>5. ASSUME NEW p \in ProposalIds, CleanupProposal(p) \/ CleanupTypedProposal(p)
      PROVE  TypeOK'
  BY <1>5, CloseType DEF CleanupProposal, CleanupTypedProposal
<1>6. CASE Tick
  BY <1>6 DEF Tick, TypeOK
<1>7. CASE UNCHANGED vars
  BY <1>7 DEF vars, TypeOK
<1> QED
  BY <1>1, <1>2, <1>3, <1>4, <1>5, <1>6, <1>7 DEF Next

\* Every account always holds well-formed data.
THEOREM TypeCorrect == Spec => []TypeOK
BY InitType, NextType, PTL DEF Spec

-------------------------------------------------------------------------------
(* Counting open proposals *)

\* The open proposals of an intent can be counted.
LEMMA OpenFinite ==
    ASSUME NEW i
    PROVE  IsFiniteSet(OpenOn(i)) /\ Cardinality(OpenOn(i)) \in Nat
<1>1. IsFiniteSet(ProposalIds)
  BY FS_Interval, BoundsAssumption DEF ProposalIds
<1>2. OpenOn(i) \subseteq ProposalIds
  BY DEF OpenOn
<1> QED
  BY <1>1, <1>2, FS_Subset, FS_CardinalityType

\* The same of the next state.
LEMMA OpenFiniteNext ==
    ASSUME NEW i
    PROVE  IsFiniteSet(OpenOn(i)') /\ Cardinality(OpenOn(i)') \in Nat
<1>1. IsFiniteSet(ProposalIds)
  BY FS_Interval, BoundsAssumption DEF ProposalIds
<1>2. OpenOn(i)' \subseteq ProposalIds
  BY DEF OpenOn
<1> QED
  BY <1>1, <1>2, FS_Subset, FS_CardinalityType

\* A zero count means that no proposal of the intent is open.
LEMMA ZeroMeansNone ==
    ASSUME ActiveCountExact, NEW i \in IntentIds, intent[i].active = 0
    PROVE  OpenOn(i) = {}
BY OpenFinite, FS_EmptySet DEF ActiveCountExact

\* When a proposal is closed to votes, its own intent's count is one less.
LEMMA CountWhenClosed ==
    ASSUME NEW p \in ProposalIds, Open(p), ~Open(p)',
           \A q \in ProposalIds \ {p} : proposal'[q] = proposal[q],
           NEW j
    PROVE  /\ j # proposal[p].intent => OpenOn(j)' = OpenOn(j)
           /\ j = proposal[p].intent =>
                /\ OpenOn(j)' = OpenOn(j) \ {p}
                /\ Cardinality(OpenOn(j)') = Cardinality(OpenOn(j)) - 1
                /\ Cardinality(OpenOn(j)) > 0
<1>1. ASSUME j # proposal[p].intent PROVE OpenOn(j)' = OpenOn(j)
  BY <1>1 DEF OpenOn, Open
<1>2. ASSUME j = proposal[p].intent
      PROVE  p \in OpenOn(j) /\ OpenOn(j)' = OpenOn(j) \ {p}
  BY <1>2 DEF OpenOn, Open
<1>3. ASSUME p \in OpenOn(j), OpenOn(j)' = OpenOn(j) \ {p}
      PROVE  /\ Cardinality(OpenOn(j)') = Cardinality(OpenOn(j)) - 1
             /\ Cardinality(OpenOn(j)) > 0
  <2>1. Cardinality(OpenOn(j) \ {p}) = Cardinality(OpenOn(j)) - 1
    BY <1>3, OpenFinite, FS_RemoveElement
  <2>2. Cardinality(OpenOn(j)) # 0
    BY <1>3, OpenFinite, FS_EmptySet
  <2> QED
    BY <1>3, <2>1, <2>2, OpenFinite
<1> QED
  BY <1>1, <1>2, <1>3

-------------------------------------------------------------------------------
(* The inductive invariant *)

\* The parts of GovInv that speak of one open proposal.
OpenOK(q) ==
    /\ proposal[q].status = "Approved" =>
         Cardinality(proposal[q].approvals) >= IntentOf(q).approval_threshold
    /\ Open(q) =>
         /\ IntentOf(q).approved
         /\ proposal[q].approvals = {v.idx : v \in cast[q]}
         /\ \A v \in cast[q] :
              /\ v.idx \in DOMAIN IntentOf(q).approvers
              /\ IntentOf(q).approvers[v.idx] = v.member

\* GovInv in terms of those parts.
LEMMA GovInvParts ==
    GovInv <=> /\ TypeOK /\ ActiveCountExact /\ FreshIntents
               /\ \A q \in ProposalIds : OpenOK(q)
BY DEF GovInv, QuorumHolds, BackedApprovals, OpenOnApprovedIntent, OpenOK

\* The same in the next state.
LEMMA GovInvPartsNext ==
    GovInv' <=> /\ TypeOK' /\ ActiveCountExact' /\ FreshIntents'
                /\ \A q \in ProposalIds : OpenOK(q)'
BY DEF GovInv, QuorumHolds, BackedApprovals, OpenOnApprovedIntent, OpenOK

\* A proposal that a step leaves alone stays well backed when the step also
\* leaves alone the rules of its intent.
LEMMA Untouched ==
    ASSUME NEW q \in ProposalIds, OpenOK(q),
           proposal'[q] = proposal[q], cast'[q] = cast[q],
           Open(q) => /\ IntentOf(q)'.approved = IntentOf(q).approved
                      /\ IntentOf(q)'.approvers = IntentOf(q).approvers
                      /\ IntentOf(q)'.approval_threshold
                           = IntentOf(q).approval_threshold
    PROVE  OpenOK(q)'
BY DEF OpenOK, Open

\* A new proposal: the proposer's own bit is backed, one more is open.
LEMMA StoreProposalInv ==
    ASSUME GovInv, TypeOK', NEW m \in Members, NEW i \in IntentIds,
           NEW typed, NEW kind, NEW target, NEW body, NEW expires,
           StoreProposal(m, i, typed, kind, target, body, expires)
    PROVE  GovInv'
<1> DEFINE idx  == approver_index(intent[i].approvers, m)
           bits == IF idx = 0 THEN {} ELSE {idx}
<1>0. /\ TypeOK /\ ActiveCountExact /\ FreshIntents
      /\ \A q \in ProposalIds : OpenOK(q)
  BY GovInvParts
<1>a. PICK p \in ProposalIds : p = proposal_index
  BY <1>0, BoundsAssumption DEF TypeOK, StoreProposal, ProposalIds
<1>1. p \in ProposalIds /\ ~Open(p)
  BY <1>a DEF StoreProposal, Open
<1>2. /\ intent'[i] = [intent[i] EXCEPT !.active = @ + 1]
      /\ \A j \in IntentIds \ {i} : intent'[j] = intent[j]
  BY <1>0 DEF TypeOK, StoreProposal
<1>3. \A q \in ProposalIds \ {p} :
        proposal'[q] = proposal[q] /\ cast'[q] = cast[q]
  BY <1>0, <1>a DEF TypeOK, StoreProposal
<1>4. /\ proposal'[p].intent = i
      /\ proposal'[p].status \in {"Active", "Approved"}
      /\ proposal'[p].status = "Approved" =>
           idx # 0 /\ intent[i].approval_threshold <= 1
      /\ proposal'[p].approvals = bits
      /\ cast'[p] = {[idx |-> k, member |-> m, at |-> now] : k \in bits}
  BY <1>0, <1>a DEF TypeOK, StoreProposal
<1>5. intent[i].approved /\ intent[i] \in IntentRecords
  BY <1>0 DEF StoreProposal, TypeOK
<1>6. OpenOK(p)'
  <2>1. IntentOf(p)' = intent'[i]
    BY <1>4 DEF IntentOf
  <2>2. /\ intent'[i].approved /\ intent'[i].approvers = intent[i].approvers
        /\ intent'[i].approval_threshold = intent[i].approval_threshold
    BY <1>2, <1>5 DEF IntentRecords
  <2>3. idx # 0 => Cardinality(bits) = 1
    BY FS_Singleton
  <2>4. proposal'[p].status = "Approved" =>
          Cardinality(proposal'[p].approvals) >= IntentOf(p)'.approval_threshold
    BY <1>4, <1>5, <2>1, <2>2, <2>3 DEF IntentRecords
  <2>5. proposal'[p].approvals = {v.idx : v \in cast'[p]}
    <3>1. \A v \in cast'[p] : v.idx \in bits
      BY <1>4
    <3>2. ASSUME NEW k \in bits PROVE \E v \in cast'[p] : v.idx = k
      <4>1. [idx |-> k, member |-> m, at |-> now] \in cast'[p]
        BY <1>4
      <4> QED
        BY <4>1
    <3> QED
      BY <1>4, <3>1, <3>2
  <2>6. ASSUME NEW v \in cast'[p]
        PROVE  v.idx \in DOMAIN IntentOf(p)'.approvers
               /\ IntentOf(p)'.approvers[v.idx] = v.member
    <3>1. idx # 0 /\ v.idx = idx /\ v.member = m
      BY <1>4, <2>6
    <3> QED
      BY <3>1, <2>1, <2>2, <1>5, ApproverIndexOf DEF IntentRecords
  <2> QED
    BY <2>1, <2>2, <2>4, <2>5, <2>6 DEF OpenOK
<1>7. ASSUME NEW q \in ProposalIds \ {p} PROVE OpenOK(q)'
  <2>1. proposal[q].intent \in IntentIds
    BY <1>0 DEF TypeOK, ProposalRecords
  <2>2. intent[i] \in IntentRecords
    BY <1>5
  <2>3. /\ IntentOf(q)'.approved = IntentOf(q).approved
        /\ IntentOf(q)'.approvers = IntentOf(q).approvers
        /\ IntentOf(q)'.approval_threshold = IntentOf(q).approval_threshold
    BY <1>2, <1>3, <2>1, <2>2 DEF IntentOf, IntentRecords
  <2> QED
    BY <1>0, <1>3, <2>3, Untouched
<1>8. ActiveCountExact'
  <2> SUFFICES ASSUME NEW j \in IntentIds
               PROVE  intent'[j].active = Cardinality(OpenOn(j)')
    BY DEF ActiveCountExact
  <2>1. intent[j].active = Cardinality(OpenOn(j)) /\ intent[j] \in IntentRecords
    BY <1>0 DEF ActiveCountExact, TypeOK
  <2>2. CASE j = i
    <3>1. OpenOn(i)' = OpenOn(i) \cup {p} /\ p \notin OpenOn(i)
      BY <1>1, <1>3, <1>4 DEF OpenOn, Open
    <3>2. Cardinality(OpenOn(i)') = Cardinality(OpenOn(i)) + 1
      BY <3>1, OpenFinite, FS_AddElement
    <3> QED
      BY <2>1, <2>2, <3>2, <1>2 DEF IntentRecords
  <2>3. CASE j # i
    <3>1. OpenOn(j)' = OpenOn(j)
      BY <2>3, <1>1, <1>3, <1>4 DEF OpenOn, Open
    <3> QED
      BY <2>1, <2>3, <3>1, <1>2
  <2> QED
    BY <2>2, <2>3
<1>9. FreshIntents'
  BY <1>0, <1>2, <1>5 DEF FreshIntents, StoreProposal, IntentRecords
<1> QED
  BY <1>6, <1>7, <1>8, <1>9, GovInvPartsNext

\* An approval vote adds one backed bit, and a quorum before it says Approved.
LEMMA SetApprovalInv ==
    ASSUME GovInv, TypeOK', NEW p \in ProposalIds, NEW idx \in ApproverIndices,
           NEW m \in Members, proposal[p].status = "Active", SetApproval(p, idx, m)
    PROVE  GovInv'
<1>0. /\ TypeOK /\ ActiveCountExact /\ FreshIntents
      /\ \A q \in ProposalIds : OpenOK(q)
  BY GovInvParts
<1>1. \A q \in ProposalIds \ {p} :
        proposal'[q] = proposal[q] /\ cast'[q] = cast[q]
  BY <1>0 DEF TypeOK, SetApproval
<1>2. /\ proposal[p] \in ProposalRecords
      /\ intent' = intent /\ intent_index' = intent_index
  BY <1>0 DEF TypeOK, SetApproval
<1>3. /\ proposal'[p].intent = proposal[p].intent
      /\ proposal'[p].approvals = proposal[p].approvals \cup {idx}
      /\ proposal'[p].status \in {"Active", "Approved"}
      /\ proposal'[p].status = "Approved" =>
           Cardinality(proposal'[p].approvals) >= IntentOf(p).approval_threshold
      /\ cast'[p] = cast[p] \cup {[idx |-> idx, member |-> m, at |-> now]}
  BY <1>0, <1>2 DEF TypeOK, SetApproval, ProposalRecords
<1>4. IntentOf(p)' = IntentOf(p)
  BY <1>2, <1>3 DEF IntentOf
<1>5. OpenOK(p)'
  <2>1. /\ IntentOf(p).approved
        /\ proposal[p].approvals = {v.idx : v \in cast[p]}
        /\ \A v \in cast[p] :
             /\ v.idx \in DOMAIN IntentOf(p).approvers
             /\ IntentOf(p).approvers[v.idx] = v.member
    BY <1>0 DEF OpenOK, Open
  <2>2. idx \in DOMAIN IntentOf(p).approvers /\ IntentOf(p).approvers[idx] = m
    BY DEF SetApproval
  <2>3. proposal'[p].approvals = {v.idx : v \in cast'[p]}
    <3> DEFINE new == [idx |-> idx, member |-> m, at |-> now]
    <3>1. new.idx = idx
      OBVIOUS
    <3>2. cast'[p] = cast[p] \cup {new}
      BY <1>3
    <3> HIDE DEF new
    <3> QED
      BY <1>3, <2>1, <3>1, <3>2
  <2>4. \A v \in cast'[p] :
          /\ v.idx \in DOMAIN IntentOf(p).approvers
          /\ IntentOf(p).approvers[v.idx] = v.member
    BY <1>3, <2>1, <2>2
  <2> QED
    BY <1>3, <1>4, <2>1, <2>3, <2>4 DEF OpenOK
<1>6. ASSUME NEW q \in ProposalIds \ {p} PROVE OpenOK(q)'
  <2>1. IntentOf(q)' = IntentOf(q)
    BY <1>1, <1>2 DEF IntentOf
  <2> QED
    BY <1>0, <1>1, <2>1, Untouched
<1>7. ActiveCountExact'
  <2>1. \A j : OpenOn(j)' = OpenOn(j)
    BY <1>1, <1>3 DEF OpenOn, Open
  <2> QED
    BY <1>0, <1>2, <2>1 DEF ActiveCountExact
<1>8. FreshIntents'
  BY <1>0, <1>2 DEF FreshIntents
<1> QED
  BY <1>5, <1>6, <1>7, <1>8, GovInvPartsNext

\* Consuming a proposal: the intents its action rewrote had no other open
\* proposal and start from a zero count, all others keep their rules.
LEMMA MarkExecutedInv ==
    ASSUME GovInv, TypeOK', NEW p \in ProposalIds, Open(p),
           NEW rules \in [IntentIds -> IntentRecords], MarkExecuted(p, rules),
           \A j \in IntentIds :
              \/ rules[j] = intent[j]
              \/ rules[j].active = 0 /\ OpenOn(j) \subseteq {p},
           \A j \in IntentIds : j > intent_index' =>
              rules[j].type = "None" /\ ~rules[j].approved
    PROVE  GovInv'
<1> DEFINE i == proposal[p].intent
<1>0. /\ TypeOK /\ ActiveCountExact
      /\ \A q \in ProposalIds : OpenOK(q)
  BY GovInvParts
<1>1. i \in IntentIds /\ proposal[p] \in ProposalRecords
  BY <1>0 DEF TypeOK, ProposalRecords
<1>2. /\ \A q \in ProposalIds \ {p} : proposal'[q] = proposal[q]
      /\ proposal'[p].status = "Executed"
      /\ cast' = cast
  BY <1>0, <1>1 DEF TypeOK, MarkExecuted, ProposalRecords
<1>3. /\ intent'[i] = [rules[i] EXCEPT !.active = saturating_sub(@)]
      /\ \A j \in IntentIds \ {i} : intent'[j] = rules[j]
  BY <1>1 DEF MarkExecuted
<1>4. /\ intent'[i].active = saturating_sub(rules[i].active)
      /\ intent'[i].approved = rules[i].approved
      /\ intent'[i].approvers = rules[i].approvers
      /\ intent'[i].type = rules[i].type
      /\ intent'[i].approval_threshold = rules[i].approval_threshold
  BY <1>1, <1>3 DEF IntentRecords
<1>5. ~Open(p)'
  BY <1>2 DEF Open
<1>6. ASSUME NEW q \in ProposalIds PROVE OpenOK(q)'
  <2>1. CASE q = p
    BY <2>1, <1>2 DEF OpenOK, Open
  <2>2. CASE q # p /\ ~Open(q)
    BY <2>2, <1>2 DEF OpenOK, Open
  <2>3. CASE q # p /\ Open(q)
    <3> DEFINE j == proposal[q].intent
    <3>1. j \in IntentIds /\ q \in OpenOn(j)
      BY <1>0, <2>3 DEF TypeOK, ProposalRecords, OpenOn
    <3>2. rules[j] = intent[j]
      BY <3>1, <2>3
    <3>3. /\ IntentOf(q)'.approved = IntentOf(q).approved
          /\ IntentOf(q)'.approvers = IntentOf(q).approvers
          /\ IntentOf(q)'.approval_threshold = IntentOf(q).approval_threshold
      BY <1>2, <1>3, <1>4, <2>3, <3>1, <3>2 DEF IntentOf
    <3> QED
      BY <1>0, <1>2, <2>3, <3>3, Untouched
  <2> QED
    BY <2>1, <2>2, <2>3
<1>7. ASSUME NEW j \in IntentIds
      PROVE  intent'[j].active = Cardinality(OpenOn(j)')
  <2>1. /\ intent[j].active = Cardinality(OpenOn(j))
        /\ rules[j] \in IntentRecords /\ Cardinality(OpenOn(j)) \in Nat
    BY <1>0, OpenFinite DEF ActiveCountExact
  <2>2. CASE j = i
    <3>1. /\ OpenOn(j)' = OpenOn(j) \ {p}
          /\ Cardinality(OpenOn(j)') = Cardinality(OpenOn(j)) - 1
          /\ Cardinality(OpenOn(j)) > 0
      BY <1>2, <1>5, <2>2, CountWhenClosed
    <3>2. CASE rules[j] = intent[j]
      BY <1>4, <2>1, <2>2, <3>1, <3>2 DEF saturating_sub
    <3>3. CASE rules[j].active = 0 /\ OpenOn(j) \subseteq {p}
      <4>1. OpenOn(j)' = {}
        BY <3>1, <3>3
      <4> QED
        BY <1>4, <2>2, <3>3, <4>1, FS_EmptySet DEF saturating_sub
    <3> QED
      BY <3>2, <3>3
  <2>3. CASE j # i
    <3>1. OpenOn(j)' = OpenOn(j) /\ p \notin OpenOn(j)
      BY <1>2, <1>5, <2>3, CountWhenClosed DEF OpenOn
    <3>2. CASE rules[j] = intent[j]
      BY <1>3, <2>1, <2>3, <3>1, <3>2
    <3>3. CASE rules[j].active = 0 /\ OpenOn(j) \subseteq {p}
      <4>1. OpenOn(j)' = {}
        BY <3>1, <3>3
      <4> QED
        BY <1>3, <2>3, <3>3, <4>1, FS_EmptySet
    <3> QED
      BY <3>2, <3>3
  <2> QED
    BY <2>2, <2>3
<1>8. FreshIntents'
  BY <1>3, <1>4 DEF FreshIntents
<1> QED
  BY <1>6, <1>7, <1>8, GovInvPartsNext DEF ActiveCountExact

\* A cancellation vote takes the voter's approval with it: the proposal is
\* cancelled and no longer counted, or Active again, or still has its quorum.
LEMMA SetCancellationInv ==
    ASSUME GovInv, TypeOK', NEW p \in ProposalIds, NEW idx \in ApproverIndices,
           Open(p), SetCancellation(p, idx)
    PROVE  GovInv'
<1> DEFINE i == proposal[p].intent
           A == proposal[p].approvals \ {idx}
           cancelled == Cardinality(proposal[p].cancellations \cup {idx})
                          >= IntentOf(p).cancellation_threshold
<1>0. /\ TypeOK /\ ActiveCountExact /\ FreshIntents
      /\ \A q \in ProposalIds : OpenOK(q)
  BY GovInvParts
<1>1. /\ i \in IntentIds /\ intent[i] \in IntentRecords
      /\ proposal[p] \in ProposalRecords
  BY <1>0 DEF TypeOK, ProposalRecords
<1>2. \A q \in ProposalIds \ {p} :
        proposal'[q] = proposal[q] /\ cast'[q] = cast[q]
  BY <1>0 DEF TypeOK, SetCancellation
<1>3. /\ intent_index' = intent_index
      /\ proposal'[p].intent = i
      /\ proposal'[p].approvals = A
      /\ proposal'[p].status = StatusAfterCancel(proposal[p], cancelled,
                                  Cardinality(A) < IntentOf(p).approval_threshold)
      /\ cast'[p] = {v \in cast[p] : v.idx # idx}
  BY <1>0, <1>1 DEF TypeOK, SetCancellation, ProposalRecords
<1>4. \A j \in IntentIds :
        /\ intent'[j].approved = intent[j].approved
        /\ intent'[j].approvers = intent[j].approvers
        /\ intent'[j].type = intent[j].type
        /\ intent'[j].approval_threshold = intent[j].approval_threshold
        /\ intent'[j].active = IF cancelled /\ j = i
                               THEN saturating_sub(intent[j].active)
                               ELSE intent[j].active
  BY <1>0, <1>1 DEF TypeOK, SetCancellation, IntentRecords
<1>5. OpenOK(p)'
  <2>1. CASE cancelled
    BY <1>3, <2>1 DEF OpenOK, Open, StatusAfterCancel
  <2>2. CASE ~cancelled
    <3>1. /\ IntentOf(p)'.approved = IntentOf(p).approved
          /\ IntentOf(p)'.approvers = IntentOf(p).approvers
          /\ IntentOf(p)'.approval_threshold = IntentOf(p).approval_threshold
      BY <1>1, <1>3, <1>4 DEF IntentOf
    <3>2. /\ IntentOf(p).approved
          /\ proposal[p].approvals = {v.idx : v \in cast[p]}
          /\ \A v \in cast[p] :
               /\ v.idx \in DOMAIN IntentOf(p).approvers
               /\ IntentOf(p).approvers[v.idx] = v.member
      BY <1>0 DEF OpenOK
    <3>3. Cardinality(A) \in Nat /\ IntentOf(p).approval_threshold \in Nat
      <4>1. IsFiniteSet(ApproverIndices)
        <5>1. 1 \in Int /\ MaxApprovers \in Int
          BY DEF MaxApprovers
        <5> QED
          BY <5>1, FS_Interval DEF ApproverIndices
      <4>2. A \subseteq ApproverIndices
        BY <1>1 DEF ProposalRecords
      <4> QED
        BY <1>1, <4>1, <4>2, FS_Subset, FS_CardinalityType
           DEF IntentOf, IntentRecords
    <3>4. proposal'[p].status = "Approved" =>
            Cardinality(A) >= IntentOf(p).approval_threshold
      BY <1>3, <2>2, <3>3 DEF StatusAfterCancel
    <3>5. A = {v.idx : v \in cast'[p]}
      BY <1>3, <3>2
    <3> QED
      BY <1>3, <3>1, <3>2, <3>4, <3>5 DEF OpenOK
  <2> QED
    BY <2>1, <2>2
<1>6. ASSUME NEW q \in ProposalIds \ {p} PROVE OpenOK(q)'
  <2>1. proposal[q].intent \in IntentIds
    BY <1>0 DEF TypeOK, ProposalRecords
  <2>2. /\ IntentOf(q)'.approved = IntentOf(q).approved
        /\ IntentOf(q)'.approvers = IntentOf(q).approvers
        /\ IntentOf(q)'.approval_threshold = IntentOf(q).approval_threshold
    BY <1>2, <1>4, <2>1 DEF IntentOf
  <2> QED
    BY <1>0, <1>2, <2>2, Untouched
<1>7. ASSUME NEW j \in IntentIds
      PROVE  intent'[j].active = Cardinality(OpenOn(j)')
  <2>1. intent[j].active = Cardinality(OpenOn(j)) /\ Cardinality(OpenOn(j)) \in Nat
    BY <1>0, OpenFinite DEF ActiveCountExact
  <2>2. CASE cancelled
    <3>1. ~Open(p)'
      BY <1>3, <2>2 DEF Open, StatusAfterCancel
    <3>2. \A q \in ProposalIds \ {p} : proposal'[q] = proposal[q]
      BY <1>2
    <3>3. CASE j = i
      BY <1>4, <2>1, <2>2, <3>1, <3>2, <3>3, CountWhenClosed DEF saturating_sub
    <3>4. CASE j # i
      BY <1>4, <2>1, <3>1, <3>2, <3>4, CountWhenClosed
    <3> QED
      BY <3>3, <3>4
  <2>3. CASE ~cancelled
    <3>1. Open(p)'
      BY <1>3, <2>3 DEF Open, StatusAfterCancel
    <3>2. OpenOn(j)' = OpenOn(j)
      BY <1>2, <1>3, <3>1 DEF OpenOn, Open
    <3> QED
      BY <1>4, <2>1, <2>3, <3>2
  <2> QED
    BY <2>2, <2>3
<1>8. FreshIntents'
  BY <1>0, <1>3, <1>4 DEF FreshIntents
<1> QED
  BY <1>5, <1>6, <1>7, <1>8, GovInvPartsNext DEF ActiveCountExact

\* Each executor rewrites only intents that no other open proposal uses.
LEMMA ExecuteShape ==
    ASSUME GovInv, NEW p \in ProposalIds, Execute(p)
    PROVE  /\ Open(p)
           /\ \E rules \in [IntentIds -> IntentRecords] :
                /\ MarkExecuted(p, rules)
                /\ \A j \in IntentIds :
                     \/ rules[j] = intent[j]
                     \/ rules[j].active = 0 /\ OpenOn(j) \subseteq {p}
                /\ \A j \in IntentIds : j > intent_index' =>
                     rules[j].type = "None" /\ ~rules[j].approved
<1> USE BoundsAssumption
<1> DEFINE t == proposal[p].target
<1>0. TypeOK /\ ActiveCountExact /\ FreshIntents
  BY GovInvParts
<1>1. /\ proposal[p] \in ProposalRecords /\ t \in IntentIds
      /\ proposal[p].body \in IntentRecords
      /\ proposal[p].body.active = 0
      /\ proposal[p].intent \in IntentIds
  BY <1>0, RecordTypes, BodiesAssumption DEF TypeOK, ProposalRecords, NoIntent
<1>2. Open(p)
  BY DEF Execute, ExecuteAddIntent, ExecuteRemoveIntent, ExecuteUpdateIntent,
     ExecuteCustom, IkaSign, ExecuteTypedIntentGovernance, ExecuteTypedAction,
     TypedReady, Ready, Open
<1>3. CASE ExecuteAddIntent(p)
  <2> DEFINE new == intent_index + 1
             rules == [intent EXCEPT ![new] = proposal[p].body]
  <2>1. new \in IntentIds /\ new > intent_index /\ intent_index' = new
    BY <1>0, <1>3 DEF ExecuteAddIntent, TypeOK, IntentIds
  <2>2. OpenOn(new) = {}
    BY <1>0, <2>1, GovInvParts DEF FreshIntents, OpenOn, OpenOK, IntentOf
  <2>3. rules \in [IntentIds -> IntentRecords] /\ rules[new] = proposal[p].body
        /\ \A j \in IntentIds \ {new} : rules[j] = intent[j]
    BY <1>0, <1>1, <2>1 DEF TypeOK
  <2>4. \A j \in IntentIds : j > intent_index' =>
          rules[j].type = "None" /\ ~rules[j].approved
    BY <1>0, <2>1, <2>3 DEF FreshIntents, IntentIds, TypeOK
  <2>5. MarkExecuted(p, rules)
    BY <1>3 DEF ExecuteAddIntent
  <2> HIDE DEF rules, new
  <2> QED
    BY <1>1, <1>2, <2>2, <2>3, <2>4, <2>5
<1>4. CASE ExecuteRemoveIntent(p)
  <2> DEFINE rules == [intent EXCEPT ![t].approved = FALSE]
  <2>1. OpenOn(t) = {} /\ intent[t].active = 0
    BY <1>0, <1>1, <1>4, ZeroMeansNone DEF ExecuteRemoveIntent
  <2>2. /\ rules \in [IntentIds -> IntentRecords] /\ rules[t].active = 0
        /\ rules[t].type = intent[t].type /\ ~rules[t].approved
        /\ \A j \in IntentIds \ {t} : rules[j] = intent[j]
    BY <1>0, <1>1, <2>1 DEF TypeOK, IntentRecords
  <2>3. \A j \in IntentIds : j > intent_index' =>
          rules[j].type = "None" /\ ~rules[j].approved
    BY <1>0, <1>4, <2>2 DEF ExecuteRemoveIntent, FreshIntents
  <2>4. MarkExecuted(p, rules)
    BY <1>4 DEF ExecuteRemoveIntent
  <2> HIDE DEF rules
  <2> QED
    BY <1>2, <2>1, <2>2, <2>3, <2>4
<1>5. CASE ExecuteUpdateIntent(p) \/ ExecuteTypedIntentGovernance(p)
  <2> DEFINE rules == [intent EXCEPT ![t] = proposal[p].body]
  <2>1. OpenOn(t) \subseteq {p}
    <3>1. CASE intent[t].active = 0
      BY <1>0, <1>1, <3>1, ZeroMeansNone
    <3>2. CASE intent[t].active # 0
      <4>1. t = proposal[p].intent /\ intent[t].active = 1
        BY <1>0, <1>1, <1>5, <3>2 DEF ExecuteUpdateIntent, TypeOK, IntentRecords,
           ExecuteTypedIntentGovernance, EffectiveActive, saturating_sub
      <4>2. Cardinality(OpenOn(t)) = 1 /\ p \in OpenOn(t)
        BY <1>0, <1>1, <1>2, <4>1 DEF ActiveCountExact, OpenOn
      <4>3. Cardinality(OpenOn(t) \ {p}) = 0 /\ IsFiniteSet(OpenOn(t) \ {p})
        BY <4>2, OpenFinite, FS_RemoveElement
      <4> QED
        BY <4>3, FS_EmptySet
    <3> QED
      BY <3>1, <3>2
  <2>2. /\ rules \in [IntentIds -> IntentRecords]
        /\ rules[t] = proposal[p].body
        /\ \A j \in IntentIds \ {t} : rules[j] = intent[j]
    BY <1>0, <1>1 DEF TypeOK
  <2>3. intent_index' = intent_index /\ intent[t].type # "None"
    BY <1>5 DEF ExecuteUpdateIntent, ExecuteTypedIntentGovernance
  <2>4. \A j \in IntentIds : j > intent_index' =>
          rules[j].type = "None" /\ ~rules[j].approved
    BY <1>0, <1>1, <2>2, <2>3 DEF FreshIntents
  <2>5. MarkExecuted(p, rules)
    BY <1>5 DEF ExecuteUpdateIntent, ExecuteTypedIntentGovernance
  <2> HIDE DEF rules
  <2> QED
    BY <1>1, <1>2, <2>1, <2>2, <2>4, <2>5
<1>6. CASE ExecuteCustom(p) \/ IkaSign(p) \/ ExecuteTypedAction(p)
  <2>1. MarkExecuted(p, intent) /\ intent_index' = intent_index
    BY <1>6 DEF ExecuteCustom, IkaSign, ExecuteTypedAction
  <2>2. intent \in [IntentIds -> IntentRecords]
    BY <1>0 DEF TypeOK
  <2>3. \A j \in IntentIds : j > intent_index' =>
          intent[j].type = "None" /\ ~intent[j].approved
    BY <1>0, <2>1 DEF FreshIntents
  <2> QED
    BY <1>2, <2>1, <2>2, <2>3
<1> QED
  BY <1>2, <1>3, <1>4, <1>5, <1>6 DEF Execute

\* So executors preserve the invariant.
LEMMA ExecuteInv ==
    ASSUME GovInv, TypeOK', NEW p \in ProposalIds, Execute(p)
    PROVE  GovInv'
BY ExecuteShape, MarkExecutedInv

\* Closing the account of a final proposal changes nothing that is counted.
LEMMA CloseInv ==
    ASSUME GovInv, TypeOK', NEW p \in ProposalIds, Final(p), Close(p)
    PROVE  GovInv'
<1>0. /\ TypeOK /\ ActiveCountExact /\ FreshIntents
      /\ \A q \in ProposalIds : OpenOK(q)
  BY GovInvParts
<1>1. /\ \A q \in ProposalIds \ {p} :
           proposal'[q] = proposal[q] /\ cast'[q] = cast[q]
      /\ proposal'[p].status = "Closed"
      /\ intent' = intent /\ intent_index' = intent_index
  BY <1>0 DEF TypeOK, Close, NoProposal
<1>2. ~Open(p) /\ ~Open(p)' /\ OpenOK(p)'
  BY <1>1 DEF Final, Open, OpenOK
<1>3. ASSUME NEW q \in ProposalIds \ {p} PROVE OpenOK(q)'
  <2>1. IntentOf(q)' = IntentOf(q)
    BY <1>1 DEF IntentOf
  <2> QED
    BY <1>0, <1>1, <2>1, Untouched
<1>4. \A j : OpenOn(j)' = OpenOn(j)
  BY <1>1, <1>2 DEF OpenOn, Open
<1> QED
  BY <1>0, <1>1, <1>2, <1>3, <1>4, GovInvPartsNext
     DEF ActiveCountExact, FreshIntents

\* A new wallet has no proposals.
LEMMA InitInv == Init => GovInv
<1> SUFFICES ASSUME Init PROVE GovInv
  OBVIOUS
<1>1. TypeOK
  BY InitType
<1>2. PICK a \in CreateArgs :
        intent = [i \in IntentIds |->
                    CASE i = 0 -> [a EXCEPT !.type = "AddIntent"]
                      [] i = 1 -> [a EXCEPT !.type = "RemoveIntent"]
                      [] i = 2 -> [a EXCEPT !.type = "UpdateIntent"]
                      [] OTHER -> NoIntent]
  BY DEF Init
<1>3. \A q \in ProposalIds : ~Open(q) /\ OpenOK(q)
  BY DEF Init, NoProposal, Open, OpenOK
<1>4. ASSUME NEW i \in IntentIds
      PROVE  /\ intent[i].active = 0
             /\ i > intent_index => intent[i].type = "None" /\ ~intent[i].approved
  <2>1. a.active = 0 /\ a \in IntentRecords
    BY CreateArgsAssumption
  <2>2. CASE i \in {0, 1, 2}
    BY <1>2, <2>1, <2>2 DEF Init, IntentRecords
  <2>3. CASE i \notin {0, 1, 2}
    BY <1>2, <2>3 DEF NoIntent
  <2> QED
    BY <2>2, <2>3
<1>5. \A i \in IntentIds : OpenOn(i) = {}
  BY <1>3 DEF OpenOn
<1> QED
  BY <1>1, <1>3, <1>4, <1>5, FS_EmptySet, GovInvParts
     DEF ActiveCountExact, FreshIntents

\* Every instruction preserves the invariant.
LEMMA NextInv == GovInv /\ [Next]_vars => GovInv'
<1> SUFFICES ASSUME GovInv, [Next]_vars PROVE GovInv'
  OBVIOUS
<1>0. TypeOK'
  BY NextType DEF GovInv
<1>1. ASSUME NEW m \in Members, NEW i \in IntentIds,
             Propose(m, i) \/ ProposeTypedV4(m, i)
      PROVE  GovInv'
  BY <1>0, <1>1, StoreProposalInv DEF Propose, ProposeTypedV4
<1>2. ASSUME NEW p \in ProposalIds, Vote(p) PROVE GovInv'
  <2>1. PICK idx \in ApproverIndices :
          \/ \E m \in Members : Approve(p, idx, m) \/ ApproveTyped(p, idx, m)
          \/ Cancel(p, idx) \/ CancelTyped(p, idx)
    BY <1>2 DEF Vote
  <2>2. CASE \E m \in Members : Approve(p, idx, m) \/ ApproveTyped(p, idx, m)
    BY <1>0, <2>2, SetApprovalInv DEF Approve, ApproveTyped
  <2>3. CASE Cancel(p, idx) \/ CancelTyped(p, idx)
    BY <1>0, <2>3, SetCancellationInv DEF Cancel, CancelTyped
  <2> QED
    BY <2>1, <2>2, <2>3
<1>3. ASSUME NEW p \in ProposalIds, Execute(p) PROVE GovInv'
  BY <1>0, <1>3, ExecuteInv
<1>4. ASSUME NEW p \in ProposalIds, CleanupProposal(p) \/ CleanupTypedProposal(p)
      PROVE  GovInv'
  BY <1>0, <1>4, CloseInv DEF CleanupProposal, CleanupTypedProposal
<1>5. CASE Tick \/ UNCHANGED vars
  <2>1. UNCHANGED <<proposal, intent, cast, intent_index>>
    BY <1>5 DEF Tick, vars
  <2>2. \A j : OpenOn(j)' = OpenOn(j)
    BY <2>1 DEF OpenOn, Open
  <2>3. \A q \in ProposalIds : OpenOK(q) => OpenOK(q)'
    BY <2>1 DEF OpenOK, Open, IntentOf
  <2> QED
    BY <1>0, <2>1, <2>2, <2>3, GovInvParts, GovInvPartsNext
       DEF ActiveCountExact, FreshIntents
<1> QED
  BY <1>1, <1>2, <1>3, <1>4, <1>5 DEF Next

\* The inductive invariant holds in every reachable state.
THEOREM GovernanceSafety == Spec => []GovInv
BY InitInv, NextInv, PTL DEF Spec

\* The count of an intent is its number of open proposals, whatever votes,
\* executions, rewrites and cleanups did.
THEOREM CountsExact == Spec => []ActiveCountExact
<1>1. GovInv => ActiveCountExact
  BY DEF GovInv
<1> QED
  BY <1>1, GovernanceSafety, PTL

\* What the executors accept as Approved has its quorum under the rules of the
\* intent as they are now.
THEOREM QuorumKept == Spec => []QuorumHolds
<1>1. GovInv => QuorumHolds
  BY DEF GovInv
<1> QED
  BY <1>1, GovernanceSafety, PTL

\* Every approval that counts is that of the member who now holds its position.
THEOREM ApprovalsBacked == Spec => []BackedApprovals
<1>1. GovInv => BackedApprovals
  BY DEF GovInv
<1> QED
  BY <1>1, GovernanceSafety, PTL

\* A removed intent has no open proposal that cancel or execute could act on.
THEOREM OpenIsApproved == Spec => []OpenOnApprovedIntent
<1>1. GovInv => OpenOnApprovedIntent
  BY DEF GovInv
<1> QED
  BY <1>1, GovernanceSafety, PTL

-------------------------------------------------------------------------------
(* Intents are frozen under open proposals *)

\* One step of OpenIntentFrozen, for one proposal.
Frozen(q) ==
    Open(q) /\ Open(q)' =>
        Rules(proposal[q].intent)' = Rules(proposal[q].intent)

\* Two records that differ in active at most have the same rules.
LEMMA SameRules ==
    ASSUME NEW r \in IntentRecords, NEW n
    PROVE  [[r EXCEPT !.active = n] EXCEPT !.active = 0] = [r EXCEPT !.active = 0]
BY DEF IntentRecords

\* No instruction changes the rules of an intent under a proposal it leaves open.
LEMMA NextFrozen ==
    ASSUME GovInv, [Next]_vars, NEW q \in ProposalIds
    PROVE  Frozen(q)
<1>0. TypeOK
  BY DEF GovInv
<1>1. SUFFICES ASSUME Open(q), Open(q)'
               PROVE  Rules(proposal[q].intent)' = Rules(proposal[q].intent)
  BY DEF Frozen
<1> DEFINE j == proposal[q].intent
<1>2. j \in IntentIds /\ intent[j] \in IntentRecords
  BY <1>0 DEF TypeOK, ProposalRecords
<1>3. SUFFICES /\ proposal'[q].intent = proposal[q].intent
               /\ \/ intent'[j] = intent[j]
                  \/ \E n : intent'[j] = [intent[j] EXCEPT !.active = n]
  BY <1>2, SameRules DEF Rules
<1>4. ASSUME NEW m \in Members, NEW i \in IntentIds,
             Propose(m, i) \/ ProposeTypedV4(m, i)
      PROVE  /\ proposal'[q].intent = proposal[q].intent
             /\ \/ intent'[j] = intent[j]
                \/ \E n : intent'[j] = [intent[j] EXCEPT !.active = n]
  <2>1. PICK typed, kind, target, body, expires :
          StoreProposal(m, i, typed, kind, target, body, expires)
    BY <1>4 DEF Propose, ProposeTypedV4
  <2>2. q # proposal_index
    BY <1>1, <2>1 DEF StoreProposal, Open
  <2>3. proposal'[q] = proposal[q]
    BY <1>0, <2>1, <2>2 DEF StoreProposal, TypeOK
  <2>4. intent' = [intent EXCEPT ![i].active = intent[i].active + 1]
    BY <2>1 DEF StoreProposal
  <2> QED
    BY <1>0, <1>2, <2>3, <2>4 DEF TypeOK
<1>5. ASSUME NEW p \in ProposalIds, Vote(p)
      PROVE  /\ proposal'[q].intent = proposal[q].intent
             /\ \/ intent'[j] = intent[j]
                \/ \E n : intent'[j] = [intent[j] EXCEPT !.active = n]
  <2>1. PICK idx \in ApproverIndices :
          SetCancellation(p, idx) \/ \E m \in Members : SetApproval(p, idx, m)
    BY <1>5 DEF Vote, Approve, ApproveTyped, Cancel, CancelTyped
  <2>2. CASE \E m \in Members : SetApproval(p, idx, m)
    BY <1>0, <2>2 DEF SetApproval, TypeOK, ProposalRecords
  <2>3. CASE SetCancellation(p, idx)
    <3>1. proposal'[q].intent = proposal[q].intent
      BY <1>0, <2>3 DEF SetCancellation, TypeOK, ProposalRecords
    <3>2. \/ intent' = intent
          \/ intent' = [intent EXCEPT ![proposal[p].intent].active
                          = saturating_sub(intent[proposal[p].intent].active)]
      BY <2>3 DEF SetCancellation
    <3> QED
      BY <1>0, <1>2, <3>1, <3>2 DEF TypeOK
  <2> QED
    BY <2>1, <2>2, <2>3
<1>6. ASSUME NEW p \in ProposalIds, Execute(p)
      PROVE  /\ proposal'[q].intent = proposal[q].intent
             /\ \/ intent'[j] = intent[j]
                \/ \E n : intent'[j] = [intent[j] EXCEPT !.active = n]
  <2>1. PICK rules \in [IntentIds -> IntentRecords] :
          /\ MarkExecuted(p, rules)
          /\ \A i \in IntentIds :
               \/ rules[i] = intent[i]
               \/ rules[i].active = 0 /\ OpenOn(i) \subseteq {p}
    BY <1>6, ExecuteShape
  <2>2. q # p
    BY <1>0, <1>1, <2>1 DEF MarkExecuted, Open, TypeOK, ProposalRecords
  <2>3. proposal'[q] = proposal[q]
    BY <1>0, <2>1, <2>2 DEF MarkExecuted, TypeOK
  <2>4. q \in OpenOn(j)
    BY <1>1 DEF OpenOn
  <2>5. rules[j] = intent[j]
    BY <1>2, <2>1, <2>2, <2>4
  <2>6. intent' = [rules EXCEPT ![proposal[p].intent].active
                     = saturating_sub(rules[proposal[p].intent].active)]
    BY <2>1 DEF MarkExecuted
  <2> QED
    BY <1>2, <2>3, <2>5, <2>6
<1>7. ASSUME NEW p \in ProposalIds, CleanupProposal(p) \/ CleanupTypedProposal(p)
      PROVE  proposal'[q].intent = proposal[q].intent /\ intent'[j] = intent[j]
  <2>1. q # p
    BY <1>1, <1>7 DEF CleanupProposal, CleanupTypedProposal, Final, Open
  <2> QED
    BY <1>0, <1>7, <2>1 DEF CleanupProposal, CleanupTypedProposal, Close, TypeOK
<1>8. CASE Tick \/ UNCHANGED vars
  BY <1>8 DEF Tick, vars
<1> QED
  BY <1>4, <1>5, <1>6, <1>7, <1>8 DEF Next

\* The rules of an intent never change under a proposal that stays open.
THEOREM IntentFrozen == Spec => OpenIntentFrozen
<1>1. GovInv /\ [Next]_vars =>
        [\A p \in ProposalIds : Open(p) /\ Open(p)' =>
           Rules(proposal[p].intent)' = Rules(proposal[p].intent)]_vars
  BY NextFrozen DEF Frozen
<1> QED
  BY <1>1, GovernanceSafety, PTL DEF Spec, OpenIntentFrozen

-------------------------------------------------------------------------------
(* What becomes of one proposal *)

Stored(q) ==
    /\ proposal[q].status \in {"None", "Closed"}
    /\ proposal'[q].cancellations = {}
    /\ proposal'[q].status = "Approved" => proposal'[q].approved_at = now
    /\ \A v \in cast'[q] : v.at = now
    /\ proposal'[q].status \in {"Active", "Approved"}
    /\ q = proposal_index /\ proposal_index' = q + 1
Done(q) ==
    /\ proposal[q].typed => proposal[q].expires_at > now
    /\ proposal[q].status = "Approved"
    /\ now >= proposal[q].approved_at + IntentOf(q).timelock
    /\ proposal'[q].status = "Executed" /\ cast'[q] = cast[q]
Kept(q) == proposal'[q] = proposal[q] /\ cast'[q] = cast[q]

\* A step leaves a proposal alone, or is one of the five things that can happen
\* to it; the clock moves only when nothing else does.
LEMMA ProposalStep ==
    ASSUME TypeOK, [Next]_vars, NEW q \in ProposalIds
    PROVE  /\ \/ Kept(q)
              \/ now' = now /\ Stored(q)
              \/ now' = now /\ proposal[q].status = "Active"
                   /\ (proposal[q].typed => proposal[q].expires_at > now)
                   /\ \E idx \in ApproverIndices, m \in Members : SetApproval(q, idx, m)
              \/ now' = now /\ Open(q)
                   /\ (proposal[q].typed => proposal[q].expires_at > now)
                   /\ \E idx \in ApproverIndices : SetCancellation(q, idx)
              \/ now' = now /\ Done(q)
              \/ now' = now /\ Final(q) /\ proposal'[q].status = "Closed" /\ cast'[q] = {}
           /\ now' = now \/ now' = now + 1
           /\ proposal_index' >= proposal_index
<1>0. proposal_index' >= proposal_index
  <2>1. proposal_index \in Nat
    BY BoundsAssumption DEF TypeOK
  <2>2. ASSUME NEW m \in Members, NEW i \in IntentIds, Propose(m, i) \/ ProposeTypedV4(m, i)
        PROVE  proposal_index' = proposal_index + 1
    BY <2>2 DEF Propose, ProposeTypedV4, StoreProposal
  <2>3. ASSUME NEW p \in ProposalIds, Vote(p)
        PROVE  proposal_index' = proposal_index
    BY <2>3 DEF Vote, Approve, ApproveTyped, Cancel, CancelTyped, SetApproval, SetCancellation
  <2>4. ASSUME NEW p \in ProposalIds, Execute(p)
        PROVE  proposal_index' = proposal_index
    BY <2>4 DEF Execute, ExecuteAddIntent, ExecuteRemoveIntent, ExecuteUpdateIntent,
       ExecuteCustom, IkaSign, ExecuteTypedIntentGovernance, ExecuteTypedAction, MarkExecuted
  <2>5. ASSUME NEW p \in ProposalIds, CleanupProposal(p) \/ CleanupTypedProposal(p)
        PROVE  proposal_index' = proposal_index
    BY <2>5 DEF CleanupProposal, CleanupTypedProposal, Close
  <2> QED
    BY <2>1, <2>2, <2>3, <2>4, <2>5 DEF Next, Tick, vars
<1>1. ASSUME NEW m \in Members, NEW i \in IntentIds, Propose(m, i) \/ ProposeTypedV4(m, i)
      PROVE  now' = now /\ (Kept(q) \/ Stored(q))
  <2>1. PICK typed, kind, target, body, expires :
          StoreProposal(m, i, typed, kind, target, body, expires)
    BY <1>1 DEF Propose, ProposeTypedV4
  <2>2. CASE q # proposal_index
    BY <2>1, <2>2 DEF StoreProposal, TypeOK, Kept
  <2>3. CASE q = proposal_index
    BY <2>1, <2>3 DEF StoreProposal, TypeOK, Stored
  <2> QED
    BY <2>1, <2>2, <2>3 DEF StoreProposal
<1>2. ASSUME NEW p \in ProposalIds, p # q,
             Vote(p) \/ Execute(p) \/ CleanupProposal(p) \/ CleanupTypedProposal(p)
      PROVE  now' = now /\ Kept(q)
  <2>1. CASE Vote(p)
    BY <1>2, <2>1 DEF Vote, Approve, ApproveTyped, Cancel, CancelTyped, SetApproval,
                      SetCancellation, TypeOK, Kept
  <2>2. CASE Execute(p)
    BY <1>2, <2>2 DEF Execute, ExecuteAddIntent, ExecuteRemoveIntent, ExecuteUpdateIntent,
       ExecuteCustom, IkaSign, ExecuteTypedIntentGovernance, ExecuteTypedAction, MarkExecuted,
       TypeOK, Kept
  <2>3. CASE CleanupProposal(p) \/ CleanupTypedProposal(p)
    BY <1>2, <2>3 DEF CleanupProposal, CleanupTypedProposal, Close, TypeOK, Kept
  <2> QED
    BY <1>2, <2>1, <2>2, <2>3
<1>3. CASE Vote(q)
  BY <1>0, <1>3 DEF Vote, Approve, ApproveTyped, Cancel, CancelTyped, SetApproval, SetCancellation
<1>4. CASE Execute(q)
  <2>1. Ready(q) /\ (proposal[q].typed => proposal[q].expires_at > now)
    BY <1>4 DEF Execute, ExecuteAddIntent, ExecuteRemoveIntent, ExecuteUpdateIntent,
       ExecuteCustom, IkaSign, ExecuteTypedIntentGovernance, ExecuteTypedAction, TypedReady
  <2>2. \E rules : MarkExecuted(q, rules)
    BY <1>4 DEF Execute, ExecuteAddIntent, ExecuteRemoveIntent, ExecuteUpdateIntent,
       ExecuteCustom, IkaSign, ExecuteTypedIntentGovernance, ExecuteTypedAction
  <2>3. now' = now /\ proposal'[q].status = "Executed" /\ cast'[q] = cast[q]
    BY <2>2 DEF MarkExecuted, TypeOK, ProposalRecords
  <2> QED
    BY <1>0, <2>1, <2>3 DEF Ready, Done
<1>5. CASE CleanupProposal(q) \/ CleanupTypedProposal(q)
  BY <1>0, <1>5 DEF CleanupProposal, CleanupTypedProposal, Close, NoProposal, TypeOK
<1>6. CASE Tick \/ UNCHANGED vars
  BY <1>0, <1>6 DEF Tick, vars, Kept
<1> QED
  BY <1>0, <1>1, <1>2, <1>3, <1>4, <1>5, <1>6 DEF Next

\* There are finitely many approver positions.
LEMMA IndicesFinite == IsFiniteSet(ApproverIndices)
<1>1. \A n \in Int : IsFiniteSet(1 .. n)
  BY FS_Interval
<1>2. MaxApprovers \in Int
  BY DEF MaxApprovers
<1> QED
  BY <1>1, <1>2 DEF ApproverIndices

\* Before the first proposal there are no votes to account for.
LEMMA InitVotes == Init => VotesInv
BY DEF Init, VotesInv, NoProposal, Open

\* Votes are dated by the clock, a quorum by its last vote, and the rules under
\* which votes against a proposal are counted are frozen while it is open.
LEMMA NextVotes ==
    ASSUME GovInv, VotesInv, [Next]_vars
    PROVE  VotesInv'
<1>0. TypeOK /\ TypeOK'
  BY NextType DEF GovInv
<1> SUFFICES ASSUME NEW q \in ProposalIds
             PROVE  /\ \A v \in cast'[q] : v.at <= now'
                    /\ proposal'[q].status = "Approved" =>
                         \A v \in cast'[q] : v.at <= proposal'[q].approved_at
                    /\ Open(q)' /\ proposal'[q].cancellations # {} =>
                         Cardinality(proposal'[q].cancellations)
                           < IntentOf(q)'.cancellation_threshold
  BY DEF VotesInv
<1>1. /\ \A v \in cast[q] : v.at <= now /\ v.at \in Nat
      /\ proposal[q].status = "Approved" => \A v \in cast[q] : v.at <= proposal[q].approved_at
      /\ Open(q) /\ proposal[q].cancellations # {} =>
           Cardinality(proposal[q].cancellations) < IntentOf(q).cancellation_threshold
  BY <1>0, BoundsAssumption DEF VotesInv, TypeOK, Votes
<1>2. now \in Nat /\ now' \in Nat /\ now <= now'
  BY <1>0, ProposalStep, BoundsAssumption DEF TypeOK
<1>3. Open(q) /\ Open(q)' =>
        IntentOf(q)'.cancellation_threshold = IntentOf(q).cancellation_threshold
  <2>1. SUFFICES ASSUME Open(q), Open(q)'
                 PROVE  IntentOf(q)'.cancellation_threshold = IntentOf(q).cancellation_threshold
    OBVIOUS
  <2>2. Rules(proposal[q].intent)' = Rules(proposal[q].intent)
    BY <2>1, NextFrozen DEF Frozen
  <2>3. intent[proposal[q].intent] \in IntentRecords /\ intent'[proposal'[q].intent] \in IntentRecords
    BY <1>0 DEF TypeOK, ProposalRecords
  <2>4. \A r \in IntentRecords : [r EXCEPT !.active = 0].cancellation_threshold = r.cancellation_threshold
    BY DEF IntentRecords
  <2>5. /\ Rules(proposal[q].intent).cancellation_threshold = IntentOf(q).cancellation_threshold
        /\ Rules(proposal[q].intent)'.cancellation_threshold = IntentOf(q)'.cancellation_threshold
    BY <2>3, <2>4 DEF Rules, IntentOf
  <2> QED
    BY <2>2, <2>5
<1>4. CASE Kept(q)
  <2>1. Open(q)' <=> Open(q)
    BY <1>4 DEF Kept, Open
  <2> QED
    BY <1>1, <1>2, <1>3, <1>4, <2>1 DEF Kept
<1>5. CASE now' = now /\ Stored(q)
  BY <1>2, <1>5 DEF Stored
<1>6. ASSUME now' = now, proposal[q].status = "Active",
             NEW idx \in ApproverIndices, NEW m \in Members, SetApproval(q, idx, m)
      PROVE  /\ \A v \in cast'[q] : v.at <= now'
             /\ proposal'[q].status = "Approved" =>
                  \A v \in cast'[q] : v.at <= proposal'[q].approved_at
             /\ Open(q)' /\ proposal'[q].cancellations # {} =>
                  Cardinality(proposal'[q].cancellations)
                    < IntentOf(q)'.cancellation_threshold
  <2>1. cast'[q] = cast[q] \cup {[idx |-> idx, member |-> m, at |-> now]}
    BY <1>0, <1>6 DEF SetApproval, TypeOK
  <2>2. \A v \in cast'[q] : v.at <= now
    BY <1>1, <1>2, <2>1
  <2>3. /\ proposal'[q].status = "Approved" => proposal'[q].approved_at = now
        /\ proposal'[q].cancellations = proposal[q].cancellations \ {idx}
    BY <1>0, <1>6 DEF SetApproval, ApprovedAt, TypeOK, ProposalRecords
  <2>4. ASSUME Open(q)', proposal'[q].cancellations # {}
        PROVE  Cardinality(proposal'[q].cancellations) < IntentOf(q)'.cancellation_threshold
    <3>1. Open(q) /\ proposal[q].cancellations # {}
      BY <1>6, <2>3, <2>4 DEF Open
    <3>2. proposal[q].cancellations \subseteq ApproverIndices
      BY <1>0 DEF TypeOK, ProposalRecords
    <3>3. IsFiniteSet(proposal[q].cancellations)
      BY <3>2, IndicesFinite, FS_Subset
    <3>4. /\ Cardinality(proposal'[q].cancellations) <= Cardinality(proposal[q].cancellations)
          /\ IsFiniteSet(proposal'[q].cancellations)
      BY <2>3, <3>3, FS_Subset
    <3>5. Cardinality(proposal'[q].cancellations) \in Nat /\ Cardinality(proposal[q].cancellations) \in Nat
      BY <3>3, <3>4, FS_CardinalityType
    <3>6. IntentOf(q).cancellation_threshold \in Nat
      BY <1>0 DEF TypeOK, ProposalRecords, IntentOf, IntentRecords
    <3> QED
      BY <1>1, <1>3, <2>4, <3>1, <3>4, <3>5, <3>6
  <2> QED
    BY <1>6, <2>2, <2>3, <2>4
<1>7. ASSUME now' = now, Open(q), NEW idx \in ApproverIndices, SetCancellation(q, idx)
      PROVE  /\ \A v \in cast'[q] : v.at <= now'
             /\ proposal'[q].status = "Approved" =>
                  \A v \in cast'[q] : v.at <= proposal'[q].approved_at
             /\ Open(q)' /\ proposal'[q].cancellations # {} =>
                  Cardinality(proposal'[q].cancellations)
                    < IntentOf(q)'.cancellation_threshold
  <2> DEFINE bits == proposal[q].cancellations \cup {idx}
             cancelled == Cardinality(bits) >= IntentOf(q).cancellation_threshold
  <2>1. cast'[q] \subseteq cast[q]
    BY <1>0, <1>7 DEF SetCancellation, TypeOK
  <2>2. /\ proposal'[q].cancellations = bits
        /\ proposal'[q].approved_at = proposal[q].approved_at
        /\ proposal'[q].status = "Approved" => proposal[q].status = "Approved"
        /\ cancelled => proposal'[q].status = "Cancelled"
    BY <1>0, <1>7 DEF SetCancellation, StatusAfterCancel, TypeOK, ProposalRecords
  <2>3. Cardinality(bits) \in Nat /\ IntentOf(q).cancellation_threshold \in Nat
    <3>1. bits \subseteq ApproverIndices
      BY <1>0, <1>7 DEF TypeOK, ProposalRecords
    <3>2. IsFiniteSet(bits)
      BY <3>1, IndicesFinite, FS_Subset
    <3>3. Cardinality(bits) \in Nat
      BY <3>2, FS_CardinalityType
    <3> QED
      BY <1>0, <3>3 DEF TypeOK, ProposalRecords, IntentOf, IntentRecords
  <2>4. Open(q)' => ~cancelled
    BY <2>2 DEF Open
  <2> QED
    BY <1>1, <1>2, <1>3, <1>7, <2>1, <2>2, <2>3, <2>4
<1>8. CASE now' = now /\ Done(q)
  BY <1>1, <1>2, <1>8 DEF Done, Open
<1>9. CASE now' = now /\ Final(q) /\ proposal'[q].status = "Closed" /\ cast'[q] = {}
  BY <1>9 DEF Open
<1> QED
  BY <1>0, <1>4, <1>5, <1>6, <1>7, <1>8, <1>9, ProposalStep

\* A proposal is executed only when all its approvals have stood for the whole
\* timelock and the votes against it do not cancel it.
THEOREM TimelockHolds == Spec => TimelockServed
<1>1. GovInv /\ VotesInv /\ [Next]_vars =>
        [\A p \in ProposalIds :
           Open(p) /\ proposal[p]'.status = "Executed" =>
              /\ \A v \in cast[p] : now >= v.at + IntentOf(p).timelock
              /\ proposal[p].cancellations # {} =>
                   Cardinality(proposal[p].cancellations) < IntentOf(p).cancellation_threshold]_vars
  <2> SUFFICES ASSUME GovInv, VotesInv, [Next]_vars, NEW p \in ProposalIds,
                      Open(p), proposal'[p].status = "Executed"
               PROVE  /\ \A v \in cast[p] : now >= v.at + IntentOf(p).timelock
                      /\ proposal[p].cancellations # {} =>
                           Cardinality(proposal[p].cancellations) < IntentOf(p).cancellation_threshold
    OBVIOUS
  <2>0. TypeOK
    BY DEF GovInv
  <2>1. Done(p)
    <3>1. ~Kept(p)
      BY DEF Kept, Open
    <3>2. ~Stored(p) /\ ~Final(p)
      BY DEF Stored, Final, Open
    <3>3. ASSUME NEW idx \in ApproverIndices, NEW m \in Members, SetApproval(p, idx, m)
          PROVE  FALSE
      BY <2>0, <3>3 DEF SetApproval, TypeOK, ProposalRecords, Open
    <3>4. ASSUME NEW idx \in ApproverIndices, SetCancellation(p, idx)
          PROVE  FALSE
      BY <2>0, <3>4 DEF SetCancellation, StatusAfterCancel, TypeOK, ProposalRecords, Open
    <3> QED
      BY <2>0, <3>1, <3>2, <3>3, <3>4, ProposalStep
  <2>2. /\ \A v \in cast[p] : v.at <= proposal[p].approved_at /\ v.at \in Nat
        /\ proposal[p].approved_at \in Nat /\ IntentOf(p).timelock \in Nat /\ now \in Nat
    BY <2>0, <2>1, BoundsAssumption
       DEF Done, VotesInv, TypeOK, Votes, ProposalRecords, IntentOf, IntentRecords
  <2> QED
    BY <2>1, <2>2 DEF Done, VotesInv
<1> QED
  BY <1>1, InitInv, NextInv, InitVotes, NextVotes, PTL DEF Spec, TimelockServed

\* A proposal index is used once.
LEMMA NextFresh ==
    ASSUME TypeOK, TypeOK', FreshProposals, [Next]_vars
    PROVE  FreshProposals'
<1> SUFFICES ASSUME NEW q \in ProposalIds, q >= proposal_index'
             PROVE  proposal'[q].status = "None"
  BY DEF FreshProposals
<1>1. q \in Nat /\ proposal_index \in Nat /\ proposal_index' \in Nat
  BY BoundsAssumption DEF TypeOK, ProposalIds
<1>2. q >= proposal_index /\ proposal[q].status = "None"
  BY <1>1, ProposalStep DEF FreshProposals
<1>3. ~Stored(q)
  BY <1>1 DEF Stored
<1> QED
  BY <1>2, <1>3, ProposalStep DEF Kept, Open, Done, Final

\* An executed or cancelled proposal is never open again: its approvals are
\* spent once, also when its account is closed and the address is free.
THEOREM FinalForever == Spec => FinalIsForever
<1>1. TypeOK /\ FreshProposals /\ [Next]_vars =>
        [\A p \in ProposalIds :
           proposal[p].status \in {"Executed", "Cancelled", "Closed"} =>
              proposal[p]'.status \in {proposal[p].status, "Closed"}]_vars
  <2> SUFFICES ASSUME TypeOK, FreshProposals, [Next]_vars, NEW p \in ProposalIds,
                      proposal[p].status \in {"Executed", "Cancelled", "Closed"}
               PROVE  proposal'[p].status \in {proposal[p].status, "Closed"}
    OBVIOUS
  <2>1. ~Stored(p)
    <3>1. p \in Int /\ p # proposal_index
      BY BoundsAssumption DEF FreshProposals, ProposalIds, TypeOK
    <3> QED
      BY <3>1 DEF Stored
  <2> QED
    BY <2>1, ProposalStep DEF Kept, Open, Done, Final
<1>2. Init => FreshProposals
  BY DEF Init, FreshProposals, NoProposal
<1>3. TypeOK /\ FreshProposals /\ [Next]_vars => FreshProposals'
  BY NextType, NextFresh
<1> QED
  BY <1>1, <1>2, <1>3, InitType, NextType, PTL DEF Spec, FinalIsForever

\* A typed proposal that expires while it is open keeps its intent as it is
\* for good: nothing can close it or rewrite the rules under it.
THEOREM ExpiredPins == Spec => ExpiredPinsIntent
<1>1. GovInv /\ [Next]_vars =>
        [\A p \in ProposalIds :
           Expired(p) => Expired(p)' /\ Rules(proposal[p].intent)' = Rules(proposal[p].intent)]_vars
  <2> SUFFICES ASSUME GovInv, [Next]_vars, NEW p \in ProposalIds, Expired(p)
               PROVE  Expired(p)' /\ Rules(proposal[p].intent)' = Rules(proposal[p].intent)
    OBVIOUS
  <2>0. TypeOK /\ now \in Nat /\ proposal[p].expires_at \in Nat
    BY BoundsAssumption DEF GovInv, TypeOK, ProposalRecords
  <2>1. Kept(p)
    BY <2>0, ProposalStep DEF Expired, Stored, Done, Final, Open
  <2>2. Expired(p)'
    BY <2>0, <2>1, ProposalStep DEF Kept, Expired, Open
  <2>3. Open(p) /\ Open(p)'
    BY <2>2 DEF Expired
  <2> QED
    BY <2>2, <2>3, NextFrozen DEF Frozen
<1> QED
  BY <1>1, InitInv, NextInv, PTL DEF Spec, ExpiredPinsIntent
===============================================================================
