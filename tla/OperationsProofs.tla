--------------------------- MODULE OperationsProofs ----------------------------
(***************************************************************************)
(* What holds of the work that goes on over many visits, for any number of *)
(* handler calls, payments and requests: of the agents' state on the       *)
(* server, and of the composition.                                         *)
(*                                                                         *)
(* The agents' state of a wallet is one value, read, changed and written   *)
(* back whole, so a write may undo another; the theorems say what survives *)
(* that, and what does not only because the write was made of an old copy  *)
(* (lost).  The inductive invariant is about copies: a request that is     *)
(* about to write holds a sound copy, and whatever a handler makes of a    *)
(* sound copy is sound and keeps what is final in it.  Hence any of them   *)
(* may win.                                                                *)
(*                                                                         *)
(* What the escrow card and the recurring page keep is proved in the       *)
(* module about them, and cited here for the calls and tabs a behaviour    *)
(* of the composition has.                                                 *)
(***************************************************************************)
EXTENDS Operations, FiniteSetTheorems, TLAPS

CardP == INSTANCE TreasuryProofs WITH Tabs <- {1}, Ops <- CardOps, MaxChanges <- CardChanges
CardsP == INSTANCE TreasuryProofs WITH Tabs <- {1, 2}, Ops <- TabOps
ScheduleP == INSTANCE TreasuryProofs WITH Tabs <- {1}, Ops <- PageOps

-------------------------------------------------------------------------------
(* What every state of a wallet satisfies *)

TradeRecords == [status : Agents!TradeStatus, policy : Policies \cup {None}]
SessionRecords == [status : Agents!SessionStatus, policy : Policies \cup {None}]
Scores == [proposals : Nat, executed : Nat, rejected : Nat]

Recorded(b) == {p \in Proposals : b.trade[p].status # "none"}
Placed(b) == {p \in Proposals : b.exec[p] # "none"}
Rejected(b) == {p \in Proposals : b.trade[p].status = "rejected"}

\* The scorecard counts what the lists show, and the lists agree.
Books(b) ==
    /\ IsFiniteSet(Recorded(b))
    /\ \A p \in Proposals : b.trade[p].status = "executed" <=> b.exec[p] # "none"
    /\ b.score.proposals = Cardinality(Recorded(b))
    /\ b.score.executed = Cardinality(Placed(b))
    /\ b.score.rejected = Cardinality(Rejected(b))

OneActive(b) ==
    \A r, s \in Sessions : b.session[r].status = "active" /\ b.session[s].status = "active" => r = s

OnePerSignal(b) ==
    \A p, q \in Proposals :
        /\ SignalOf[p] # None /\ SignalOf[p] = SignalOf[q]
        /\ b.trade[p].status # "none" /\ b.trade[q].status # "none"
        => p = q

Sound(b) ==
    /\ b \in Agents!States
    /\ Books(b)
    /\ OneActive(b)
    /\ OnePerSignal(b)
    /\ Cardinality(Agents!OpenPositions(b)) <= MaxOpen

\* What is final in a state is the same in another.
KeepsFinal(b, n) ==
    /\ \A p \in Proposals : b.trade[p].status \in {"rejected", "executed"}
                            => n.trade[p].status = b.trade[p].status
    /\ \A s \in Sessions : b.session[s].status \in {"revoked", "expired"}
                           => n.session[s].status = b.session[s].status

\* The parts of a state.
LEMMA StateParts ==
    ASSUME NEW b \in Agents!States
    PROVE  /\ b.agent \in {"active", "paused"} /\ b.policy \in Policies /\ b.paused \in BOOLEAN
           /\ b.approvals \in SUBSET (Sessions \cup Proposals)
           /\ b.session \in [Sessions -> SessionRecords]
           /\ b.trade \in [Proposals -> TradeRecords]
           /\ b.exec \in [Proposals -> {"none", "open", "closed"}]
           /\ b.score \in Scores
BY DEF Agents!States, SessionRecords, TradeRecords, Scores

\* A state that leaves trades, executions and allowances alone stays sound.
LEMMA SoundAlike ==
    ASSUME NEW b, Sound(b), NEW n \in Agents!States,
           n.trade = b.trade, n.exec = b.exec, n.score = b.score, n.session = b.session
    PROVE  Sound(n) /\ KeepsFinal(b, n)
<1>1. /\ Recorded(n) = Recorded(b) /\ Placed(n) = Placed(b) /\ Rejected(n) = Rejected(b)
      /\ Agents!OpenPositions(n) = Agents!OpenPositions(b)
  BY DEF Recorded, Placed, Rejected, Agents!OpenPositions
<1>2. Books(n)
  BY <1>1 DEF Sound, Books
<1>3. OneActive(n) /\ OnePerSignal(n)
  BY DEF Sound, OneActive, OnePerSignal
<1>4. KeepsFinal(b, n)
  BY DEF KeepsFinal
<1> QED
  BY <1>1, <1>2, <1>3, <1>4 DEF Sound

-------------------------------------------------------------------------------
(* Allowances *)

\* An allowance that becomes active is the only one; a revoked or expired one
\* keeps its status.
LEMMA SessionWritten ==
    ASSUME NEW b, Sound(b), NEW s \in Sessions, NEW to \in Agents!SessionStatus,
           NEW policy \in Policies \cup {None}, NEW n, n = Agents!setSession(b, s, to, policy),
           Agents!validateSessionTransition(b, s, to)
    PROVE  Sound(n) /\ KeepsFinal(b, n)
<1> DEFINE new(r) == IF r = s THEN [status |-> to, policy |-> policy]
                     ELSE IF to = "active" /\ b.session[r].status = "active"
                          THEN [b.session[r] EXCEPT !.status = "revoked"]
                          ELSE b.session[r]
           next == [r \in Sessions |-> new(r)]
<1>0. b \in Agents!States /\ b.session \in [Sessions -> SessionRecords]
  BY StateParts DEF Sound
<1>1. n = [b EXCEPT !.session = next]
  BY DEF Agents!setSession
<1>2. \A r \in Sessions : /\ new(r) \in SessionRecords
                          /\ r = s => new(r).status = to
                          /\ r # s /\ to = "active" => new(r).status # "active"
                          /\ r # s /\ b.session[r].status # "active" => new(r) = b.session[r]
                          /\ r # s /\ to # "active" => new(r) = b.session[r]
  <2> TAKE r \in Sessions
  <2>1. b.session[r] \in SessionRecords
    BY <1>0
  <2>2. CASE r = s
    BY <2>2 DEF SessionRecords
  <2>3. CASE r # s /\ to = "active" /\ b.session[r].status = "active"
    BY <2>1, <2>3 DEF SessionRecords, Agents!SessionStatus
  <2>4. CASE r # s /\ ~(to = "active" /\ b.session[r].status = "active")
    BY <2>1, <2>4
  <2> QED
    BY <2>2, <2>3, <2>4
<1> HIDE DEF new
<1>3. next \in [Sessions -> SessionRecords] /\ \A r \in Sessions : next[r] = new(r)
  BY <1>2
<1> HIDE DEF next
<1>4. /\ n \in Agents!States /\ n.session = next
      /\ n.trade = b.trade /\ n.exec = b.exec /\ n.score = b.score
  BY <1>0, <1>1, <1>3 DEF Agents!States, SessionRecords
<1>5. /\ Recorded(n) = Recorded(b) /\ Placed(n) = Placed(b) /\ Rejected(n) = Rejected(b)
      /\ Agents!OpenPositions(n) = Agents!OpenPositions(b)
  BY <1>4 DEF Recorded, Placed, Rejected, Agents!OpenPositions
<1>6. Books(n) /\ OnePerSignal(n)
  BY <1>4, <1>5 DEF Sound, Books, OnePerSignal
<1>7. OneActive(n)
  BY <1>2, <1>3, <1>4 DEF Sound, OneActive
<1>8. KeepsFinal(b, n)
  BY <1>2, <1>3, <1>4 DEF KeepsFinal, Agents!validateSessionTransition
<1> QED
  BY <1>4, <1>5, <1>6, <1>7, <1>8 DEF Sound

-------------------------------------------------------------------------------
(* Trades *)

\* The two names of Cardinality are of one operator.
LEMMA SameCardinality == \A S : Agents!Cardinality(S) = Cardinality(S)
BY DEF Cardinality, Agents!Cardinality

\* A finite set with one element more.
LEMMA CountOneMore ==
    ASSUME NEW S, IsFiniteSet(S), NEW x, NEW T
    PROVE  /\ Cardinality(S) \in Nat
           /\ T = S \cup {x} => IsFiniteSet(T)
           /\ T = S \cup {x} /\ x \notin S => Cardinality(T) = Cardinality(S) + 1
           /\ T = S \cup {x} /\ x \in S => Cardinality(T) = Cardinality(S)
<1>1. Cardinality(S) \in Nat
  BY FS_CardinalityType
<1>2. /\ IsFiniteSet(S \cup {x})
      /\ x \notin S => Cardinality(S \cup {x}) = Cardinality(S) + 1
  BY FS_AddElement
<1>3. x \in S => S \cup {x} = S
  OBVIOUS
<1> QED
  BY <1>1, <1>2, <1>3

\* Positions are placed, placed and rejected trades recorded, so all are finite.
LEMMA BooksFinite ==
    ASSUME NEW b, Books(b)
    PROVE  /\ IsFiniteSet(Recorded(b)) /\ IsFiniteSet(Placed(b)) /\ IsFiniteSet(Rejected(b))
           /\ IsFiniteSet(Agents!OpenPositions(b))
<1>1. /\ Placed(b) \subseteq Recorded(b) /\ Rejected(b) \subseteq Recorded(b)
      /\ Agents!OpenPositions(b) \subseteq Placed(b)
  BY DEF Books, Placed, Recorded, Rejected, Agents!OpenPositions
<1>2. IsFiniteSet(Recorded(b))
  BY DEF Books
<1>3. IsFiniteSet(Placed(b)) /\ IsFiniteSet(Rejected(b))
  BY <1>1, <1>2, FS_Subset
<1> QED
  BY <1>1, <1>2, <1>3, FS_Subset

\* A write that changes one trade and its execution keeps a state sound when it
\* counts what changes, ends nothing twice and saves no second trade of a signal.
LEMMA OneTradeWritten ==
    ASSUME NEW b, Sound(b), NEW p \in Proposals, NEW n \in Agents!States,
           n.session = b.session,
           \A q \in Proposals \ {p} : n.trade[q] = b.trade[q] /\ n.exec[q] = b.exec[q],
           b.trade[p].status \in {"rejected", "executed"} =>
               n.trade[p].status = b.trade[p].status,
           n.trade[p].status # "none",
           n.trade[p].status = "executed" <=> n.exec[p] # "none",
           b.trade[p].status = "none" => Agents!duplicateOf(b, p) = {},
           b.trade[p].status = "none" => n.score.proposals = b.score.proposals + 1,
           b.trade[p].status # "none" => n.score.proposals = b.score.proposals,
           n.exec[p] # "none" /\ b.exec[p] = "none" => n.score.executed = b.score.executed + 1,
           ~(n.exec[p] # "none" /\ b.exec[p] = "none") => n.score.executed = b.score.executed,
           n.trade[p].status = "rejected" /\ b.trade[p].status # "rejected" =>
               n.score.rejected = b.score.rejected + 1,
           ~(n.trade[p].status = "rejected" /\ b.trade[p].status # "rejected") =>
               n.score.rejected = b.score.rejected,
           Cardinality(Agents!OpenPositions(n)) <= MaxOpen
    PROVE  Sound(n) /\ KeepsFinal(b, n)
<1>0. /\ Books(b) /\ OneActive(b) /\ OnePerSignal(b)
      /\ IsFiniteSet(Recorded(b)) /\ IsFiniteSet(Placed(b)) /\ IsFiniteSet(Rejected(b))
      /\ \A q \in Proposals : b.trade[q].status = "executed" <=> b.exec[q] # "none"
  BY BooksFinite DEF Sound, Books
<1>1. KeepsFinal(b, n)
  BY DEF KeepsFinal
<1>2. OneActive(n)
  BY <1>0 DEF OneActive
<1>3. OnePerSignal(n)
  <2> SUFFICES ASSUME NEW q \in Proposals, NEW r \in Proposals, q # r,
                      SignalOf[q] # None, SignalOf[q] = SignalOf[r],
                      n.trade[q].status # "none", n.trade[r].status # "none"
               PROVE  FALSE
    BY DEF OnePerSignal
  <2>1. CASE q # p /\ r # p
    BY <1>0, <2>1 DEF OnePerSignal
  <2>2. CASE b.trade[p].status # "none"
    BY <1>0, <2>2 DEF OnePerSignal
  <2>3. CASE b.trade[p].status = "none" /\ (q = p \/ r = p)
    BY <2>3 DEF Agents!duplicateOf
  <2> QED
    BY <2>1, <2>2, <2>3
<1>4. \A q \in Proposals : n.trade[q].status = "executed" <=> n.exec[q] # "none"
  BY <1>0
<1>5. IsFiniteSet(Recorded(n)) /\ n.score.proposals = Cardinality(Recorded(n))
  <2>1. Recorded(n) = Recorded(b) \cup {p} /\ (p \in Recorded(b) <=> b.trade[p].status # "none")
    BY DEF Recorded
  <2> QED
    BY <1>0, <2>1, CountOneMore DEF Books
<1>6. n.score.executed = Cardinality(Placed(n))
  <2>1. CASE n.exec[p] # "none"
    <3>1. Placed(n) = Placed(b) \cup {p} /\ (p \in Placed(b) <=> b.exec[p] # "none")
      BY <2>1 DEF Placed
    <3> QED
      BY <1>0, <2>1, <3>1, CountOneMore DEF Books
  <2>2. CASE n.exec[p] = "none"
    <3>1. Placed(n) = Placed(b)
      BY <1>0, <2>2 DEF Placed
    <3> QED
      BY <1>0, <2>2, <3>1 DEF Books
  <2> QED
    BY <2>1, <2>2
<1>7. n.score.rejected = Cardinality(Rejected(n))
  <2>1. CASE n.trade[p].status = "rejected"
    <3>1. Rejected(n) = Rejected(b) \cup {p} /\ (p \in Rejected(b) <=> b.trade[p].status = "rejected")
      BY <2>1 DEF Rejected
    <3> QED
      BY <1>0, <2>1, <3>1, CountOneMore DEF Books
  <2>2. CASE n.trade[p].status # "rejected"
    <3>1. Rejected(n) = Rejected(b)
      BY <2>2 DEF Rejected
    <3> QED
      BY <1>0, <2>2, <3>1 DEF Books
  <2> QED
    BY <2>1, <2>2
<1>8. Books(n)
  BY <1>4, <1>5, <1>6, <1>7 DEF Books
<1> QED
  BY <1>1, <1>2, <1>3, <1>8 DEF Sound

\* Positions stay as many as the executions they are read from.
LEMMA PositionsAlike ==
    ASSUME NEW b, NEW n, Sound(b), n.exec = b.exec
    PROVE  Cardinality(Agents!OpenPositions(n)) <= MaxOpen
BY DEF Sound, Agents!OpenPositions

\* The decisions leave a trade blocked, approved or waiting for a member.
LEMMA Decided ==
    ASSUME NEW d
    PROVE  /\ Agents!statusForEvaluation(d) \in {"blocked", "approved", "needs_approval"}
           /\ Agents!statusForEvaluation(d) \in Agents!TradeStatus
BY DEF Agents!statusForEvaluation, Agents!TradeStatus

\* A new proposal counts as one.
LEMMA ScoreOfNew ==
    ASSUME NEW c \in Scores, NEW new, new = Agents!scorecardForNewProposal(c)
    PROVE  /\ new \in Scores /\ new.proposals = c.proposals + 1
           /\ new.executed = c.executed /\ new.rejected = c.rejected
BY DEF Scores, Agents!scorecardForNewProposal

\* A change of status counts when it executes or rejects.
LEMMA ScoreOfChange ==
    ASSUME NEW c \in Scores, NEW before, NEW after, NEW moved,
           moved = Agents!scorecardForStatusChange(c, before, after)
    PROVE  /\ moved \in Scores /\ moved.proposals = c.proposals
           /\ before # "executed" /\ after = "executed" => moved.executed = c.executed + 1
           /\ ~(before # "executed" /\ after = "executed") => moved.executed = c.executed
           /\ before # "rejected" /\ after = "rejected" => moved.rejected = c.rejected + 1
           /\ ~(before # "rejected" /\ after = "rejected") => moved.rejected = c.rejected
<1> DEFINE x == IF before # "executed" /\ after = "executed" THEN c.executed + 1 ELSE c.executed
           y == IF before # "rejected" /\ after = "rejected" THEN c.rejected + 1 ELSE c.rejected
<1>1. moved = [c EXCEPT !.executed = x, !.rejected = y]
  BY DEF Agents!scorecardForStatusChange
<1>2. x \in Nat /\ y \in Nat
  BY DEF Scores
<1> HIDE DEF x, y
<1>3. moved \in Scores /\ moved.proposals = c.proposals /\ moved.executed = x /\ moved.rejected = y
  BY <1>1, <1>2 DEF Scores
<1> USE DEF x, y
<1> QED
  BY <1>3

\* A saved proposal (saveAgentServerProposal).
LEMMA ProposalSaved ==
    ASSUME NEW b, Sound(b), NEW p \in Proposals, NEW n \in Agents!saveProposal(b, p)
    PROVE  Sound(n) /\ KeepsFinal(b, n)
<1>0. /\ b \in Agents!States /\ b.trade \in [Proposals -> TradeRecords] /\ b.policy \in Policies
      /\ b.score \in Scores /\ b.exec \in [Proposals -> {"none", "open", "closed"}]
      /\ \A q \in Proposals : b.trade[q].status = "executed" <=> b.exec[q] # "none"
  BY StateParts DEF Sound, Books
<1>1. Agents!findKnown(b, p) = {}
  BY DEF Agents!saveProposal
<1>2. PICK d \in Agents!evaluateProposalFromState(b, p) :
        n = [b EXCEPT !.trade[p] = [status |-> Agents!statusForEvaluation(d), policy |-> b.policy],
                      !.score = IF b.trade[p].status = "none"
                                THEN Agents!scorecardForNewProposal(@)
                                ELSE Agents!scorecardForStatusChange(@, b.trade[p].status,
                                                            Agents!statusForEvaluation(d))]
  BY <1>1 DEF Agents!saveProposal
<1> DEFINE st == Agents!statusForEvaluation(d)
           rec == [status |-> st, policy |-> b.policy]
           score == IF b.trade[p].status = "none" THEN Agents!scorecardForNewProposal(b.score)
                    ELSE Agents!scorecardForStatusChange(b.score, b.trade[p].status, st)
           trade == [b.trade EXCEPT ![p] = rec]
<1>3. /\ b.trade[p].status \notin {"executed", "rejected"}
      /\ Agents!duplicateOf(b, p) = {}
  BY <1>1 DEF Agents!findKnown
<1>4. st \in {"blocked", "approved", "needs_approval"} /\ st \in Agents!TradeStatus
  BY Decided
<1>5. n = [b EXCEPT !.trade = trade, !.score = score]
  BY <1>2
<1> HIDE DEF st
<1>6. /\ trade \in [Proposals -> TradeRecords]
      /\ trade[p].status = st
      /\ \A q \in Proposals \ {p} : trade[q] = b.trade[q]
  BY <1>0, <1>4 DEF TradeRecords
<1>7. /\ score \in Scores
      /\ b.trade[p].status = "none" => score.proposals = b.score.proposals + 1
      /\ b.trade[p].status # "none" => score.proposals = b.score.proposals
      /\ score.executed = b.score.executed /\ score.rejected = b.score.rejected
  <2>1. CASE b.trade[p].status = "none"
    <3>1. score = Agents!scorecardForNewProposal(b.score)
      BY <2>1
    <3> QED
      BY <1>0, <2>1, <3>1, ScoreOfNew
  <2>2. CASE b.trade[p].status # "none"
    <3>1. score = Agents!scorecardForStatusChange(b.score, b.trade[p].status, st)
      BY <2>2
    <3> QED
      BY <1>0, <1>4, <2>2, <3>1, ScoreOfChange
  <2> QED
    BY <2>1, <2>2
<1> HIDE DEF trade, score
<1>8. /\ n \in Agents!States /\ n.trade = trade /\ n.score = score
      /\ n.session = b.session /\ n.exec = b.exec
  BY <1>0, <1>5, <1>6, <1>7 DEF Agents!States, TradeRecords, Scores
<1>9. Cardinality(Agents!OpenPositions(n)) <= MaxOpen
  BY <1>8, PositionsAlike
<1> QED
  BY <1>0, <1>3, <1>4, <1>6, <1>7, <1>8, <1>9, OneTradeWritten

\* A proposal a member approves.
LEMMA ProposalApproved ==
    ASSUME NEW b, Sound(b), NEW p \in Proposals, NEW n \in Agents!approveProposal(b, p)
    PROVE  Sound(n) /\ KeepsFinal(b, n)
<1>0. /\ b \in Agents!States /\ b.trade \in [Proposals -> TradeRecords] /\ b.policy \in Policies
      /\ b.score \in Scores /\ b.exec \in [Proposals -> {"none", "open", "closed"}]
      /\ \A q \in Proposals : b.trade[q].status = "executed" <=> b.exec[q] # "none"
  BY StateParts DEF Sound, Books
<1>1. b.trade[p].status \notin {"none", "executed", "rejected"}
  BY DEF Agents!approveProposal
<1>2. PICK d \in Agents!evaluateProposalFromState(b, p) :
        n = [b EXCEPT !.trade[p] = [status |-> IF d = "blocked" THEN "blocked" ELSE "approved",
                                    policy |-> b.policy]]
  BY <1>1 DEF Agents!approveProposal
<1> DEFINE st == IF d = "blocked" THEN "blocked" ELSE "approved"
           rec == [status |-> st, policy |-> b.policy]
           trade == [b.trade EXCEPT ![p] = rec]
<1>3. n = [b EXCEPT !.trade = trade]
  BY <1>2
<1>4. st \in {"blocked", "approved"} /\ st \in Agents!TradeStatus
  BY DEF Agents!TradeStatus
<1> HIDE DEF st
<1>5. /\ trade \in [Proposals -> TradeRecords]
      /\ trade[p].status = st
      /\ \A q \in Proposals \ {p} : trade[q] = b.trade[q]
  BY <1>0, <1>4 DEF TradeRecords
<1> HIDE DEF trade
<1>6. /\ n \in Agents!States /\ n.trade = trade /\ n.score = b.score
      /\ n.session = b.session /\ n.exec = b.exec
  BY <1>0, <1>3, <1>5 DEF Agents!States, TradeRecords
<1>7. Cardinality(Agents!OpenPositions(n)) <= MaxOpen
  BY <1>6, PositionsAlike
<1> QED
  BY <1>0, <1>1, <1>4, <1>5, <1>6, <1>7, OneTradeWritten

\* A proposal a member rejects, perhaps again.
LEMMA ProposalRejected ==
    ASSUME NEW b, Sound(b), NEW p \in Proposals, NEW n \in Agents!rejectProposal(b, p)
    PROVE  Sound(n) /\ KeepsFinal(b, n)
<1>0. /\ b \in Agents!States /\ b.trade \in [Proposals -> TradeRecords] /\ b.policy \in Policies
      /\ b.score \in Scores /\ b.exec \in [Proposals -> {"none", "open", "closed"}]
      /\ \A q \in Proposals : b.trade[q].status = "executed" <=> b.exec[q] # "none"
  BY StateParts DEF Sound, Books
<1>1. b.trade[p].status \notin {"none", "executed"}
  BY DEF Agents!rejectProposal
<1> DEFINE score == Agents!scorecardForStatusChange(b.score, b.trade[p].status, "rejected")
           trade == [b.trade EXCEPT ![p].status = "rejected"]
<1>2. n = [b EXCEPT !.trade = trade, !.score = score]
  BY <1>1 DEF Agents!rejectProposal
<1>3. /\ trade \in [Proposals -> TradeRecords]
      /\ trade[p].status = "rejected"
      /\ \A q \in Proposals \ {p} : trade[q] = b.trade[q]
  BY <1>0 DEF TradeRecords, Agents!TradeStatus
<1>4. /\ score \in Scores
      /\ score.proposals = b.score.proposals /\ score.executed = b.score.executed
      /\ b.trade[p].status # "rejected" => score.rejected = b.score.rejected + 1
      /\ b.trade[p].status = "rejected" => score.rejected = b.score.rejected
  BY <1>0, <1>1, ScoreOfChange
<1> HIDE DEF trade, score
<1>5. /\ n \in Agents!States /\ n.trade = trade /\ n.score = score
      /\ n.session = b.session /\ n.exec = b.exec
  BY <1>0, <1>2, <1>3, <1>4 DEF Agents!States, TradeRecords, Scores
<1>6. Cardinality(Agents!OpenPositions(n)) <= MaxOpen
  BY <1>5, PositionsAlike
<1> QED
  BY <1>0, <1>1, <1>3, <1>4, <1>5, <1>6, OneTradeWritten

-------------------------------------------------------------------------------
(* Executions *)

\* What a decision other than blocked says; allowed says more.
LEMMA NotBlocked ==
    ASSUME NEW b, NEW p, NEW d \in Agents!evaluateProposalFromState(b, p), d # "blocked"
    PROVE  /\ ~(Cardinality(Agents!OpenPositions(b)) >= MaxOpen)
           /\ d = "allowed" =>
                \E s \in Agents!activeSessionFor(b) : b.session[s].policy = b.policy
<1>1. ~Agents!blocked(b, p)
  BY DEF Agents!evaluateProposalFromState
<1>2. d = "allowed" => \E s \in Agents!activeSessionFor(b) : b.session[s].policy = b.policy
  BY <1>1 DEF Agents!evaluateProposalFromState
<1> QED
  BY <1>1, <1>2, SameCardinality DEF Agents!blocked

\* An opened position was approved, and the limit left room for it.
LEMMA ExecutionSaved ==
    ASSUME NEW b, Sound(b), NEW p \in Proposals, NEW auto \in BOOLEAN,
           NEW n \in Agents!saveExecution(b, p, auto)
    PROVE  Sound(n) /\ KeepsFinal(b, n)
<1>0. /\ b \in Agents!States /\ b.trade \in [Proposals -> TradeRecords]
      /\ b.score \in Scores /\ b.exec \in [Proposals -> {"none", "open", "closed"}]
      /\ Books(b) /\ Cardinality(Agents!OpenPositions(b)) <= MaxOpen
  BY StateParts DEF Sound
<1>1. Agents!validateNewExecution(b, p, auto) /\ n = Agents!openExecution(b, p)
  BY DEF Agents!saveExecution
<1>2. /\ b.exec[p] = "none" /\ b.trade[p].status = "approved"
      /\ ~(Cardinality(Agents!OpenPositions(b)) >= MaxOpen)
  BY <1>1, NotBlocked DEF Agents!validateNewExecution
<1> DEFINE score == Agents!scorecardForStatusChange(b.score, b.trade[p].status, "executed")
           trade == [b.trade EXCEPT ![p].status = "executed"]
           exec == [b.exec EXCEPT ![p] = "open"]
<1>3. n = [b EXCEPT !.exec = exec, !.trade = trade, !.score = score]
  BY <1>1 DEF Agents!openExecution
<1>4. /\ trade \in [Proposals -> TradeRecords]
      /\ trade[p].status = "executed"
      /\ \A q \in Proposals \ {p} : trade[q] = b.trade[q]
  BY <1>0 DEF TradeRecords, Agents!TradeStatus
<1>5. /\ exec \in [Proposals -> {"none", "open", "closed"}]
      /\ exec[p] = "open"
      /\ \A q \in Proposals \ {p} : exec[q] = b.exec[q]
  BY <1>0
<1>6. /\ score \in Scores
      /\ score.proposals = b.score.proposals /\ score.rejected = b.score.rejected
      /\ score.executed = b.score.executed + 1
  BY <1>0, <1>2, ScoreOfChange
<1> HIDE DEF trade, score, exec
<1>7. /\ n \in Agents!States /\ n.trade = trade /\ n.score = score
      /\ n.session = b.session /\ n.exec = exec
  BY <1>0, <1>3, <1>4, <1>5, <1>6 DEF Agents!States, TradeRecords, Scores
<1>8. Cardinality(Agents!OpenPositions(n)) <= MaxOpen
  <2>1. /\ Agents!OpenPositions(n) = Agents!OpenPositions(b) \cup {p}
        /\ p \notin Agents!OpenPositions(b)
    BY <1>2, <1>5, <1>7 DEF Agents!OpenPositions
  <2>2. IsFiniteSet(Agents!OpenPositions(b))
    BY <1>0, BooksFinite
  <2>3. /\ Cardinality(Agents!OpenPositions(b)) \in Nat
        /\ Cardinality(Agents!OpenPositions(n)) = Cardinality(Agents!OpenPositions(b)) + 1
    BY <2>1, <2>2, CountOneMore
  <2> QED
    BY <1>2, <2>3, OperationsAssumption
<1> QED
  BY <1>2, <1>4, <1>5, <1>6, <1>7, <1>8, OneTradeWritten

\* A closed position is executed as before.
LEMMA ExecutionClosed ==
    ASSUME NEW b, Sound(b), NEW p \in Proposals, NEW n \in Agents!closeExecution(b, p)
    PROVE  Sound(n) /\ KeepsFinal(b, n)
<1>0. /\ b \in Agents!States /\ b.trade \in [Proposals -> TradeRecords]
      /\ b.score \in Scores /\ b.exec \in [Proposals -> {"none", "open", "closed"}]
      /\ Books(b) /\ Cardinality(Agents!OpenPositions(b)) <= MaxOpen
  BY StateParts DEF Sound
<1>1. b.exec[p] = "open" /\ n = [b EXCEPT !.exec[p] = "closed"]
  BY DEF Agents!closeExecution
<1> DEFINE exec == [b.exec EXCEPT ![p] = "closed"]
<1>2. n = [b EXCEPT !.exec = exec]
  BY <1>1
<1>3. /\ exec \in [Proposals -> {"none", "open", "closed"}]
      /\ exec[p] = "closed"
      /\ \A q \in Proposals \ {p} : exec[q] = b.exec[q]
  BY <1>0
<1> HIDE DEF exec
<1>4. /\ n \in Agents!States /\ n.trade = b.trade /\ n.score = b.score
      /\ n.session = b.session /\ n.exec = exec
  BY <1>0, <1>2, <1>3 DEF Agents!States
<1>5. b.trade[p].status = "executed"
  BY <1>0, <1>1 DEF Books
<1>6. Cardinality(Agents!OpenPositions(n)) <= MaxOpen
  <2>1. Agents!OpenPositions(n) \subseteq Agents!OpenPositions(b)
    BY <1>3, <1>4 DEF Agents!OpenPositions
  <2>2. IsFiniteSet(Agents!OpenPositions(b))
    BY <1>0, BooksFinite
  <2>3. /\ Cardinality(Agents!OpenPositions(n)) <= Cardinality(Agents!OpenPositions(b))
        /\ Cardinality(Agents!OpenPositions(b)) \in Nat
        /\ Cardinality(Agents!OpenPositions(n)) \in Nat
    BY <2>1, <2>2, FS_Subset, FS_CardinalityType
  <2> QED
    BY <1>0, <2>3, OperationsAssumption
<1> QED
  BY <1>1, <1>3, <1>4, <1>5, <1>6, OneTradeWritten

-------------------------------------------------------------------------------
(* Requests and those that serve them *)

StateKinds == {"agent", "policy", "pause", "approval", "session", "status", "save",
               "approve", "reject", "open", "close"}
SignalKinds == {"signal", "import", "delete"}

\* What a request is about, by its kind.
LEMMA RequestParts ==
    ASSUME NEW k \in Agents!Requests
    PROVE  /\ k.kind \in StateKinds \cup SignalKinds \cup {"register", "tick"}
           /\ k.kind = "agent" => k.to \in {"active", "paused"}
           /\ k.kind = "policy" => k.to \in Policies /\ k.paused \in BOOLEAN
           /\ k.kind \in {"pause", "register"} => k.to \in BOOLEAN
           /\ k.kind = "approval" => k.of \in Sessions \cup Proposals
           /\ k.kind \in {"session", "status"} => k.of \in Sessions
           /\ k.kind = "status" => k.to \in Agents!SessionStatus
           /\ k.kind \in {"save", "approve", "reject", "open", "close"} => k.of \in Proposals
           /\ k.kind \in SignalKinds => k.of \in Signals
BY DEF Agents!Requests, StateKinds, SignalKinds

Steps == {"idle", "load", "store", "register", "signal", "claim", "enqueue", "import",
          "judge", "importLoad", "importStore", "removeRead", "removeWrite", "scan",
          "placeRead", "placeJudge", "placeLoad", "placeStore"}

WorkerRecords ==
    [request : Agents!Requests \cup {Agents!NoRequest}, pc : Steps,
     trade : Proposals \cup {None}, approved : BOOLEAN,
     copy : Agents!States \cup {None}, list : (SUBSET Signals) \cup {None}]

\* A worker that is about to write has read a sound state, and what it goes on
\* with is what its request is about.
WorkerOK(x) ==
    /\ x \in WorkerRecords
    /\ x.pc # "idle" => x.request \in Agents!Requests
    /\ x.pc \in {"store", "importStore", "placeStore"} => Sound(x.copy)
    /\ x.pc \in {"load", "store"} => x.request.kind \in StateKinds
    /\ x.pc = "register" => x.request.kind = "register"
    /\ x.pc \in {"signal", "claim", "enqueue", "import", "removeRead", "removeWrite"}
         => x.request.kind \in SignalKinds
    /\ x.pc \in {"judge", "importLoad", "importStore", "placeRead", "placeJudge", "placeLoad",
                 "placeStore"}
         => x.trade \in Proposals /\ x.request.kind \in SignalKinds \cup {"tick"}
    /\ x.pc \in {"removeRead", "removeWrite"} /\ x.request.kind = "signal" => x.trade \in Proposals
    /\ x.pc = "scan" => x.request.kind = "tick"
    /\ x.pc \in {"claim", "enqueue", "removeWrite"} => x.list \in SUBSET Signals

WorkersOK == DOMAIN worker = Workers /\ \A w \in Workers : WorkerOK(worker[w])

AgentInv ==
    /\ WorkersOK
    /\ Sound(db)
    /\ inbox \subseteq Signals /\ nonces \subseteq Signals /\ automatic \in BOOLEAN
    /\ menu \in Menus /\ started \in 0 .. MaxRequests
    /\ ended \subseteq Sessions \cup Proposals /\ lost \in BOOLEAN

\* One worker goes on.
LEMMA WorkerGoesOn ==
    ASSUME WorkersOK, NEW w \in Workers, NEW x, WorkerOK(x), worker' = [worker EXCEPT ![w] = x]
    PROVE  WorkersOK' /\ worker'[w] = x /\ \A v \in Workers \ {w} : worker'[v] = worker[v]
<1>1. /\ DOMAIN worker' = Workers /\ worker'[w] = x
      /\ \A v \in Workers \ {w} : worker'[v] = worker[v]
  BY DEF WorkersOK
<1>2. \A v \in Workers : WorkerOK(worker'[v])
  BY <1>1 DEF WorkersOK
<1> QED
  BY <1>1, <1>2 DEF WorkersOK, WorkerOK, Sound, Books, OneActive, OnePerSignal

\* A worker that is done.
LEMMA IdleOK == WorkerOK(Agents!Idle) /\ Agents!Idle.pc = "idle"
BY DEF Agents!Idle, WorkerOK, WorkerRecords, Steps

\* A request that is done leaves its worker idle.
LEMMA Finishes ==
    ASSUME WorkersOK, NEW w \in Workers, Agents!Finish(w)
    PROVE  WorkersOK' /\ \A v \in Workers \ {w} : worker'[v] = worker[v]
BY IdleOK, WorkerGoesOn DEF Agents!Finish

\* A worker that moves to another step with what it has.
LEMMA Moves ==
    ASSUME WorkersOK, NEW w \in Workers, NEW pc \in Steps, Agents!Goto(w, pc),
           WorkerOK([worker[w] EXCEPT !.pc = pc])
    PROVE  WorkersOK'
<1>1. worker' = [worker EXCEPT ![w] = [worker[w] EXCEPT !.pc = pc]]
  BY DEF Agents!Goto
<1> QED
  BY <1>1, WorkerGoesOn

-------------------------------------------------------------------------------
(* What a write makes of a sound state *)

\* Whatever a request writes is sound and keeps what is final.
LEMMA WritesSound ==
    ASSUME WorkersOK, NEW w \in Workers, worker[w].pc \in {"store", "placeStore"},
           NEW n \in Agents!Writes(w, worker[w].copy)
    PROVE  Sound(n) /\ KeepsFinal(worker[w].copy, n)
<1> DEFINE b == worker[w].copy
           k == worker[w].request
<1>0. WorkerOK(worker[w])
  BY DEF WorkersOK
<1>1. Sound(b) /\ b \in Agents!States /\ k \in Agents!Requests
  BY <1>0 DEF WorkerOK, Sound
<1>2. CASE worker[w].pc = "placeStore"
  <2>1. worker[w].trade \in Proposals
    BY <1>0, <1>2 DEF WorkerOK
  <2>2. n \in Agents!saveExecution(b, worker[w].trade, TRUE)
    BY <1>0, <1>2 DEF Agents!Writes, WorkerOK, SignalKinds
  <2> QED
    BY <1>1, <2>1, <2>2, ExecutionSaved
<1>3. CASE worker[w].pc = "store"
  <2>0. k.kind \in StateKinds
    BY <1>0, <1>3 DEF WorkerOK
  <2> DEFINE Alike(x) == x \in Agents!States /\ x.trade = b.trade /\ x.exec = b.exec
                         /\ x.score = b.score /\ x.session = b.session
  <2>1. CASE k.kind = "agent"
    <3>1. n = [b EXCEPT !.agent = k.to] /\ k.to \in {"active", "paused"}
      BY <1>1, <1>3, <2>1, RequestParts DEF Agents!Writes
    <3>2. Alike(n)
      BY <1>1, <3>1 DEF Agents!States
    <3> QED
      BY <1>1, <3>2, SoundAlike
  <2>2. CASE k.kind = "policy"
    <3>1. /\ n = [b EXCEPT !.policy = k.to, !.paused = k.paused]
          /\ k.to \in Policies /\ k.paused \in BOOLEAN
      BY <1>1, <1>3, <2>2, RequestParts DEF Agents!Writes
    <3>2. Alike(n)
      BY <1>1, <3>1 DEF Agents!States
    <3> QED
      BY <1>1, <3>2, SoundAlike
  <2>3. CASE k.kind = "pause"
    <3>1. n = [b EXCEPT !.paused = k.to] /\ k.to \in BOOLEAN
      BY <1>1, <1>3, <2>3, RequestParts DEF Agents!Writes
    <3>2. Alike(n)
      BY <1>1, <3>1 DEF Agents!States
    <3> QED
      BY <1>1, <3>2, SoundAlike
  <2>4. CASE k.kind = "approval"
    <3>1. n = [b EXCEPT !.approvals = @ \cup {k.of}] /\ k.of \in Sessions \cup Proposals
      BY <1>1, <1>3, <2>4, RequestParts DEF Agents!Writes
    <3>2. Alike(n)
      BY <1>1, <3>1 DEF Agents!States
    <3> QED
      BY <1>1, <3>2, SoundAlike
  <2>5. CASE k.kind = "session"
    <3>1. n \in Agents!saveSession(b, k.of) /\ k.of \in Sessions
      BY <1>1, <1>3, <2>5, RequestParts DEF Agents!Writes
    <3>2. /\ n = Agents!setSession(b, k.of, "active", b.policy)
          /\ Agents!validateSessionTransition(b, k.of, "active")
      BY <3>1 DEF Agents!saveSession
    <3>3. b.policy \in Policies \cup {None} /\ "active" \in Agents!SessionStatus
      BY <1>1, StateParts DEF Agents!SessionStatus
    <3> QED
      BY <1>1, <3>1, <3>2, <3>3, SessionWritten
  <2>6. CASE k.kind = "status"
    <3>1. /\ n \in Agents!updateSessionStatus(b, k.of, k.to)
          /\ k.of \in Sessions /\ k.to \in Agents!SessionStatus
      BY <1>1, <1>3, <2>6, RequestParts DEF Agents!Writes
    <3>2. /\ n = Agents!setSession(b, k.of, k.to, b.session[k.of].policy)
          /\ Agents!validateSessionTransition(b, k.of, k.to)
      BY <3>1 DEF Agents!updateSessionStatus
    <3>3. b.session[k.of].policy \in Policies \cup {None}
      BY <1>1, <3>1, StateParts DEF SessionRecords
    <3> QED
      BY <1>1, <3>1, <3>2, <3>3, SessionWritten
  <2>7. CASE k.kind = "save"
    <3>1. n \in Agents!saveProposal(b, k.of) /\ k.of \in Proposals
      BY <1>1, <1>3, <2>7, RequestParts DEF Agents!Writes
    <3> QED
      BY <1>1, <3>1, ProposalSaved
  <2>8. CASE k.kind = "approve"
    <3>1. n \in Agents!approveProposal(b, k.of) /\ k.of \in Proposals
      BY <1>1, <1>3, <2>8, RequestParts DEF Agents!Writes
    <3> QED
      BY <1>1, <3>1, ProposalApproved
  <2>9. CASE k.kind = "reject"
    <3>1. n \in Agents!rejectProposal(b, k.of) /\ k.of \in Proposals
      BY <1>1, <1>3, <2>9, RequestParts DEF Agents!Writes
    <3> QED
      BY <1>1, <3>1, ProposalRejected
  <2>10. CASE k.kind = "open"
    <3>1. n \in Agents!saveExecution(b, k.of, FALSE) /\ k.of \in Proposals
      BY <1>1, <1>3, <2>10, RequestParts DEF Agents!Writes
    <3> QED
      BY <1>1, <3>1, ExecutionSaved
  <2>11. CASE k.kind = "close"
    <3>1. n \in Agents!closeExecution(b, k.of) /\ k.of \in Proposals
      BY <1>1, <1>3, <2>11, RequestParts DEF Agents!Writes
    <3> QED
      BY <1>1, <3>1, ExecutionClosed
  <2> QED
    BY <2>0, <2>1, <2>2, <2>3, <2>4, <2>5, <2>6, <2>7, <2>8, <2>9, <2>10, <2>11 DEF StateKinds
<1> QED
  BY <1>2, <1>3

-------------------------------------------------------------------------------
(* Steps *)

\* What a step does to the saved state: nothing, or a write that keeps what is
\* final of the state its writer read.
Written ==
    \/ db' = db /\ lost' = lost
    \/ Sound(db') /\ (lost' \/ KeepsFinal(db, db'))

StoreOK ==
    /\ Sound(db)
    /\ inbox \subseteq Signals /\ nonces \subseteq Signals /\ automatic \in BOOLEAN
    /\ menu \in Menus /\ started \in 0 .. MaxRequests
    /\ ended \subseteq Sessions \cup Proposals /\ lost \in BOOLEAN

\* A write is of a state made from the copy its worker has.
LEMMA WriteWritten ==
    ASSUME NEW w, NEW b, b = worker[w].copy, NEW n, Sound(n), KeepsFinal(b, n),
           lost \in BOOLEAN, Agents!Write(w, n)
    PROVE  Written /\ lost' \in BOOLEAN /\ Sound(db')
<1>1. db' = n /\ lost' = (lost \/ db # b)
  BY DEF Agents!Write
<1>2. lost' \in BOOLEAN /\ (lost' \/ db = b)
  BY <1>1, Zenon
<1> QED
  BY <1>1, <1>2 DEF Written

\* The last write of a request (Store), or its refusal.
LEMMA SaveState ==
    ASSUME AgentInv, NEW w \in Workers, Agents!Store(w)
    PROVE  /\ WorkersOK' /\ StoreOK' /\ Written
           /\ \A v \in Workers \ {w} : worker'[v] = worker[v]
<1>1. WorkersOK' /\ \A v \in Workers \ {w} : worker'[v] = worker[v]
  BY Finishes DEF AgentInv, Agents!Store
<1>2. CASE UNCHANGED <<db, inbox, nonces, automatic, started, menu, ended, lost>>
  BY <1>1, <1>2 DEF AgentInv, StoreOK, Written, Sound, Books, OneActive, OnePerSignal
<1>3. CASE \E n \in Agents!Writes(w, worker[w].copy) : Agents!Write(w, n)
  <2>1. PICK n \in Agents!Writes(w, worker[w].copy) : Agents!Write(w, n)
    BY <1>3
  <2>2. Sound(n) /\ KeepsFinal(worker[w].copy, n)
    BY WritesSound DEF AgentInv, Agents!Store
  <2>3. Written /\ lost' \in BOOLEAN /\ Sound(db')
    BY <2>1, <2>2, WriteWritten DEF AgentInv
  <2> QED
    BY <1>1, <2>1, <2>3 DEF AgentInv, StoreOK, Agents!Write, Agents!queue
<1> QED
  BY <1>1, <1>2, <1>3 DEF Agents!Store, Agents!queue

\* A step that leaves the saved state alone.
LEMMA NothingSaved ==
    ASSUME AgentInv, db' = db, lost' = lost, menu' = menu, inbox' \subseteq Signals,
           nonces' \subseteq Signals, automatic' \in BOOLEAN, started' \in 0 .. MaxRequests,
           ended' \subseteq Sessions \cup Proposals
    PROVE  StoreOK' /\ Written
BY DEF AgentInv, StoreOK, Written, Sound, Books, OneActive, OnePerSignal

\* What a worker has when its request arrives.
LEMMA NewRequest ==
    ASSUME NEW k, NEW pc, NEW copy, NEW x,
           x = [Agents!Idle EXCEPT !.request = k, !.pc = pc, !.copy = copy]
    PROVE  x = [request |-> k, pc |-> pc, trade |-> None, approved |-> FALSE, copy |-> copy,
                list |-> None]
BY DEF Agents!Idle

\* A request arrives.
LEMMA RequestServed ==
    ASSUME AgentInv, NEW w \in Workers, NEW k \in Agents!Requests, Agents!Serve(w, k)
    PROVE  WorkersOK' /\ StoreOK' /\ Written /\ db' = db
<1> DEFINE copy == IF Agents!FirstStep(k) = "store" THEN db ELSE None
           x == [Agents!Idle EXCEPT !.request = k, !.pc = Agents!FirstStep(k), !.copy = copy]
<1>1. /\ worker' = [worker EXCEPT ![w] = x] /\ started' = started + 1 /\ started < MaxRequests
      /\ UNCHANGED <<db, inbox, nonces, automatic, menu, ended, lost>>
  BY DEF Agents!Serve, Agents!queue
<1>2. k.kind \in StateKinds \cup SignalKinds \cup {"register", "tick"}
  BY RequestParts
<1>3. /\ Agents!FirstStep(k) \in {"store", "load"} => k.kind \in StateKinds
      /\ Agents!FirstStep(k) \in {"signal", "import", "removeRead"} => k.kind \in SignalKinds
      /\ Agents!FirstStep(k) = "removeRead" => k.kind = "delete"
      /\ Agents!FirstStep(k) = "register" => k.kind = "register"
      /\ Agents!FirstStep(k) = "scan" => k.kind = "tick"
      /\ Agents!FirstStep(k) \in {"store", "load", "signal", "import", "removeRead", "register", "scan"}
  BY <1>2 DEF Agents!FirstStep, StateKinds, SignalKinds
<1> HIDE DEF copy
<1>4. x = [request |-> k, pc |-> Agents!FirstStep(k), trade |-> None, approved |-> FALSE,
           copy |-> copy, list |-> None]
  BY NewRequest
<1> HIDE DEF x
<1> USE DEF copy
<1>5. Sound(db) /\ db \in Agents!States
  BY DEF AgentInv, Sound
<1>6. WorkerOK(x)
  <2>1. x \in WorkerRecords
    BY <1>3, <1>4, <1>5 DEF WorkerRecords, Steps
  <2> QED
    BY <1>3, <1>4, <1>5, <2>1 DEF WorkerOK
<1>7. WorkersOK'
  BY <1>1, <1>6, WorkerGoesOn DEF AgentInv
<1>8. started' \in 0 .. MaxRequests
  BY <1>1, OperationsAssumption DEF AgentInv
<1>9. StoreOK' /\ Written
  BY <1>1, <1>8, NothingSaved DEF AgentInv
<1> QED
  BY <1>1, <1>7, <1>9

\* getAgentServerWalletState: what the handler reads is sound.
LEMMA StateLoaded ==
    ASSUME AgentInv, NEW w \in Workers, Agents!Load(w)
    PROVE  WorkersOK' /\ StoreOK' /\ Written /\ db' = db
<1> DEFINE pc == CASE worker[w].pc = "load" -> "store"
                   [] worker[w].pc = "importLoad" -> "importStore"
                   [] worker[w].pc = "placeLoad" -> "placeStore"
           x == [worker[w] EXCEPT !.copy = db, !.pc = pc]
<1>0. WorkerOK(worker[w]) /\ worker[w] \in WorkerRecords /\ Sound(db) /\ db \in Agents!States
  BY DEF AgentInv, WorkersOK, WorkerOK, Sound
<1>1. /\ worker[w].pc \in {"load", "importLoad", "placeLoad"}
      /\ worker' = [worker EXCEPT ![w] = x]
      /\ UNCHANGED <<db, inbox, nonces, automatic, started, menu, ended, lost>>
  BY DEF Agents!Load, Agents!queue
<1>2. /\ worker[w].pc = "load" => pc = "store"
      /\ worker[w].pc = "importLoad" => pc = "importStore"
      /\ worker[w].pc = "placeLoad" => pc = "placeStore"
      /\ pc \in {"store", "importStore", "placeStore"}
  BY <1>1
<1> HIDE DEF pc
<1>3. /\ x \in WorkerRecords /\ x.pc = pc /\ x.copy = db /\ x.trade = worker[w].trade
      /\ x.request = worker[w].request
  BY <1>0, <1>2 DEF WorkerRecords, Steps
<1> HIDE DEF x
<1>4. WorkerOK(x)
  BY <1>0, <1>1, <1>2, <1>3 DEF WorkerOK
<1>5. WorkersOK'
  BY <1>1, <1>4, WorkerGoesOn DEF AgentInv
<1>6. StoreOK' /\ Written
  BY <1>1, NothingSaved DEF AgentInv
<1> QED
  BY <1>1, <1>5, <1>6

\* What follows a save.
LEMMA SaveFollowed ==
    ASSUME WorkersOK, NEW w \in Workers, worker[w].pc = "importStore", NEW p \in Proposals,
           NEW status, Agents!AfterSave(w, p, status)
    PROVE  WorkersOK' /\ \A v \in Workers \ {w} : worker'[v] = worker[v]
<1>0. /\ WorkerOK(worker[w]) /\ worker[w] \in WorkerRecords
      /\ worker[w].request \in Agents!Requests
      /\ worker[w].request.kind \in SignalKinds \cup {"tick"}
  BY DEF WorkersOK, WorkerOK
<1>1. CASE Agents!Finish(w)
  BY <1>1, Finishes
<1>2. ASSUME NEW pc \in {"removeRead", "placeRead"},
             pc = "removeRead" => worker[w].request.kind # "tick",
             worker' = [worker EXCEPT ![w].pc = pc, ![w].trade = p, ![w].copy = None,
                                      ![w].approved = (status = "approved")]
      PROVE  WorkersOK' /\ \A v \in Workers \ {w} : worker'[v] = worker[v]
  <2> DEFINE x == [worker[w] EXCEPT !.pc = pc, !.trade = p, !.copy = None,
                                    !.approved = (status = "approved")]
  <2>1. worker' = [worker EXCEPT ![w] = x]
    BY <1>2
  <2>2. /\ x \in WorkerRecords /\ x.pc = pc /\ x.trade = p /\ x.request = worker[w].request
    BY <1>0 DEF WorkerRecords, Steps
  <2> HIDE DEF x
  <2>3. WorkerOK(x)
    BY <1>0, <1>2, <2>2 DEF WorkerOK, SignalKinds
  <2> QED
    BY <2>1, <2>3, WorkerGoesOn
<1>3. CASE worker[w].request.kind # "tick"
  <2>1. worker' = [worker EXCEPT ![w].pc = "removeRead", ![w].trade = p, ![w].copy = None,
                                 ![w].approved = (status = "approved")]
    BY <1>3 DEF Agents!AfterSave
  <2> QED
    BY <1>2, <1>3, <2>1
<1>4. CASE worker[w].request.kind = "tick" /\ status = "approved"
  <2>1. worker' = [worker EXCEPT ![w].pc = "placeRead", ![w].trade = p, ![w].copy = None,
                                 ![w].approved = (status = "approved")]
    BY <1>4 DEF Agents!AfterSave
  <2> QED
    BY <1>2, <2>1
<1>5. CASE worker[w].request.kind = "tick" /\ status # "approved"
  BY <1>1, <1>5 DEF Agents!AfterSave
<1> QED
  BY <1>3, <1>4, <1>5

\* The save of an import or of a tick (saveAgentServerProposal).
LEMMA ImportStored ==
    ASSUME AgentInv, NEW w \in Workers, Agents!ImportStore(w)
    PROVE  /\ WorkersOK' /\ StoreOK' /\ Written
           /\ \A v \in Workers \ {w} : worker'[v] = worker[v]
<1> DEFINE b == worker[w].copy
           p == worker[w].trade
<1>0. worker[w].pc = "importStore" /\ Sound(b) /\ p \in Proposals /\ WorkersOK
  BY DEF AgentInv, WorkersOK, WorkerOK, Agents!ImportStore
<1>1. CASE \E n \in Agents!saveProposal(b, p) :
              Agents!Write(w, n) /\ Agents!AfterSave(w, p, n.trade[p].status)
  <2>1. PICK n \in Agents!saveProposal(b, p) :
              Agents!Write(w, n) /\ Agents!AfterSave(w, p, n.trade[p].status)
    BY <1>1
  <2>2. Sound(n) /\ KeepsFinal(b, n)
    BY <1>0, ProposalSaved
  <2>3. Written /\ lost' \in BOOLEAN /\ Sound(db')
    BY <2>1, <2>2, WriteWritten DEF AgentInv
  <2>4. WorkersOK' /\ \A v \in Workers \ {w} : worker'[v] = worker[v]
    BY <1>0, <2>1, SaveFollowed
  <2> QED
    BY <2>1, <2>3, <2>4 DEF AgentInv, StoreOK, Agents!Write, Agents!queue
<1>2. CASE /\ \E q \in Agents!findKnown(b, p) : Agents!AfterSave(w, q, b.trade[q].status)
           /\ UNCHANGED <<db, inbox, nonces, automatic, started, menu, ended, lost>>
  <2>1. PICK q \in Agents!findKnown(b, p) : Agents!AfterSave(w, q, b.trade[q].status)
    BY <1>2
  <2>2. q \in Proposals
    BY <1>0 DEF Agents!findKnown, Agents!duplicateOf
  <2>3. WorkersOK' /\ \A v \in Workers \ {w} : worker'[v] = worker[v]
    BY <1>0, <2>1, <2>2, SaveFollowed
  <2>4. StoreOK' /\ Written
    BY <1>2, NothingSaved DEF AgentInv
  <2> QED
    BY <2>3, <2>4
<1> QED
  BY <1>1, <1>2 DEF Agents!ImportStore, Agents!queue

\* A worker that goes on with another step, list or trade, its request the same.
LEMMA WorkerMoved ==
    ASSUME WorkersOK, NEW w \in Workers, NEW x, worker' = [worker EXCEPT ![w] = x],
           x \in WorkerRecords, x.request = worker[w].request, worker[w].pc # "idle",
           x.pc \notin {"load", "store", "importStore", "placeStore", "register", "scan"},
           x.pc \in {"signal", "claim", "enqueue", "import", "removeRead", "removeWrite"}
             => worker[w].request.kind \in SignalKinds,
           x.pc \in {"judge", "importLoad", "placeRead", "placeJudge", "placeLoad"}
             => x.trade \in Proposals /\ worker[w].request.kind \in SignalKinds \cup {"tick"},
           x.pc \in {"removeRead", "removeWrite"} /\ worker[w].request.kind = "signal"
             => x.trade \in Proposals,
           x.pc \in {"claim", "enqueue", "removeWrite"} => x.list \in SUBSET Signals
    PROVE  WorkersOK'
<1>1. worker[w].request \in Agents!Requests
  BY DEF WorkersOK, WorkerOK
<1>2. WorkerOK(x)
  BY <1>1 DEF WorkerOK
<1> QED
  BY <1>2, WorkerGoesOn

\* What a worker is, as far as its next step needs.
LEMMA WorkerParts ==
    ASSUME WorkersOK, NEW w \in Workers
    PROVE  /\ worker[w] \in WorkerRecords
           /\ DOMAIN worker = Workers
           /\ worker[w].pc # "idle" => worker[w].request \in Agents!Requests
           /\ worker[w].pc = "register" => worker[w].request.kind = "register"
           /\ worker[w].pc \in {"signal", "claim", "enqueue", "import", "removeRead", "removeWrite"}
                => worker[w].request.kind \in SignalKinds /\ worker[w].request.of \in Signals
           /\ worker[w].pc \in {"judge", "placeRead", "placeJudge"}
                => /\ worker[w].trade \in Proposals
                   /\ worker[w].request.kind \in SignalKinds \cup {"tick"}
           /\ worker[w].pc \in {"removeRead", "removeWrite"} /\ worker[w].request.kind = "signal"
                => worker[w].trade \in Proposals
           /\ worker[w].pc = "scan" => worker[w].request.kind = "tick"
           /\ worker[w].pc \in {"claim", "enqueue", "removeWrite"}
                => worker[w].list \in SUBSET Signals
<1>1. WorkerOK(worker[w]) /\ DOMAIN worker = Workers
  BY DEF WorkersOK
<1>2. worker[w].request \in Agents!Requests /\ worker[w].request.kind \in SignalKinds
        => worker[w].request.of \in Signals
  BY RequestParts
<1> QED
  BY <1>1, <1>2 DEF WorkerOK

\* The steps of the inbox leave the saved state alone.
LEMMA InboxSteps ==
    ASSUME AgentInv, NEW w \in Workers,
           \/ Agents!Register(w) \/ Agents!SignalRead(w) \/ Agents!SignalClaim(w)
           \/ Agents!SignalEnqueue(w) \/ Agents!ImportRead(w) \/ Agents!ImportJudge(w)
           \/ Agents!RemoveRead(w) \/ Agents!RemoveWrite(w)
    PROVE  WorkersOK' /\ StoreOK' /\ Written /\ db' = db
<1>0. WorkersOK /\ inbox \subseteq Signals /\ nonces \subseteq Signals /\ automatic \in BOOLEAN
      /\ menu \in Menus /\ started \in 0 .. MaxRequests
      /\ ended \subseteq Sessions \cup Proposals /\ lost \in BOOLEAN
  BY DEF AgentInv
<1> DEFINE x == worker[w]
<1>1. CASE Agents!Register(w)
  <2>1. WorkersOK'
    BY <1>0, <1>1, Finishes DEF Agents!Register
  <2>2. x.request \in Agents!Requests /\ x.request.kind = "register"
    BY <1>0, <1>1, WorkerParts DEF Agents!Register
  <2>3. automatic' \in BOOLEAN
    BY <1>1, <2>2, RequestParts DEF Agents!Register
  <2> QED
    BY <1>0, <1>1, <2>1, <2>3, NothingSaved DEF Agents!Register
<1>2. CASE Agents!SignalRead(w)
  <2>1. CASE Agents!Finish(w)
    BY <1>0, <1>2, <2>1, Finishes, NothingSaved DEF Agents!SignalRead, Agents!queue
  <2>2. CASE worker' = [worker EXCEPT ![w].pc = "claim", ![w].list = inbox]
    <3> DEFINE y == [x EXCEPT !.pc = "claim", !.list = inbox]
    <3>1. worker' = [worker EXCEPT ![w] = y]
      BY <2>2
    <3>2. y \in WorkerRecords /\ y.pc = "claim" /\ y.list = inbox /\ y.request = x.request
      BY <1>0, WorkerParts DEF WorkerRecords, Steps
    <3>3. x.pc = "signal" /\ x.request.kind \in SignalKinds
      BY <1>0, <1>2, WorkerParts DEF Agents!SignalRead
    <3> HIDE DEF y
    <3>4. WorkersOK'
      BY <1>0, <3>1, <3>2, <3>3, WorkerMoved
    <3> QED
      BY <1>0, <1>2, <3>4, NothingSaved DEF Agents!SignalRead, Agents!queue
  <2> QED
    BY <1>2, <2>1, <2>2 DEF Agents!SignalRead
<1>3. CASE Agents!SignalClaim(w)
  <2>0. x.pc = "claim" /\ x.request.kind \in SignalKinds /\ x.request.of \in Signals
        /\ x.list \in SUBSET Signals
    BY <1>0, <1>3, WorkerParts DEF Agents!SignalClaim
  <2>1. WorkersOK'
    <3>1. CASE Agents!Finish(w)
      BY <1>0, <3>1, Finishes
    <3>2. CASE Agents!Goto(w, "enqueue")
      <4> DEFINE y == [x EXCEPT !.pc = "enqueue"]
      <4>1. worker' = [worker EXCEPT ![w] = y]
        BY <3>2 DEF Agents!Goto
      <4>2. y \in WorkerRecords /\ y.pc = "enqueue" /\ y.list = x.list /\ y.request = x.request
        BY <1>0, WorkerParts DEF WorkerRecords, Steps
      <4> HIDE DEF y
      <4> QED
        BY <1>0, <2>0, <4>1, <4>2, WorkerMoved
    <3> QED
      BY <1>3, <3>1, <3>2 DEF Agents!SignalClaim
  <2>2. nonces' \subseteq Signals
    BY <1>0, <1>3, <2>0 DEF Agents!SignalClaim
  <2> QED
    BY <1>0, <1>3, <2>1, <2>2, NothingSaved DEF Agents!SignalClaim
<1>4. CASE Agents!SignalEnqueue(w)
  <2>0. x.pc = "enqueue" /\ x.request.kind \in SignalKinds /\ x.request.of \in Signals
        /\ x.list \in SUBSET Signals
    BY <1>0, <1>4, WorkerParts DEF Agents!SignalEnqueue
  <2>1. WorkersOK'
    <3>1. CASE Agents!Finish(w)
      BY <1>0, <3>1, Finishes
    <3>2. CASE worker' = [worker EXCEPT ![w].pc = "import", ![w].list = None]
      <4> DEFINE y == [x EXCEPT !.pc = "import", !.list = None]
      <4>1. worker' = [worker EXCEPT ![w] = y]
        BY <3>2
      <4>2. y \in WorkerRecords /\ y.pc = "import" /\ y.request = x.request
        BY <1>0, WorkerParts DEF WorkerRecords, Steps
      <4> HIDE DEF y
      <4> QED
        BY <1>0, <2>0, <4>1, <4>2, WorkerMoved
    <3> QED
      BY <1>4, <3>1, <3>2 DEF Agents!SignalEnqueue
  <2>2. inbox' \subseteq Signals
    BY <1>4, <2>0 DEF Agents!SignalEnqueue
  <2> QED
    BY <1>0, <1>4, <2>1, <2>2, NothingSaved DEF Agents!SignalEnqueue
<1>5. CASE Agents!ImportRead(w)
  <2>0. x.pc = "import" /\ x.request.kind \in SignalKinds
    BY <1>0, <1>5, WorkerParts DEF Agents!ImportRead
  <2>1. WorkersOK'
    <3>1. CASE Agents!Finish(w)
      BY <1>0, <3>1, Finishes
    <3>2. ASSUME NEW p \in Proposals,
                 worker' = [worker EXCEPT ![w].pc = "judge", ![w].trade = p]
          PROVE  WorkersOK'
      <4> DEFINE y == [x EXCEPT !.pc = "judge", !.trade = p]
      <4>1. worker' = [worker EXCEPT ![w] = y]
        BY <3>2
      <4>2. y \in WorkerRecords /\ y.pc = "judge" /\ y.trade = p /\ y.request = x.request
        BY <1>0, WorkerParts DEF WorkerRecords, Steps
      <4> HIDE DEF y
      <4> QED
        BY <1>0, <2>0, <4>1, <4>2, WorkerMoved
    <3> QED
      BY <1>5, <3>1, <3>2 DEF Agents!ImportRead, Agents!Fresh
  <2> QED
    BY <1>0, <1>5, <2>1, NothingSaved DEF Agents!ImportRead, Agents!queue
<1>6. CASE Agents!ImportJudge(w)
  <2>0. x.pc = "judge" /\ x.trade \in Proposals /\ x.request.kind \in SignalKinds \cup {"tick"}
    BY <1>0, <1>6, WorkerParts DEF Agents!ImportJudge
  <2>1. WorkersOK'
    <3>1. CASE Agents!Finish(w)
      BY <1>0, <3>1, Finishes
    <3>2. CASE Agents!Goto(w, "importLoad")
      <4> DEFINE y == [x EXCEPT !.pc = "importLoad"]
      <4>1. worker' = [worker EXCEPT ![w] = y]
        BY <3>2 DEF Agents!Goto
      <4>2. y \in WorkerRecords /\ y.pc = "importLoad" /\ y.trade = x.trade
            /\ y.request = x.request
        BY <1>0, WorkerParts DEF WorkerRecords, Steps
      <4> HIDE DEF y
      <4> QED
        BY <1>0, <2>0, <4>1, <4>2, WorkerMoved
    <3> QED
      BY <1>6, <3>1, <3>2 DEF Agents!ImportJudge
  <2> QED
    BY <1>0, <1>6, <2>1, NothingSaved DEF Agents!ImportJudge, Agents!queue
<1>7. CASE Agents!RemoveRead(w)
  <2>0. /\ x.pc = "removeRead" /\ x.request.kind \in SignalKinds
        /\ x.request.kind = "signal" => x.trade \in Proposals
    BY <1>0, <1>7, WorkerParts DEF Agents!RemoveRead
  <2> DEFINE y == [x EXCEPT !.pc = "removeWrite", !.list = inbox]
  <2>1. worker' = [worker EXCEPT ![w] = y]
    BY <1>7 DEF Agents!RemoveRead
  <2>2. y \in WorkerRecords /\ y.pc = "removeWrite" /\ y.list = inbox /\ y.trade = x.trade
        /\ y.request = x.request
    BY <1>0, WorkerParts DEF WorkerRecords, Steps
  <2> HIDE DEF y
  <2>3. WorkersOK'
    BY <1>0, <2>0, <2>1, <2>2, WorkerMoved
  <2> QED
    BY <1>0, <1>7, <2>3, NothingSaved DEF Agents!RemoveRead, Agents!queue
<1>8. CASE Agents!RemoveWrite(w)
  <2>0. /\ x.pc = "removeWrite" /\ x.request.kind \in SignalKinds
        /\ x.request.kind = "signal" => x.trade \in Proposals
        /\ x.list \in SUBSET Signals
    BY <1>0, <1>8, WorkerParts DEF Agents!RemoveWrite
  <2>1. WorkersOK'
    <3>1. CASE Agents!Finish(w)
      BY <1>0, <3>1, Finishes
    <3>2. CASE x.request.kind = "signal"
               /\ worker' = [worker EXCEPT ![w].pc = "placeRead", ![w].list = None]
      <4> DEFINE y == [x EXCEPT !.pc = "placeRead", !.list = None]
      <4>1. worker' = [worker EXCEPT ![w] = y]
        BY <3>2
      <4>2. y \in WorkerRecords /\ y.pc = "placeRead" /\ y.trade = x.trade
            /\ y.request = x.request
        BY <1>0, WorkerParts DEF WorkerRecords, Steps
      <4> HIDE DEF y
      <4> QED
        BY <1>0, <2>0, <3>2, <4>1, <4>2, WorkerMoved
    <3> QED
      BY <1>8, <3>1, <3>2 DEF Agents!RemoveWrite
  <2>2. inbox' \subseteq Signals
    BY <1>8, <2>0 DEF Agents!RemoveWrite
  <2> QED
    BY <1>0, <1>8, <2>1, <2>2, NothingSaved DEF Agents!RemoveWrite
<1> QED
  BY <1>1, <1>2, <1>3, <1>4, <1>5, <1>6, <1>7, <1>8

\* The reads of the tick and of the placing leave the saved state alone, and
\* so does a request that stops.
LEMMA TradingReads ==
    ASSUME AgentInv, NEW w \in Workers,
           Agents!Crash(w) \/ Agents!TickScan(w) \/ Agents!PlaceRead(w) \/ Agents!PlaceJudge(w)
    PROVE  WorkersOK' /\ StoreOK' /\ Written /\ db' = db
<1>0. WorkersOK /\ inbox \subseteq Signals /\ nonces \subseteq Signals /\ automatic \in BOOLEAN
      /\ menu \in Menus /\ started \in 0 .. MaxRequests
      /\ ended \subseteq Sessions \cup Proposals /\ lost \in BOOLEAN
  BY DEF AgentInv
<1> DEFINE x == worker[w]
<1>1. UNCHANGED <<db, inbox, nonces, automatic, started, menu, ended, lost>>
  BY DEF Agents!Crash, Agents!TickScan, Agents!PlaceRead, Agents!PlaceJudge, Agents!queue
<1>2. StoreOK' /\ Written
  BY <1>0, <1>1, NothingSaved
<1>3. CASE Agents!Finish(w)
  BY <1>0, <1>1, <1>2, <1>3, Finishes
<1>4. ASSUME NEW pc \in {"importLoad", "placeJudge", "placeLoad"}, NEW p \in Proposals,
             x.pc # "idle", x.request.kind \in SignalKinds \cup {"tick"},
             \/ worker' = [worker EXCEPT ![w].pc = pc] /\ x.trade = p
             \/ worker' = [worker EXCEPT ![w].pc = pc, ![w].trade = p]
      PROVE  WorkersOK'
  <2>1. CASE worker' = [worker EXCEPT ![w].pc = pc] /\ x.trade = p
    <3> DEFINE y == [x EXCEPT !.pc = pc]
    <3>1. worker' = [worker EXCEPT ![w] = y]
      BY <2>1
    <3>2. y \in WorkerRecords /\ y.pc = pc /\ y.trade = p /\ y.request = x.request
      BY <1>0, <2>1, WorkerParts DEF WorkerRecords, Steps
    <3> HIDE DEF y
    <3> QED
      BY <1>0, <1>4, <3>1, <3>2, WorkerMoved
  <2>2. CASE worker' = [worker EXCEPT ![w].pc = pc, ![w].trade = p]
    <3> DEFINE y == [x EXCEPT !.pc = pc, !.trade = p]
    <3>1. worker' = [worker EXCEPT ![w] = y]
      BY <2>2
    <3>2. y \in WorkerRecords /\ y.pc = pc /\ y.trade = p /\ y.request = x.request
      BY <1>0, <2>2, WorkerParts DEF WorkerRecords, Steps
    <3> HIDE DEF y
    <3> QED
      BY <1>0, <1>4, <3>1, <3>2, WorkerMoved
  <2> QED
    BY <1>4, <2>1, <2>2
<1>5. CASE Agents!Crash(w)
  BY <1>3, <1>5 DEF Agents!Crash
<1>6. CASE Agents!TickScan(w)
  <2>1. x.pc = "scan" /\ x.request.kind = "tick"
    BY <1>0, <1>6, WorkerParts DEF Agents!TickScan
  <2>2. CASE \E p \in Proposals :
               worker' = [worker EXCEPT ![w].pc = "importLoad", ![w].trade = p]
    BY <1>1, <1>2, <1>4, <2>1, <2>2
  <2> QED
    BY <1>3, <1>6, <2>2 DEF Agents!TickScan, Agents!Fresh
<1>7. CASE Agents!PlaceRead(w)
  <2>1. /\ x.pc = "placeRead" /\ x.trade \in Proposals
        /\ x.request.kind \in SignalKinds \cup {"tick"}
    BY <1>0, <1>7, WorkerParts DEF Agents!PlaceRead
  <2>2. CASE worker' = [worker EXCEPT ![w].pc = "placeJudge"]
    BY <1>1, <1>2, <1>4, <2>1, <2>2
  <2> QED
    BY <1>3, <1>7, <2>2 DEF Agents!PlaceRead, Agents!Goto
<1>8. CASE Agents!PlaceJudge(w)
  <2>1. /\ x.pc = "placeJudge" /\ x.trade \in Proposals
        /\ x.request.kind \in SignalKinds \cup {"tick"}
    BY <1>0, <1>8, WorkerParts DEF Agents!PlaceJudge
  <2>2. CASE worker' = [worker EXCEPT ![w].pc = "placeLoad"]
    BY <1>1, <1>2, <1>4, <2>1, <2>2
  <2> QED
    BY <1>3, <1>8, <2>2 DEF Agents!PlaceJudge, Agents!Goto
<1> QED
  BY <1>5, <1>6, <1>7, <1>8

-------------------------------------------------------------------------------
(* The agents' invariant, and what follows from it *)

\* Whichever worker takes a step, only a last write of a request and the save
\* of an import or a tick change the saved state.
LEMMA WorkDone ==
    ASSUME AgentInv, NEW w \in Workers, Agents!Work(w)
    PROVE  /\ WorkersOK' /\ StoreOK' /\ Written
           /\ db' = db \/ Agents!Store(w) \/ Agents!ImportStore(w)
<1>1. CASE \E k \in Agents!Requests : Agents!Serve(w, k)
  BY <1>1, RequestServed
<1>2. CASE Agents!Load(w)
  BY <1>2, StateLoaded
<1>3. CASE Agents!Store(w)
  BY <1>3, SaveState
<1>4. CASE Agents!ImportStore(w)
  BY <1>4, ImportStored
<1>5. CASE \/ Agents!Register(w) \/ Agents!SignalRead(w) \/ Agents!SignalClaim(w)
           \/ Agents!SignalEnqueue(w) \/ Agents!ImportRead(w) \/ Agents!ImportJudge(w)
           \/ Agents!RemoveRead(w) \/ Agents!RemoveWrite(w)
  BY <1>5, InboxSteps
<1>6. CASE Agents!Crash(w) \/ Agents!TickScan(w) \/ Agents!PlaceRead(w) \/ Agents!PlaceJudge(w)
  BY <1>6, TradingReads
<1> QED
  BY <1>1, <1>2, <1>3, <1>4, <1>5, <1>6 DEF Agents!Work, Agents!Proceed

\* An idempotency key, an allowance or a proposal expires.
LEMMA Expired ==
    ASSUME AgentInv,
           \/ \E g \in Signals : Agents!NonceExpires(g)
           \/ \E x \in Sessions \cup Proposals : Agents!TimePasses(x)
    PROVE  WorkersOK' /\ StoreOK' /\ Written /\ db' = db
<1>0. /\ worker' = worker /\ db' = db /\ lost' = lost /\ menu' = menu /\ inbox' = inbox
      /\ nonces' \subseteq nonces /\ automatic' = automatic /\ started' = started
      /\ ended' \subseteq Sessions \cup Proposals
  BY DEF AgentInv, Agents!NonceExpires, Agents!TimePasses, Agents!queue
<1>1. WorkersOK'
  BY <1>0 DEF AgentInv, WorkersOK, WorkerOK, Sound, Books, OneActive, OnePerSignal
<1>2. StoreOK' /\ Written
  BY <1>0, NothingSaved DEF AgentInv
<1> QED
  BY <1>0, <1>1, <1>2

\* Every step of the agents keeps the invariant.
LEMMA AgentStep ==
    ASSUME AgentInv, Agents!Next
    PROVE  AgentInv' /\ Written
<1>1. WorkersOK' /\ StoreOK' /\ Written
  BY WorkDone, Expired DEF Agents!Next
<1> QED
  BY <1>1 DEF AgentInv, StoreOK

\* A wallet whose agent was given its first allowance.
LEMMA AgentStart ==
    ASSUME Agents!Init
    PROVE  AgentInv
<1> DEFINE session == [s \in Sessions |->
                         IF s = FirstSession THEN [status |-> "active", policy |-> FirstPolicy]
                                             ELSE [status |-> "none", policy |-> None]]
           trade == [p \in Proposals |-> [status |-> "none", policy |-> None]]
           exec == [p \in Proposals |-> "none"]
           score == [proposals |-> 0, executed |-> 0, rejected |-> 0]
<1>1. /\ db.agent = "active" /\ db.policy = FirstPolicy /\ db.paused = FALSE
      /\ db.approvals = {FirstSession} /\ db.session = session /\ db.trade = trade
      /\ db.exec = exec /\ db.score = score
      /\ db = [agent |-> "active", policy |-> FirstPolicy, paused |-> FALSE,
               approvals |-> {FirstSession}, session |-> session, trade |-> trade,
               exec |-> exec, score |-> score]
  BY DEF Agents!Init
<1>2. session \in [Sessions -> SessionRecords]
  BY OperationsAssumption DEF SessionRecords, Agents!SessionStatus
<1>3. trade \in [Proposals -> TradeRecords]
  BY DEF TradeRecords, Agents!TradeStatus
<1>4. exec \in [Proposals -> {"none", "open", "closed"}] /\ score \in Scores
  BY DEF Scores
<1>5. /\ \A r, s \in Sessions :
            session[r].status = "active" /\ session[s].status = "active" => r = s
      /\ \A p \in Proposals : trade[p].status = "none" /\ exec[p] = "none"
      /\ score.proposals = 0 /\ score.executed = 0 /\ score.rejected = 0
  OBVIOUS
<1> HIDE DEF session, trade, exec, score
<1>6. db \in Agents!States
  BY <1>1, <1>2, <1>3, <1>4, OperationsAssumption
     DEF Agents!States, SessionRecords, TradeRecords, Scores
<1>7. /\ Recorded(db) = {} /\ Placed(db) = {} /\ Rejected(db) = {}
      /\ Agents!OpenPositions(db) = {}
  BY <1>1, <1>5 DEF Recorded, Placed, Rejected, Agents!OpenPositions
<1>8. Books(db) /\ Cardinality(Agents!OpenPositions(db)) <= MaxOpen
  <2>1. IsFiniteSet(Recorded(db)) /\ Cardinality({}) = 0
    BY <1>7, FS_EmptySet
  <2>2. /\ Cardinality(Recorded(db)) = 0 /\ Cardinality(Placed(db)) = 0
        /\ Cardinality(Rejected(db)) = 0 /\ Cardinality(Agents!OpenPositions(db)) = 0
    BY <1>7, <2>1
  <2>3. Books(db)
    BY <1>1, <1>5, <2>1, <2>2 DEF Books
  <2> QED
    BY <2>2, <2>3, OperationsAssumption
<1>9. OneActive(db) /\ OnePerSignal(db)
  BY <1>1, <1>5 DEF OneActive, OnePerSignal
<1>10. Sound(db)
  BY <1>6, <1>8, <1>9 DEF Sound
<1>11. WorkersOK
  BY IdleOK DEF Agents!Init, WorkersOK
<1>12. started \in 0 .. MaxRequests
  BY OperationsAssumption DEF Agents!Init
<1> QED
  BY <1>10, <1>11, <1>12 DEF Agents!Init, AgentInv

\* The invariant of a behaviour that is about the agents.
AgentsInv == focus = "agents" => AgentInv

\* In every state of the server's agents, whatever the requests that overlap,
\* each of them that is about to write has a sound copy, and so is what is saved.
THEOREM AgentsSound == Spec => []AgentsInv
<1>1. Init => AgentsInv
  BY AgentStart DEF Init, AgentsInv
<1>2. AgentsInv /\ [Next]_vars => AgentsInv'
  <2> SUFFICES ASSUME AgentsInv, [Next]_vars, focus' = "agents"
               PROVE  AgentInv'
    BY DEF AgentsInv
  <2>1. CASE focus = "agents" /\ Agents!Next
    BY <2>1, AgentStep DEF AgentsInv
  <2>2. CASE UNCHANGED vars
    BY <2>2 DEF AgentsInv, AgentInv, WorkersOK, WorkerOK, Sound, Books, OneActive,
                OnePerSignal, vars, agents
  <2> QED
    BY <2>1, <2>2 DEF Next
<1> QED
  BY <1>1, <1>2, PTL DEF Spec

\* What the composition asks of the agents.
AgentsAgree ==
    focus = "agents" => /\ Agents!TypeOK /\ Agents!BooksMatch
                        /\ Agents!OneAllowance /\ Agents!OneProposalPerSignal
                        /\ Agents!WithinPositions

\* The books of the server's agents agree and one allowance is active at a time,
\* whatever the requests that overlap: the agents' part of PaidOnce and BooksTrue.
THEOREM AgentsAccountable == Spec => []AgentsAgree
<1>1. AgentInv => Agents!TypeOK /\ Agents!BooksMatch
  <2> SUFFICES ASSUME AgentInv PROVE Agents!TypeOK /\ Agents!BooksMatch
    OBVIOUS
  <2>1. \A w \in Workers : worker[w].copy \in Agents!States \cup {None}
    BY DEF AgentInv, WorkersOK, WorkerOK, WorkerRecords
  <2>2. Agents!TypeOK
    BY <2>1 DEF AgentInv, Sound, Agents!TypeOK
  <2>3. Agents!BooksMatch
    BY SameCardinality
       DEF AgentInv, Sound, Books, Recorded, Placed, Rejected, Agents!BooksMatch
  <2> QED
    BY <2>2, <2>3
<1>2. AgentInv => Agents!OneAllowance /\ Agents!OneProposalPerSignal
  BY DEF AgentInv, Sound, OneActive, OnePerSignal, Agents!OneAllowance,
         Agents!OneProposalPerSignal
<1>3. AgentInv => Agents!WithinPositions
  BY SameCardinality DEF AgentInv, Sound, Agents!WithinPositions
<1> QED
  BY <1>1, <1>2, <1>3, AgentsSound, PTL DEF AgentsInv, AgentsAgree

\* A position is opened without a member only by the last write of an
\* automatic placing; its copy was judged under an allowance, and is the saved
\* state unless the write loses another.
LEMMA PlacedUnderAllowance ==
    ASSUME AgentInv, Agents!Next
    PROVE  Agents!AutomaticUnderAllowance
<1> SUFFICES ASSUME NEW v \in Workers, NEW p \in Proposals,
                    worker[v].pc = "placeStore", worker'[v].pc = "idle",
                    db.exec[p] = "none", db'.exec[p] = "open", ~lost'
             PROVE  \E s \in Agents!activeSessionFor(db) : db.session[s].policy = db.policy
  BY DEF Agents!AutomaticUnderAllowance
<1>1. db' # db
  OBVIOUS
<1>2. PICK w \in Workers : Agents!Store(w) \/ Agents!ImportStore(w)
  BY <1>1, WorkDone, Expired DEF Agents!Next
<1>3. \A u \in Workers \ {w} : worker'[u] = worker[u]
  BY <1>2, SaveState, ImportStored
<1>4. w = v /\ Agents!Store(v)
  BY <1>2, <1>3 DEF Agents!ImportStore
<1> DEFINE b == worker[v].copy
<1>5. PICK n \in Agents!Writes(v, b) : Agents!Write(v, n)
  BY <1>1, <1>4 DEF Agents!Store
<1>6. lost' = (lost \/ db # b)
  BY <1>5 DEF Agents!Write
<1>7. b = db
  BY <1>6
<1>8. WorkerOK(worker[v]) /\ worker[v].trade \in Proposals
  BY DEF AgentInv, WorkersOK, WorkerOK
<1>9. n \in Agents!saveExecution(db, worker[v].trade, TRUE)
  BY <1>5, <1>7, <1>8 DEF Agents!Writes, WorkerOK, SignalKinds
<1>10. \E d \in Agents!evaluateProposalFromState(db, worker[v].trade) :
            d # "blocked" /\ d = "allowed"
  BY <1>9 DEF Agents!saveExecution, Agents!validateNewExecution
<1> QED
  BY <1>10, NotBlocked

\* A rejected or executed proposal and a revoked or expired allowance stay what
\* they are, and an automatic trade has its allowance, unless a request of the
\* server overwrites a state it has not read.
THEOREM EndedStay == Spec => EndedStays
<1>1. ASSUME AgentsInv, [Next]_vars
      PROVE  [focus = "agents" => Agents!Terminal /\ Agents!AutomaticUnderAllowance]_vars
  <2> SUFFICES ASSUME focus = "agents", ~UNCHANGED vars
               PROVE  Agents!Terminal /\ Agents!AutomaticUnderAllowance
    OBVIOUS
  <2>1. AgentInv /\ Agents!Next
    BY <1>1 DEF AgentsInv, Next
  <2>2. Written
    BY <2>1, AgentStep
  <2>3. Agents!Terminal
    BY <2>2 DEF Written, KeepsFinal, Agents!Terminal
  <2> QED
    BY <2>1, <2>3, PlacedUnderAllowance
<1> QED
  BY <1>1, AgentsSound, PTL DEF Spec, EndedStays

-------------------------------------------------------------------------------
(* The composition *)

\* A behaviour about the escrow card alone has the invariant of its proofs.
LEMMA CardAlone ==
    /\ Card!Init => CardP!CardInv
    /\ CardP!CardInv /\ [Card!Next]_Card!vars => CardP!CardInv'
    /\ CardP!CardInv => /\ Card!TypeOK
                        /\ Card!OneExecution
                        /\ Card!OneOpenRequest
                        /\ Card!MarkedTrue
<1>1. CardP!EscrowAssumption
  BY OperationsAssumption DEF CardP!EscrowAssumption
<1>2. Card!Init => CardP!Card!Init
  BY DEF Card!NoRecord, CardP!Card!NoRecord, Card!Idle, CardP!Card!Idle, Card!Init,
         CardP!Card!Init
<1>3. ASSUME Card!Next PROVE CardP!Card!Next
  BY <1>3 DEF Card!card, CardP!Card!card, Card!world, CardP!Card!world, Card!Kinds,
         CardP!Card!Kinds, Card!NoRecord, CardP!Card!NoRecord, Card!Idle, CardP!Card!Idle,
         Card!Current, CardP!Card!Current, Card!Mounted, CardP!Card!Mounted, Card!InFlight,
         CardP!Card!InFlight, Card!alreadyRecorded, CardP!Card!alreadyRecorded,
         Card!blocked, CardP!Card!blocked, Card!Offered, CardP!Card!Offered,
         Card!saveOperation, CardP!Card!saveOperation, Card!Goto, CardP!Card!Goto,
         Card!End, CardP!Card!End, Card!Seen, CardP!Card!Seen, Card!With, CardP!Card!With,
         Card!applyConfirmed, CardP!Card!applyConfirmed, Card!Start, CardP!Card!Start,
         Card!Prepare, CardP!Card!Prepare, Card!Prepared, CardP!Card!Prepared,
         Card!Dismiss, CardP!Card!Dismiss, Card!Approve, CardP!Card!Approve,
         Card!PostCreate, CardP!Card!PostCreate, Card!CreateReply, CardP!Card!CreateReply,
         Card!Resume, CardP!Card!Resume, Card!ReadBefore, CardP!Card!ReadBefore,
         Card!SubmitReply, CardP!Card!SubmitReply, Card!ReadAfter, CardP!Card!ReadAfter,
         Card!rephased, CardP!Card!rephased, Card!Recheck, CardP!Card!Recheck, Card!Fail,
         CardP!Card!Fail, Card!AddFunder, CardP!Card!AddFunder, Card!StorageEvent,
         CardP!Card!StorageEvent, Card!Moved, CardP!Card!Moved, Card!SwitchAccount,
         CardP!Card!SwitchAccount, Card!Opened, CardP!Card!Opened, Card!Remount,
         CardP!Card!Remount, Card!Reload, CardP!Card!Reload, Card!Land, CardP!Card!Land,
         Card!Vote, CardP!Card!Vote, Card!Next, CardP!Card!Next, Card!Cardinality,
         CardP!Card!Cardinality
<1>4. UNCHANGED Card!vars => UNCHANGED CardP!Card!vars
  BY DEF Card!vars, CardP!Card!vars
<1>5. ASSUME CardP!Card!TypeOK /\ CardP!Card!OneExecution /\ CardP!Card!OneOpenRequest /\ CardP!Card!MarkedTrue
      PROVE  Card!TypeOK /\ Card!OneExecution /\ Card!OneOpenRequest /\ Card!MarkedTrue
  BY <1>5 DEF Card!Kinds, CardP!Card!Kinds, Card!Phases, CardP!Card!Phases, Card!NoRecord,
         CardP!Card!NoRecord, Card!Records, CardP!Card!Records, Card!Pcs, CardP!Card!Pcs,
         Card!TypeOK, CardP!Card!TypeOK, Card!FirstExecutionOnly,
         CardP!Card!FirstExecutionOnly, Card!OneExecution, CardP!Card!OneExecution,
         Card!Unresolved, CardP!Card!Unresolved, Card!OneOpenRequest,
         CardP!Card!OneOpenRequest, Card!MarkedTrue, CardP!Card!MarkedTrue
<1>6. Card!Init => CardP!CardInv
  BY <1>1, <1>2, CardP!CardStart
<1>7. ASSUME CardP!CardInv, [Card!Next]_Card!vars PROVE CardP!CardInv'
  BY <1>1, <1>3, <1>4, <1>7, CardP!CardStays
<1>8. ASSUME CardP!CardInv
      PROVE  Card!TypeOK /\ Card!OneExecution /\ Card!OneOpenRequest /\ Card!MarkedTrue
  BY <1>1, <1>5, <1>8, CardP!CardHolds
<1> QED
  BY <1>6, <1>7, <1>8

\* A behaviour about two escrow cards has the invariant of its proofs.
LEMMA CardsSideBySide ==
    /\ Cards!Init => CardsP!CardInv
    /\ CardsP!CardInv /\ [Cards!Next]_Cards!vars => CardsP!CardInv'
    /\ CardsP!CardInv => /\ Cards!TypeOK
                         /\ Cards!OneExecution
                         /\ Cards!OneOpenRequest
                         /\ Cards!MarkedTrue
<1>1. CardsP!EscrowAssumption
  BY OperationsAssumption DEF CardsP!EscrowAssumption
<1>2. Cards!Init => CardsP!Card!Init
  BY DEF Cards!NoRecord, CardsP!Card!NoRecord, Cards!Idle, CardsP!Card!Idle, Cards!Init,
         CardsP!Card!Init
<1>3. ASSUME Cards!Next PROVE CardsP!Card!Next
  BY <1>3 DEF Cards!card, CardsP!Card!card, Cards!world, CardsP!Card!world, Cards!Kinds,
         CardsP!Card!Kinds, Cards!NoRecord, CardsP!Card!NoRecord, Cards!Idle,
         CardsP!Card!Idle, Cards!Current, CardsP!Card!Current, Cards!Mounted,
         CardsP!Card!Mounted, Cards!InFlight, CardsP!Card!InFlight, Cards!alreadyRecorded,
         CardsP!Card!alreadyRecorded, Cards!blocked, CardsP!Card!blocked, Cards!Offered,
         CardsP!Card!Offered, Cards!saveOperation, CardsP!Card!saveOperation, Cards!Goto,
         CardsP!Card!Goto, Cards!End, CardsP!Card!End, Cards!Seen, CardsP!Card!Seen,
         Cards!With, CardsP!Card!With, Cards!applyConfirmed, CardsP!Card!applyConfirmed,
         Cards!Start, CardsP!Card!Start, Cards!Prepare, CardsP!Card!Prepare,
         Cards!Prepared, CardsP!Card!Prepared, Cards!Dismiss, CardsP!Card!Dismiss,
         Cards!Approve, CardsP!Card!Approve, Cards!PostCreate, CardsP!Card!PostCreate,
         Cards!CreateReply, CardsP!Card!CreateReply, Cards!Resume, CardsP!Card!Resume,
         Cards!ReadBefore, CardsP!Card!ReadBefore, Cards!SubmitReply,
         CardsP!Card!SubmitReply, Cards!ReadAfter, CardsP!Card!ReadAfter, Cards!rephased,
         CardsP!Card!rephased, Cards!Recheck, CardsP!Card!Recheck, Cards!Fail,
         CardsP!Card!Fail, Cards!AddFunder, CardsP!Card!AddFunder, Cards!StorageEvent,
         CardsP!Card!StorageEvent, Cards!Moved, CardsP!Card!Moved, Cards!SwitchAccount,
         CardsP!Card!SwitchAccount, Cards!Opened, CardsP!Card!Opened, Cards!Remount,
         CardsP!Card!Remount, Cards!Reload, CardsP!Card!Reload, Cards!Land,
         CardsP!Card!Land, Cards!Vote, CardsP!Card!Vote, Cards!Next, CardsP!Card!Next,
         Cards!Cardinality, CardsP!Card!Cardinality
<1>4. UNCHANGED Cards!vars => UNCHANGED CardsP!Card!vars
  BY DEF Cards!vars, CardsP!Card!vars
<1>5. ASSUME CardsP!Card!TypeOK /\ CardsP!Card!OneExecution /\ CardsP!Card!OneOpenRequest /\ CardsP!Card!MarkedTrue
      PROVE  Cards!TypeOK /\ Cards!OneExecution /\ Cards!OneOpenRequest /\ Cards!MarkedTrue
  BY <1>5 DEF Cards!Kinds, CardsP!Card!Kinds, Cards!Phases, CardsP!Card!Phases,
         Cards!NoRecord, CardsP!Card!NoRecord, Cards!Records, CardsP!Card!Records,
         Cards!Pcs, CardsP!Card!Pcs, Cards!TypeOK, CardsP!Card!TypeOK,
         Cards!FirstExecutionOnly, CardsP!Card!FirstExecutionOnly, Cards!OneExecution,
         CardsP!Card!OneExecution, Cards!Unresolved, CardsP!Card!Unresolved,
         Cards!OneOpenRequest, CardsP!Card!OneOpenRequest, Cards!MarkedTrue,
         CardsP!Card!MarkedTrue
<1>6. Cards!Init => CardsP!CardInv
  BY <1>1, <1>2, CardsP!CardStart
<1>7. ASSUME CardsP!CardInv, [Cards!Next]_Cards!vars PROVE CardsP!CardInv'
  BY <1>1, <1>3, <1>4, <1>7, CardsP!CardStays
<1>8. ASSUME CardsP!CardInv
      PROVE  Cards!TypeOK /\ Cards!OneExecution /\ Cards!OneOpenRequest /\ Cards!MarkedTrue
  BY <1>1, <1>5, <1>8, CardsP!CardHolds
<1> QED
  BY <1>6, <1>7, <1>8

\* A behaviour about the recurring page has the invariant of its proofs.
LEMMA RecurringPage ==
    /\ Schedule!Init => ScheduleP!PageInv
    /\ ScheduleP!PageInv /\ [Schedule!Next]_Schedule!vars => ScheduleP!PageInv'
    /\ ScheduleP!PageInv => /\ Schedule!TypeOK
                            /\ Schedule!OneExecution
                            /\ Schedule!OneOpenRequest
                            /\ Schedule!PaymentRemembered
                            /\ Schedule!VerifiedTrue
<1>1. ScheduleP!RecurringAssumption
  BY OperationsAssumption DEF ScheduleP!RecurringAssumption
<1>2. Schedule!Init => ScheduleP!Init
  BY DEF Schedule!NoExecution, ScheduleP!NoExecution, Schedule!NoRow, ScheduleP!NoRow,
         Schedule!NoSchedule, ScheduleP!NoSchedule, Schedule!Idle, ScheduleP!Idle,
         Schedule!Init, ScheduleP!Init
<1>3. ASSUME Schedule!Next PROVE ScheduleP!Next
  BY <1>3 DEF Schedule!page, ScheduleP!page, Schedule!ledger, ScheduleP!ledger,
         Schedule!history, ScheduleP!history, Schedule!NoExecution, ScheduleP!NoExecution,
         Schedule!NoRow, ScheduleP!NoRow, Schedule!NoSchedule, ScheduleP!NoSchedule,
         Schedule!Idle, ScheduleP!Idle, Schedule!Current, ScheduleP!Current,
         Schedule!Mounted, ScheduleP!Mounted, Schedule!persist, ScheduleP!persist,
         Schedule!savedRow, ScheduleP!savedRow, Schedule!Phase, ScheduleP!Phase,
         Schedule!Resolved, ScheduleP!Resolved, Schedule!Paid, ScheduleP!Paid,
         Schedule!recurringExecutionApplied, ScheduleP!recurringExecutionApplied,
         Schedule!Goto, ScheduleP!Goto, Schedule!End, ScheduleP!End, Schedule!InFlight,
         ScheduleP!InFlight, Schedule!Start, ScheduleP!Start, Schedule!NewExecution,
         ScheduleP!NewExecution, Schedule!Configure, ScheduleP!Configure, Schedule!Revoke,
         ScheduleP!Revoke, Schedule!RetryFrom, ScheduleP!RetryFrom, Schedule!Retry,
         ScheduleP!Retry, Schedule!Pay, ScheduleP!Pay, Schedule!Remove, ScheduleP!Remove,
         Schedule!PostCreate, ScheduleP!PostCreate, Schedule!CreateReply,
         ScheduleP!CreateReply, Schedule!Settled, ScheduleP!Settled, Schedule!Verified,
         ScheduleP!Verified, Schedule!Review, ScheduleP!Review, Schedule!ExecuteReply,
         ScheduleP!ExecuteReply, Schedule!PostPayment, ScheduleP!PostPayment,
         Schedule!PaymentReply, ScheduleP!PaymentReply, Schedule!paymentVerified,
         ScheduleP!paymentVerified, Schedule!VerifyPayment, ScheduleP!VerifyPayment,
         Schedule!Refetched, ScheduleP!Refetched, Schedule!EndRefetch,
         ScheduleP!EndRefetch, Schedule!Refetch, ScheduleP!Refetch, Schedule!Fail,
         ScheduleP!Fail, Schedule!Moved, ScheduleP!Moved, Schedule!SwitchAccount,
         ScheduleP!SwitchAccount, Schedule!Remount, ScheduleP!Remount, Schedule!Reload,
         ScheduleP!Reload, Schedule!AfterPayment, ScheduleP!AfterPayment,
         Schedule!AfterExecution, ScheduleP!AfterExecution, Schedule!Executable,
         ScheduleP!Executable, Schedule!Land, ScheduleP!Land, Schedule!Vote,
         ScheduleP!Vote, Schedule!BecomesDue, ScheduleP!BecomesDue, Schedule!OtherPays,
         ScheduleP!OtherPays, Schedule!Finalize, ScheduleP!Finalize, Schedule!Next,
         ScheduleP!Next
<1>4. UNCHANGED Schedule!vars => UNCHANGED ScheduleP!vars
  BY DEF Schedule!vars, ScheduleP!vars
<1>5. ASSUME /\ ScheduleP!TypeOK /\ ScheduleP!OneExecution /\ ScheduleP!OneOpenRequest
             /\ ScheduleP!PaymentRemembered /\ ScheduleP!VerifiedTrue
      PROVE  /\ Schedule!TypeOK /\ Schedule!OneExecution /\ Schedule!OneOpenRequest
             /\ Schedule!PaymentRemembered /\ Schedule!VerifiedTrue
  BY <1>5 DEF Schedule!NoExecution, ScheduleP!NoExecution, Schedule!Executions,
         ScheduleP!Executions, Schedule!Rows, ScheduleP!Rows, Schedule!Schedules,
         ScheduleP!Schedules, Schedule!Pcs, ScheduleP!Pcs, Schedule!TypeOK,
         ScheduleP!TypeOK, Schedule!Settled, ScheduleP!Settled, Schedule!OneExecution,
         ScheduleP!OneExecution, Schedule!OneOpenRequest, ScheduleP!OneOpenRequest,
         Schedule!PaymentRemembered, ScheduleP!PaymentRemembered, Schedule!VerifiedTrue,
         ScheduleP!VerifiedTrue, Schedule!Cardinality, ScheduleP!Cardinality
<1>6. Schedule!Init => ScheduleP!PageInv
  BY <1>1, <1>2, ScheduleP!PageStart
<1>7. ASSUME ScheduleP!PageInv, [Schedule!Next]_Schedule!vars PROVE ScheduleP!PageInv'
  BY <1>1, <1>3, <1>4, <1>7, ScheduleP!PageStays
<1>8. ASSUME ScheduleP!PageInv
      PROVE  /\ Schedule!TypeOK /\ Schedule!OneExecution /\ Schedule!OneOpenRequest
             /\ Schedule!PaymentRemembered /\ Schedule!VerifiedTrue
  BY <1>1, <1>5, <1>8, ScheduleP!PageHolds
<1> QED
  BY <1>6, <1>7, <1>8

\* What a behaviour is about, and the invariant of that.
Focused ==
    /\ focus \in {"escrow", "escrow tabs", "recurring", "agents"}
    /\ focus = "escrow" => CardP!CardInv
    /\ focus = "escrow tabs" => CardsP!CardInv
    /\ focus = "recurring" => ScheduleP!PageInv

\* Who works on something keeps its invariant, and leaves the rest alone.
LEMMA StaysFocused == Spec => []Focused
<1>1. Init => Focused
  BY CardAlone, CardsSideBySide, RecurringPage DEF Init, Focused
<1>2. ASSUME Focused, [Next]_vars PROVE Focused'
  <2>1. focus' = focus
    BY <1>2 DEF Next, vars
  <2>2. CASE focus = "escrow"
    <3>1. [Card!Next]_Card!vars
      BY <1>2, <2>2 DEF Next, vars, pages, cardOnly, Card!vars, Card!card, Card!world
    <3> QED
      BY <1>2, <2>1, <2>2, <3>1, CardAlone DEF Focused
  <2>3. CASE focus = "escrow tabs"
    <3>1. [Cards!Next]_Cards!vars
      BY <1>2, <2>3 DEF Next, vars, pages, cardOnly, Cards!vars, Cards!card, Cards!world
    <3> QED
      BY <1>2, <2>1, <2>3, <3>1, CardsSideBySide DEF Focused
  <2>4. CASE focus = "recurring"
    <3>1. [Schedule!Next]_Schedule!vars
      BY <1>2, <2>4 DEF Next, vars, pages, pageOnly, Schedule!vars, Schedule!page,
                        Schedule!ledger, Schedule!history
    <3> QED
      BY <1>2, <2>1, <2>4, <3>1, RecurringPage DEF Focused
  <2> QED
    BY <1>2, <2>1, <2>2, <2>3, <2>4 DEF Focused
<1> QED
  BY <1>1, <1>2, PTL DEF Spec

\* An escrow or schedule request is sent for execution once and stays the one its
\* saved record names while it is open, unless a handler overwrites a record that
\* changed since it read it; an agent has one active allowance, one proposal per
\* outside signal and no more positions than its limit.
THEOREM WorkPaidOnce == Spec => []PaidOnce
<1>1. Focused /\ AgentsAgree => PaidOnce
  BY CardAlone, CardsSideBySide, RecurringPage DEF Focused, AgentsAgree, PaidOnce
<1> QED
  BY <1>1, StaysFocused, AgentsAccountable, PTL

\* Milestones are marked released and projects returned only of a request executed
\* on Solana, a payment that may still land is saved and the only one, and an
\* agent's score counts what its trades say.
THEOREM BooksKeptTrue == Spec => []BooksTrue
<1>1. Focused /\ AgentsAgree => BooksTrue
  BY CardAlone, CardsSideBySide, RecurringPage DEF Focused, AgentsAgree, BooksTrue
<1> QED
  BY <1>1, StaysFocused, AgentsAccountable, PTL
===============================================================================
