---------------------------- MODULE AccountPages ----------------------------
(***************************************************************************)
(* The parts of apps/web around a person's account: buying, selling and    *)
(* swapping, orders at the outside venue, the shell with its lock, routes  *)
(* and signers, notices and e-mails, market data, and the traders' pages.  *)
(* Each keeps its state in a key of its own and never calls another, so a  *)
(* behaviour is about one of them.                                         *)
(***************************************************************************)
EXTENDS Integers

CONSTANTS
    MaxExchangeActs, MaxIntents, MaxReservations,                    \* see Exchange
    MaxOrderActs, MaxSetupActs, MaxOrderCalls, MaxRecordsPerAgent,
    MaxFillAttempts,                                                 \* see VenueOrders
    MaxLockActs, MaxRouteActs, MaxSignerActs, MaxPinJobs,            \* see Shell
    MaxFeedActs, MaxMailActs, MaxNoticeCalls, MaxEntries, MaxClock,
    MaxHits,                                                         \* see Notices
    MaxMarketActs, MaxNewsActs, MaxTrades, MaxSlots,                 \* see Markets
    MaxNoticeSteps, NoticeLimit, SeenLimit, MaxDelegationSteps,
    MaxStandingSteps, MaxStandingTrades, MaxLibrarySteps             \* see Traders

VARIABLES
    focus,                            \* what this behaviour is about
    disk, remote, calls, ui, ghost    \* of that part

vars == <<focus, disk, remote, calls, ui, ghost>>

Ramp == INSTANCE Exchange
Order == INSTANCE VenueOrders
Frame == INSTANCE Shell
Notice == INSTANCE Notices
Market == INSTANCE Markets
Trader == INSTANCE Traders

Init ==
    \/ focus = "exchange" /\ Ramp!Init
    \/ focus = "orders" /\ Order!Init
    \/ focus = "shell" /\ Frame!Init
    \/ focus = "notices" /\ Notice!Init
    \/ focus = "markets" /\ Market!Init
    \/ focus = "traders" /\ Trader!Init

Next ==
    /\ focus' = focus
    /\ \/ focus = "exchange" /\ Ramp!Next
       \/ focus = "orders" /\ Order!Next
       \/ focus = "shell" /\ Frame!Next
       \/ focus = "notices" /\ Notice!Next
       \/ focus = "markets" /\ Market!Next
       \/ focus = "traders" /\ Trader!Next

Spec == Init /\ [][Next]_vars

-----------------------------------------------------------------------------
(* Properties.  Their parts are stated, with the code they are about, in   *)
(* the modules of the parts.                                               *)

\* What a screen says of an order, a ramp, a venue, a price or a trader was
\* so when its last answer was given, and is not an older answer to another
\* question.
ScreensTellTrue ==
    CASE focus = "exchange" -> Ramp!TypeOK /\ Ramp!CompletedIsTrue /\ Ramp!OutcomesTrue
      [] focus = "orders" -> /\ Order!TypeOK /\ Order!SettledIsProven
                             /\ Order!PollIsCurrent /\ Order!ReadModelsAgree
      [] focus = "shell" -> /\ Frame!TypeOK /\ Frame!RedirectsEnd
                            /\ Frame!AskedPageReached /\ Frame!SentToOwnWallet
      [] focus = "notices" -> Notice!TypeOK /\ Notice!ToldWhileNeeded /\ Notice!ReadIsShown
      [] focus = "markets" -> /\ Market!TypeOK /\ Market!PricesAreWatched
                              /\ Market!QuoteIsOfMarket /\ Market!ConnectedMeansFed
                              /\ Market!AuthorityIsTrue
      [] focus = "traders" -> /\ Trader!TypeOK /\ Trader!ReadyWasInForce /\ Trader!LaneEarnsTier
                              /\ Trader!GrantedIsHeld /\ Trader!ReadyCanTrade

\* What is done is what the person chose: the account they named is paid, the
\* swap they saw is made, the chosen signer signs, wallets stay behind the
\* PIN, a switch stays as it was set, and the scout and the chain's authority
\* check let through what the rules allow and nothing else.
DoneAsChosen ==
    CASE focus = "exchange" -> /\ Ramp!FollowsWhatIsPayable /\ Ramp!PaidToNamedAccount
                               /\ Ramp!SwapsWhatIsShown
      [] focus = "shell" -> /\ Frame!WalletsBehindPin /\ Frame!SignedByChosen
                            /\ Frame!NoTransportLeft
      [] focus = "notices" -> Notice!ChoiceKept /\ Notice!SilentWhenOff
      [] focus = "markets" ->
            /\ Market!StopLosesTargetWins /\ Market!ScoutFindsAllowed
            /\ Market!ScoutKeepsItsWord /\ Market!ThresholdIsSigned /\ Market!SessionCountsTrade
      [] focus = "traders" -> Trader!DraftGoesToItsAgent
      [] OTHER -> TRUE

\* Nothing is done twice and nothing is dropped before its turn: one fill of
\* a reservation, one record of an idea, one notice, reminder and e-mail in
\* its interval, no more requests than the budget, one trader per template.
OnceInTurn ==
    CASE focus = "exchange" -> Ramp!FilledOnce
      [] focus = "orders" -> Order!OneRecordPerIdea /\ Order!AnsweredIsKept
      [] focus = "notices" ->
            /\ Notice!ToldOnce /\ Notice!NewestKept /\ Notice!MailSpaced
            /\ Notice!RemindedOnce /\ Notice!LocalBudget /\ Notice!SharedBudget
      [] focus = "traders" -> /\ Trader!CutAreOutranked /\ Trader!SeenUntilForgotten
                              /\ Trader!OnePerTemplate /\ Trader!DemoOnce
      [] OTHER -> TRUE

\* What was settled is not undone by a later step: the record of an order
\* that was sent, a signer marked revoked or for rotation, an entry that was
\* read; and a PIN changes only at the hands of somebody who knew it.
SettledStays ==
    [][/\ focus = "orders" => Order!SubmittedStays /\ Order!SignerStays
       /\ focus = "shell" => Frame!PinChangedByKnower
       /\ focus = "notices" => Notice!SeenStays
       /\ focus = "traders" => Trader!RotationNeedsNewSigner]_vars
=============================================================================
