---------------------------- MODULE WalletPages ----------------------------
(***************************************************************************)
(* The pages of a wallet in apps/web: its agents, its sends, its policies, *)
(* its members and networks, its home and activity, and the door through   *)
(* which its traders' ideas come in.  Each keeps its state in a key of its *)
(* own on the device (disk), reads and writes its own part of the server   *)
(* and the chain (remote), and never calls another, so a behaviour is      *)
(* about one of them.                                                      *)
(***************************************************************************)
EXTENDS Integers

CONSTANTS
    Calls, Trades, Local, SignalOf, Sessions, Rules, Fits, MaxOpen,
    FirstRules, FirstSession, Menus, MaxStarts, None,   \* see AgentDesk
    MaxEdits, MaxMoves, MaxSends, MaxRows,              \* see Sends
    MaxActs, MaxSaves,                                  \* see Policies
    MaxWalletActs,                                      \* see Wallets
    MaxDeskActs, MaxRowActs, MaxReads, MaxTxs,          \* see Home
    MaxPosts, MaxTicks, MaxConnects, MaxRequests        \* see Intake

VARIABLES
    focus,                            \* what this behaviour is about
    disk, remote, calls, ui, ghost    \* of that page

vars == <<focus, disk, remote, calls, ui, ghost>>

Desk == INSTANCE AgentDesk
Send == INSTANCE Sends
Policy == INSTANCE Policies
Wallet == INSTANCE Wallets
HomePage == INSTANCE Home
Inbox == INSTANCE Intake

Init ==
    \/ focus = "agents" /\ Desk!Init
    \/ focus = "sends" /\ Send!Init
    \/ focus = "policies" /\ Policy!Init
    \/ focus = "wallets" /\ Wallet!Init
    \/ focus = "home" /\ HomePage!Init
    \/ focus = "intake" /\ Inbox!Init

Next ==
    /\ focus' = focus
    /\ \/ focus = "agents" /\ Desk!Next
       \/ focus = "sends" /\ Send!Next
       \/ focus = "policies" /\ Policy!Next
       \/ focus = "wallets" /\ Wallet!Next
       \/ focus = "home" /\ HomePage!Next
       \/ focus = "intake" /\ Inbox!Next

Spec == Init /\ [][Next]_vars

-----------------------------------------------------------------------------
(* Properties.  Their parts are stated, with the code they are about, in   *)
(* the modules of the pages.                                               *)

\* What a page shows or has saved is what the server and the chain hold once
\* its calls are answered, whatever came late or from another tab or member:
\* the pause and the profile of an agent, the log of sends, the policy said
\* to be active, roles and invitations, balances, requests and votes, the key
\* an agent's connection is shown ready with; and only members are answered.
PagesTellTrue ==
    CASE focus = "agents" -> Desk!TypeOK /\ Desk!PauseAgrees /\ Desk!ProfileAgrees
      [] focus = "sends" -> Send!TypeOK /\ Send!LogTrue
      [] focus = "policies" ->
            /\ Policy!TypeOK /\ Policy!SavedMeansActive /\ Policy!PageAgreesWithChain
            /\ Policy!ChecksAgreeWithChain /\ Policy!ReadsAsTyped /\ Policy!EvaluationIsCurrent
      [] focus = "wallets" -> /\ Wallet!TypeOK /\ Wallet!RolesShown
                              /\ Wallet!CreatorStays /\ Wallet!InviteLogTrue
      [] focus = "home" ->
            /\ HomePage!TypeOK /\ HomePage!FirstVisitIsTrue /\ HomePage!NoWalletCountedAsZero
            /\ HomePage!AllMeansAll /\ HomePage!NothingMeansNothing /\ HomePage!RefreshCatchesUp
            /\ HomePage!ScanIsHonest /\ HomePage!VotesOnce /\ HomePage!NamedSignerSigned
      [] focus = "intake" -> Inbox!TypeOK /\ Inbox!ReadyMeansRegistered /\ Inbox!ServedToMember

\* What leaves the page is what the person saw and approved: the recipient a
\* name stood for, the coins that pay, the rows of the batch, the trade the
\* owner approved, and no more than both recipient lists and the caps allow; a
\* signal is accepted as its agent signed it, by the key then in force.
SentAsApproved ==
    CASE focus = "agents" -> /\ Desk!ResumeAlone /\ Desk!ApprovedActionOnly
                             /\ Desk!AutomationNeedsApproval
      [] focus = "sends" -> /\ Send!SignedAsShown /\ Send!PaidTheName /\ Send!CoinPays
      [] focus = "policies" -> Policy!BothListsHold /\ Policy!CapsHold
      [] focus = "intake" -> /\ Inbox!AcceptedAsSigned /\ Inbox!KeyInForce
                             /\ Inbox!AutomaticIsApproved
      [] OTHER -> TRUE

\* Nothing is done twice and nothing saved is lost: a trade is opened once,
\* an agent has one active budget, a draft is not sent again, the networks of
\* a curve share their key, contacts and imports survive, a signal is accepted
\* once, and a change of the members is lost only to a concurrent one.
OnceAndKept ==
    CASE focus = "agents" -> Desk!OneTrade /\ Desk!OneAllowance
      [] focus = "sends" -> Send!OneAutoStart /\ Send!NoRepeatedDraft
      [] focus = "wallets" ->
            /\ Wallet!KeyShared /\ Wallet!AddressStays /\ Wallet!LostOnlyConcurrent
            /\ Wallet!ContactsKept /\ Wallet!ImportsKept /\ Wallet!OneSetup
      [] focus = "intake" -> Inbox!AcceptedOnce /\ Inbox!ManagerStays /\ Inbox!OneChain
      [] OTHER -> TRUE

\* A practice trade opens only under the rules of that moment, and a failed
\* save leaves the browser with what it stored before.
StepsWithinRules ==
    [][/\ focus = "agents" => Desk!OpensWithinRules
       /\ focus = "policies" => Policy!FailureRestores]_vars
=============================================================================
