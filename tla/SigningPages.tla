---------------------------- MODULE SigningPages ----------------------------
(***************************************************************************)
(* The pages of apps/web that have a change of the vault signed: the page  *)
(* of one request, the handlers that create, approve and execute a request *)
(* in one click, and the Secure pages with their recovery records.  They   *)
(* save under keys of their own and never call each other, so a behaviour  *)
(* is about one of them.                                                   *)
(***************************************************************************)
EXTENDS Naturals, FiniteSets

CONSTANTS
    Members, Accounts, Holds, Threshold, CancelThreshold, RequestKind, Clicks,
    RequestChanges, MaxSaved,                              \* see Requests
    Attempts, Profiles, Approvals, HasExtra, MaxChanges, \* see Workflows
    Tabs, Flows, Signers, Passkeys, Roster, Thresholds, Others, Home, Menus \* see Recovery

ASSUME SigningAssumption ==
    /\ IsFiniteSet(Members) /\ Members # {} /\ Profiles # {}
    /\ Holds \in [Accounts -> SUBSET Members]
    /\ {Threshold, CancelThreshold} \subseteq 1..Cardinality(Members)
    /\ RequestKind \in {"native", "governance", "external"}
    /\ Attempts \subseteq Nat /\ Approvals \in 1..3 /\ HasExtra \in BOOLEAN
    /\ {RequestChanges, MaxSaved, MaxChanges} \subseteq Nat

VARIABLES
    focus,                                        \* what this behaviour is about
    account, chain, net, stored,                  \* of the first two
    final, review, generation, instance, attempts, entries, held, pending,
    asked, cast, told, lossy,                     \* of the request page
    script, auto, policy, changes, att, memory, exec, hist,   \* of a handler
    menu, page, stage, key, wallet, popup, flow, receipts, checking \* of Secure

shared == <<account, chain, net, stored>>
requestOnly == <<final, review, generation, instance, attempts, entries, held,
                 pending, asked, cast, told, lossy>>
handlerOnly == <<script, auto, policy, changes, memory, exec, hist>>
secureOnly == <<menu, page, stage, key, wallet, popup, flow, receipts, checking>>
vars == <<focus, shared, requestOnly, handlerOnly, att, secureOnly>>

Page == INSTANCE Requests WITH Kind <- RequestKind, Attempts <- Clicks,
                               MaxChanges <- RequestChanges, shown <- review
Handler == INSTANCE Workflows WITH Accounts <- Profiles, Threshold <- Approvals
Secure == INSTANCE Recovery

\* The variables of the pages that a behaviour is not about have no meaning.
NoRequest ==
    /\ final = 0 /\ review = 0 /\ generation = 0 /\ instance = 0
    /\ attempts = 0 /\ entries = 0 /\ held = 0 /\ pending = 0 /\ asked = 0
    /\ cast = 0 /\ told = 0 /\ lossy = 0
NoHandler ==
    /\ script = 0 /\ auto = 0 /\ policy = 0 /\ changes = 0 /\ memory = 0
    /\ exec = 0 /\ hist = 0
NoSecure ==
    /\ menu = 0 /\ page = 0 /\ stage = 0 /\ key = 0 /\ wallet = 0 /\ popup = 0
    /\ flow = 0 /\ receipts = 0 /\ checking = 0

Init ==
    \/ focus = "request" /\ Page!Init /\ NoHandler /\ NoSecure /\ att = 0
    \/ focus = "handler" /\ Handler!Init /\ NoRequest /\ NoSecure
    \/ /\ focus = "secure" /\ Secure!Init /\ NoRequest /\ NoHandler
       /\ account = 0 /\ stored = 0

Next ==
    \/ focus = "request" /\ Page!Next /\ UNCHANGED <<focus, handlerOnly, att, secureOnly>>
    \/ focus = "handler" /\ Handler!Next /\ UNCHANGED <<focus, requestOnly, secureOnly>>
    \/ /\ focus = "secure" /\ Secure!Next
       /\ UNCHANGED <<focus, requestOnly, handlerOnly, account, stored>>

Spec == Init /\ [][Next]_vars

-----------------------------------------------------------------------------
(* Properties.  Their parts are stated, with the code they are about, in   *)
(* Requests, Workflows and Recovery.                                       *)

\* Whatever is lost, reloaded, remounted, abandoned or done in another tab,
\* nothing is asked for twice while the first may still take effect: a vote
\* or an execution of a request, a request of a handler, its execution, the
\* wallet's prompt, the import of a key.
AskedOnce ==
    CASE focus = "request" -> Page!OneOutstanding /\ Page!OnePrompt
      [] focus = "handler" -> Handler!OneRequest /\ Handler!OneExecution
      [] focus = "secure" -> Secure!NoSecondImport /\ Secure!KeyGoneBeforeWallet

\* What a page reports as confirmed was recorded on Solana, every transaction
\* that may have been sent has its recovery record, and a vault that exists
\* has its attestation in this browser.
ReportsTrue ==
    CASE focus = "request" -> Page!TypeOK /\ Page!ToldTrue
      [] focus = "handler" -> Handler!TypeOK /\ Handler!ToldTrue
      [] focus = "secure" -> /\ Secure!TypeOK /\ Secure!RecordsAreTrue
                             /\ Secure!NothingForgotten /\ Secure!AttestationKept

\* Nothing is submitted for a person, mount, policy or route that is not the
\* present one: an attempt that outlived its account sends nothing, a denied
\* change is never signed, an added approval or cooldown is on the chain
\* before the execution, and no Secure operation starts over a transaction
\* of its signer that may still land.
SendsOnlyCurrent ==
    [][CASE focus = "request" -> Page!SubmitsForCurrent
         [] focus = "handler" -> Handler!ProtectionHonoured /\ Handler!DenyNeverSigns'
         [] focus = "secure" -> Secure!NeverStartsOverAnUnknown /\ Secure!LeftFlowStops]_vars
=============================================================================
