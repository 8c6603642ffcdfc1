------------------------------- MODULE Wallets -------------------------------
(***************************************************************************)
(* The pages on which a wallet is created and looked after: new wallet,    *)
(* setup checklist, members, add a member, quorum and delay, networks,     *)
(* receive, people (contacts) and sent invitations (apps/web).             *)
(*                                                                         *)
(* A page works from cached reads of the chain.  The query client never    *)
(* reads again because a page is opened (refetchOnMount is off), so what   *)
(* is shown may be old.  A rule change is a whole new rule: proposed, it   *)
(* replaces whatever the rule is when it is executed.                      *)
(*                                                                         *)
(*   disk    contacts, watchers, imported signers, sent invitations        *)
(*   remote  the wallet, its spending rule, its networks, mail sent        *)
(*   calls   the requests of this tab that are under way                   *)
(*   ui      the mounted page, its form, the cached reads                  *)
(*   ghost   history for the properties                                    *)
(***************************************************************************)
EXTENDS Integers, FiniteSets, FiniteSetsExt

CONSTANT MaxWalletActs   \* steps of people: clicks, edits, pages opened,
                         \* other tabs' and other members' changes

VARIABLES disk, remote, calls, ui, ghost

vars == <<disk, remote, calls, ui, ghost>>

Friends == {"f", "g"}
People  == Friends \cup {"me"}
Roles   == {"full", "approver", "watcher"}
Names   == {"Ann", "Bob"}
Kinds   == {1, 2, 5}          \* Ethereum, Bitcoin, Hyperliquid: one curve
Pages   == {"new", "wallet", "members", "add", "rules", "chains", "addchain",
            "receive", "people", "invites", "other"}
RulePages  == {"wallet", "members", "add", "rules"}   \* pages that read the rule
ChainPages == {"chains", "addchain", "receive"}       \* pages that read the networks

NoContact == [name |-> "-", sig |-> "none"]
NoRule == [on |-> FALSE, apps |-> {}, props |-> {}, thr |-> 1, delay |-> 0,
           ver |-> 0, busy |-> FALSE]
NoBinds == [k \in Kinds |-> [key |-> 0, ready |-> FALSE]]
Unread == [st |-> "none", rule |-> NoRule]
UnreadChains == [st |-> "none", binds |-> NoBinds]

NoChange == [step |-> "none", kind |-> "none", who |-> "f", role |-> "full", n |-> 1,
             new |-> NoRule, seen |-> 0, form |-> [who |-> "f", role |-> "full", mail |-> FALSE],
             live |-> FALSE]
NoBind == [step |-> "none", kind |-> 1, reuse |-> 0, known |-> {}]

-----------------------------------------------------------------------------
(* Rules and roles.                                                        *)

\* The rule an added friend, a removed one, a changed role, quorum or delay
\* leads to.
addedTo(r, who, role) ==
  [r EXCEPT !.apps = @ \cup {who}, !.props = IF role = "full" THEN @ \cup {who} ELSE @]

removedFrom(r, who) == [r EXCEPT !.apps = @ \ {who}, !.props = @ \ {who}]

withRole(r, who, role) ==
  CASE role = "watcher"  -> removedFrom(r, who)
    [] role = "approver" -> [r EXCEPT !.apps = @ \cup {who}, !.props = @ \ {who}]
    [] OTHER             -> [r EXCEPT !.apps = @ \cup {who}, !.props = @ \cup {who}]

Apply(c, r) ==
  CASE c.kind = "add"    -> addedTo(r, c.who, c.role)
    [] c.kind = "remove" -> removedFrom(r, c.who)
    [] c.kind = "role"   -> withRole(r, c.who, c.role)
    [] c.kind = "quorum" -> [r EXCEPT !.thr = c.n]
    [] OTHER             -> [r EXCEPT !.delay = c.n]

SameMembers(r, q) == r.apps = q.apps /\ r.props = q.props

deriveRole(a, r, watch) ==
  IF a \in r.apps THEN (IF a \in r.props THEN "full" ELSE "approver")
  ELSE IF a \in watch THEN "watcher" ELSE "unknown"

\* The rows of the members page; the signed-in person is always listed.
members(r, watch) ==
  LET q == [r EXCEPT !.apps = @ \cup {"me"}]
  IN [a \in q.apps \cup q.props \cup watch |-> deriveRole(a, q, watch)]

canRemove(a, role)   == a # "me" /\ a # ghost.creator /\ role # "unknown"
canEditRole(a, role) == a # "me" /\ a # ghost.creator /\ role # "unknown"

canSubmit(r, form) ==
  /\ form.who \in Friends
  /\ r.on
  /\ form.role = "watcher" \/ form.who \notin r.apps

-----------------------------------------------------------------------------
(* Contacts.                                                               *)

\* Entries changed outside the application are dropped, older unsigned ones
\* are signed now.
loadContacts(cs) ==
  [a \in Friends |-> IF cs[a].name = "-" \/ cs[a].sig = "bad" THEN NoContact
                     ELSE [cs[a] EXCEPT !.sig = "ok"]]

saveContact(cs, shown, a, name) ==
  [loadContacts(cs) EXCEPT ![a] = [name |-> name, sig |-> "ok"]]

removeContact(cs, a) == [loadContacts(cs) EXCEPT ![a] = NoContact]

mirror(cs) == [a \in Friends |-> loadContacts(cs)[a].name]

-----------------------------------------------------------------------------
(* Networks.                                                               *)

boundKinds(binds) == {k \in Kinds : binds[k].key # 0}
addable(binds) == Kinds \ boundKinds(binds)

\* The key another network of the same curve already has, 0 when there is none.
existingSecp256k1Binding(binds) ==
  LET full == {k \in Kinds : binds[k].key # 0 /\ binds[k].ready}
  IN IF full = {} THEN 0 ELSE binds[CHOOSE k \in full : TRUE].key

\* Fault variant: a network still being read does not count.
noPartialBinding(binds) == FALSE

hasPartialSecp256k1Binding(binds) ==
  \E k \in Kinds : binds[k].key # 0 /\ ~binds[k].ready

Keys(binds) == {binds[k].key : k \in boundKinds(binds)}

\* Addresses the networks page lists, and those the receive page offers.
bound(binds) == boundKinds(binds)
receiveOptions(binds) == {k \in boundKinds(binds) : binds[k].ready}

-----------------------------------------------------------------------------
Init ==
  \E p \in Pages \ {"other"}, made \in BOOLEAN, creator \in {"me", "g"}, gov \in {1, 2},
     stage \in {"pick", "confirm"} :
    /\ p # "addchain" => stage = "pick"
    /\ p \notin {"new", "people"} => made
    /\ ~made => creator = "me" /\ gov = 1
    /\ p \in ChainPages \cup {"people", "new"} => creator = "me" /\ gov = 1
    /\ disk = [contacts |-> [a \in Friends |-> IF a = "g" THEN [name |-> "Bob", sig |-> "none"]
                                               ELSE NoContact],
               watch |-> {}, pending |-> {}, setup |-> FALSE, hidden |-> FALSE,
               invites |-> [a \in Friends |-> IF p = "invites" /\ a = "g" THEN "sent" ELSE "none"]]
    /\ remote = [wallet |-> made, rules |-> IF made THEN 1 ELSE 0, gov |-> gov,
                 rule |-> IF made THEN [NoRule EXCEPT !.on = TRUE, !.apps = {"me", "g"},
                                                      !.props = {"me", "g"}, !.ver = 1]
                          ELSE NoRule,
                 waiting |-> {}, binds |-> NoBinds, keys |-> 0,
                 mail |-> [a \in Friends |-> IF disk.invites[a] = "sent" THEN "invited" ELSE "none"]]
    /\ calls = [create |-> "none", change |-> NoChange, bind |-> NoBind,
                rule |-> p \in RulePages, chains |-> p \in ChainPages]
    /\ ui = [page |-> p, acts |-> 0, rule |-> Unread, chains |-> UnreadChains,
             contacts |-> [a \in Friends |-> IF a = "g" THEN "Bob" ELSE "-"],
             form |-> NoChange.form, imports |-> {}, stage |-> stage, kind |-> 1]
    /\ ghost = [creator |-> creator, imported |-> {}, lost |-> FALSE, quorum |-> FALSE,
                blind |-> FALSE, again |-> FALSE, saved |-> [a \in Friends |-> IF a = "g" THEN "Bob" ELSE "-"]]

Act == ui.acts < MaxWalletActs
Acted(u) == [u EXCEPT !.acts = @ + 1]

\* Opening a page reads what was never read, and nothing else.
Opened(u, p) ==
  [u EXCEPT !.page = p, !.form = NoChange.form, !.imports = {}, !.stage = "pick",
            !.contacts = mirror(disk.contacts)]

Reads(c, u, p) ==
  [c EXCEPT !.rule = @ \/ (p \in RulePages /\ u.rule.st = "none"),
            !.chains = @ \/ (p \in ChainPages /\ u.chains.st = "none"),
            !.change.live = FALSE]

Open(p) ==
  /\ Act /\ p # ui.page
  /\ p \notin {"new", "people", "other"} => remote.wallet
  /\ ui' = Acted(Opened(ui, p))
  /\ calls' = Reads(calls, ui, p)
  /\ disk' = [disk EXCEPT !.contacts = loadContacts(@)]
  /\ UNCHANGED <<remote, ghost>>

\* A page that follows the networks list is given a network by its address.
OpenForChain(k) ==
  /\ Act /\ ui.page = "chains" /\ k \in addable(ui.chains.binds)
  /\ ui' = Acted([Opened(ui, "addchain") EXCEPT !.stage = "confirm", !.kind = k])
  /\ calls' = Reads(calls, ui, "addchain")
  /\ UNCHANGED <<disk, remote, ghost>>

\* The cached rule is dropped some minutes after the last page that used it.
ForgetRule ==
  /\ Act /\ ui.page \notin RulePages /\ ui.rule.st # "none" /\ ~calls.rule
  /\ ui' = Acted([ui EXCEPT !.rule = Unread])
  /\ UNCHANGED <<disk, remote, calls, ghost>>

RuleArrives ==
  /\ calls.rule
  /\ ui' = [ui EXCEPT !.rule = [st |-> "ok", rule |-> remote.rule]]
  /\ calls' = [calls EXCEPT !.rule = FALSE]
  /\ UNCHANGED <<disk, remote, ghost>>

ChainsArrive ==
  /\ calls.chains
  /\ \/ ui' = [ui EXCEPT !.chains = [st |-> "ok", binds |-> remote.binds]]
     \/ ui' = [ui EXCEPT !.chains.st = "error"]
  /\ calls' = [calls EXCEPT !.chains = FALSE]
  /\ UNCHANGED <<disk, remote, ghost>>

\* The refresh button of the networks and receive pages, and a tab in focus again.
RefreshChains ==
  /\ Act /\ ui.page \in ChainPages /\ ~calls.chains
  /\ calls' = [calls EXCEPT !.chains = TRUE]
  /\ ui' = Acted(ui)
  /\ UNCHANGED <<disk, remote, ghost>>

-----------------------------------------------------------------------------
(* A new wallet.                                                           *)

EditImport(s) ==
  /\ Act /\ ui.page = "new" /\ s # ui.imports
  /\ ui' = Acted([ui EXCEPT !.imports = s])
  /\ UNCHANGED <<disk, remote, calls, ghost>>

savePendingTeammates(d, imports) ==
  IF imports = {} THEN d ELSE [d EXCEPT !.pending = imports]

CreateClick ==
  /\ Act /\ ui.page = "new" /\ calls.create = "none"
  /\ disk' = savePendingTeammates(disk, ui.imports)
  /\ ghost' = [ghost EXCEPT !.imported = IF ui.imports = {} THEN @ ELSE ui.imports,
                            !.again = @ \/ (remote.rules > 0 /\ ~disk.setup)]
  /\ calls' = [calls EXCEPT !.create = "sent"]
  /\ ui' = Acted(ui)
  /\ UNCHANGED remote

\* The create call lands, is refused because the wallet exists, or fails.  A
\* wallet that is there afterwards is taken as created.
CreateLands ==
  /\ calls.create = "sent"
  /\ \/ remote' = [remote EXCEPT !.wallet = TRUE]
     \/ UNCHANGED remote
  /\ calls' = [calls EXCEPT !.create = IF remote'.wallet THEN "created" ELSE "none"]
  /\ UNCHANGED <<disk, ui, ghost>>

SetupFree == ~disk.setup

\* Sending is turned on by one request of the creator; a reply that is lost
\* leaves it recorded as unresolved.
InstallRule ==
  /\ calls.create = "created"
  /\ \/ UNCHANGED <<disk, remote, ui>>
     \/ /\ SetupFree
        /\ remote' = [remote EXCEPT !.rules = @ + 1,
                        !.rule = IF remote.rules > 0 THEN @
                                 ELSE [NoRule EXCEPT !.on = TRUE, !.apps = {"me"},
                                                     !.props = {"me"}, !.ver = 1]]
        /\ \/ disk' = [disk EXCEPT !.setup = TRUE] /\ UNCHANGED ui
           \/ /\ UNCHANGED disk
              /\ ui' = Opened(ui, "wallet")
  /\ calls' = Reads([calls EXCEPT !.create = "none"], ui, ui'.page)
  /\ UNCHANGED ghost

\* Imported signers the checklist still asks for.
readPendingTeammates(d, r) == d.pending \ r.apps

\* A signer of the checklist opens the add page filled in.
AddImported(a) ==
  /\ Act /\ ui.page = "wallet" /\ ui.rule.st = "ok" /\ ui.rule.rule.on /\ ~disk.hidden
  /\ a \in readPendingTeammates(disk, ui.rule.rule)
  /\ ui' = Acted([Opened(ui, "add") EXCEPT !.form = [who |-> a, role |-> "approver", mail |-> FALSE]])
  /\ calls' = Reads(calls, ui, "add")
  /\ UNCHANGED <<disk, remote, ghost>>

HideChecklist ==
  /\ Act /\ ui.page = "wallet" /\ ~disk.hidden
  /\ disk' = [disk EXCEPT !.hidden = TRUE]
  /\ ui' = Acted(ui)
  /\ UNCHANGED <<remote, calls, ghost>>

-----------------------------------------------------------------------------
(* Members, quorum and delay.                                              *)

Idle == calls.change.step = "none"
Seen == ui.rule.st = "ok" /\ ui.rule.rule.on

EditFriend(f) ==
  /\ Act /\ ui.page = "add" /\ f # ui.form
  /\ ui' = Acted([ui EXCEPT !.form = f])
  /\ calls' = IF calls.change.live THEN [calls EXCEPT !.change.form = f] ELSE calls
  /\ UNCHANGED <<disk, remote, ghost>>

\* Adding starts from the rule the page has read.  While the rule has open
\* requests they are looked at first.
AddFriend ==
  /\ Act /\ ui.page = "add" /\ Seen /\ Idle
  /\ canSubmit(ui.rule.rule, ui.form) /\ ui.form.role # "watcher"
  /\ calls' = [calls EXCEPT !.change =
       [NoChange EXCEPT !.step = IF ui.rule.rule.busy THEN "blockers" ELSE "sent",
          !.kind = "add", !.who = ui.form.who, !.role = ui.form.role,
          !.new = addedTo(ui.rule.rule, ui.form.who, ui.form.role),
          !.seen = ui.rule.rule.ver, !.form = ui.form, !.live = TRUE]]
  /\ ui' = Acted(ui)
  /\ UNCHANGED <<disk, remote, ghost>>

\* The mail of an invitation is recorded only once it was accepted.
Invite(d, r, f, sent) ==
  IF f.mail /\ sent THEN <<[d EXCEPT !.invites[f.who] = "sent"], [r EXCEPT !.mail[f.who] = "invited"]>>
  ELSE <<d, r>>

NamedContact(d, a) ==
  [d EXCEPT !.contacts = saveContact(@, ui.contacts, a, "Ann")]

\* A watcher is saved in this browser only.
AddWatcher(sent) ==
  /\ Act /\ ui.page = "add" /\ Seen /\ Idle
  /\ canSubmit(ui.rule.rule, ui.form) /\ ui.form.role = "watcher"
  /\ LET d == [NamedContact(disk, ui.form.who) EXCEPT !.watch = @ \cup {ui.form.who}]
         out == Invite(d, remote, ui.form, sent)
     IN disk' = out[1] /\ remote' = out[2]
  /\ ghost' = [ghost EXCEPT !.saved[ui.form.who] = "Ann"]
  /\ calls' = [calls EXCEPT !.rule = TRUE]
  /\ ui' = Acted([ui EXCEPT !.contacts = mirror(disk'.contacts)])

Row(a) == members(ui.rule.rule, disk.watch)[a]
OnRow(a) == ui.page = "members" /\ ui.rule.st = "ok" /\ a \in DOMAIN members(ui.rule.rule, disk.watch)

\* Removing, changing a role, the quorum or the delay reads the rule anew.
Ask(c) ==
  /\ Act /\ Idle
  /\ calls' = [calls EXCEPT !.change = [c EXCEPT !.step = "reading", !.seen = remote.rule.ver]]
  /\ ui' = Acted(ui)
  /\ UNCHANGED <<disk, remote, ghost>>

RemoveMember(a) ==
  /\ OnRow(a) /\ canRemove(a, Row(a)) /\ Row(a) # "watcher"
  /\ Ask([NoChange EXCEPT !.kind = "remove", !.who = a])

StopWatching(a) ==
  /\ Act /\ OnRow(a) /\ Row(a) = "watcher" /\ canRemove(a, Row(a)) /\ Idle
  /\ disk' = [disk EXCEPT !.watch = @ \ {a}]
  /\ ui' = Acted(ui)
  /\ calls' = [calls EXCEPT !.rule = TRUE]
  /\ UNCHANGED <<remote, ghost>>

ChangeRole(a, role) ==
  /\ OnRow(a) /\ canEditRole(a, Row(a)) /\ role # Row(a)
  /\ Ask([NoChange EXCEPT !.kind = "role", !.who = a, !.role = role])

ChangeQuorum(n) ==
  /\ ui.page = "rules" /\ Seen
  /\ n \in 1..Cardinality(ui.rule.rule.apps) /\ n # ui.rule.rule.thr
  /\ Ask([NoChange EXCEPT !.kind = "quorum", !.n = n])

ChangeDelay(n) ==
  /\ ui.page = "rules" /\ Seen /\ n # ui.rule.rule.delay
  /\ Ask([NoChange EXCEPT !.kind = "delay", !.n = n])

ruleReadAnew == remote.rule

CanBe(r) == r.thr <= Cardinality(r.apps)

\* The read of a change, and what needs no request: nothing to change, or only
\* this browser's list of watchers.
ReadRule ==
  LET c == calls.change
      r == ruleReadAnew
      new == Apply(c, r)
      local == CASE c.kind \in {"remove", "role"} -> SameMembers(new, r)
                 [] OTHER -> new = r
  IN /\ c.step = "reading"
     /\ IF ~CanBe(new) \/ (~local /\ remote.rule.busy)
        THEN calls' = [calls EXCEPT !.change = NoChange] /\ UNCHANGED disk
        ELSE IF local
        THEN /\ calls' = [calls EXCEPT !.change = NoChange, !.rule = @ \/ ui.page \in RulePages]
             /\ disk' = CASE c.kind = "role" /\ c.role = "watcher" -> [disk EXCEPT !.watch = @ \cup {c.who}]
                          [] c.kind \in {"remove", "role"} -> [disk EXCEPT !.watch = @ \ {c.who}]
                          [] OTHER -> disk
        ELSE /\ calls' = [calls EXCEPT !.change = [c EXCEPT !.step = "sent", !.new = new]]
             /\ UNCHANGED disk
     /\ UNCHANGED <<remote, ui, ghost>>

LookForBlockers ==
  /\ calls.change.step = "blockers"
  /\ calls' = [calls EXCEPT !.change = IF remote.rule.busy THEN NoChange ELSE [@ EXCEPT !.step = "sent"]]
  /\ UNCHANGED <<disk, remote, ui, ghost>>

\* Executing a change writes the rule it carries over the one there is.
Executes(c) ==
  /\ ~remote.rule.busy /\ CanBe(c.new)
  /\ LET was == remote.rule
         done == [c.new EXCEPT !.ver = was.ver + 1, !.busy = FALSE]
         undone == done # [Apply(c, was) EXCEPT !.ver = was.ver + 1]
     IN /\ remote' = [remote EXCEPT !.rule = done, !.waiting = @ \ {c}]
        /\ ghost' = [ghost EXCEPT !.lost = @ \/ (undone /\ was.ver = c.seen),
                                  !.quorum = @ \/ (undone /\ c.kind = "quorum")]

ChangeLands ==
  /\ calls.change.step = "sent"
  /\ IF remote.gov = 1
     THEN Executes(calls.change) /\ calls' = [calls EXCEPT !.change.step = "executed"]
     ELSE /\ remote' = [remote EXCEPT !.waiting = @ \cup {[calls.change EXCEPT !.step = "waiting"]}]
          /\ calls' = [calls EXCEPT !.change.step = "awaiting"]
          /\ UNCHANGED ghost
  /\ UNCHANGED <<disk, ui>>

ChangeFails ==
  /\ calls.change.step = "sent"
  /\ calls' = [calls EXCEPT !.change = NoChange]
  /\ UNCHANGED <<disk, remote, ui, ghost>>

\* A request left waiting is approved by another member and executed.
ApproveWaiting(c) ==
  /\ Act /\ c \in remote.waiting /\ Executes(c)
  /\ ui' = Acted(ui)
  /\ UNCHANGED <<disk, calls>>

\* What follows a friend that was added: the contact, and the mail, of what
\* the form holds by then.
FriendAdded(sent) ==
  /\ calls.change.kind = "add"
  /\ \/ /\ calls.change.step = "awaiting"
        /\ ui' = Opened(ui, "other") /\ UNCHANGED <<disk, remote, ghost>>
     \/ /\ calls.change.step = "executed"
        /\ LET f == calls.change.form
               out == Invite(NamedContact(disk, f.who), remote, f, sent)
           IN /\ disk' = out[1] /\ remote' = out[2]
              /\ ghost' = [ghost EXCEPT !.saved[f.who] = "Ann"]
        /\ ui' = [ui EXCEPT !.contacts = mirror(disk'.contacts)]
  /\ calls' = [calls EXCEPT !.change = NoChange,
                 !.rule = @ \/ (calls.change.step = "executed" /\ ui.page \in RulePages)]

\* What follows the other changes: the list of watchers, and a new read.
ChangeSettled ==
  LET c == calls.change
  IN /\ c.step \in {"executed", "awaiting"} /\ c.kind # "add"
     /\ disk' = CASE c.kind = "remove" -> [disk EXCEPT !.watch = @ \ {c.who}]
                  [] c.kind = "role" /\ c.step = "executed" ->
                       [disk EXCEPT !.watch = IF c.role = "watcher" THEN @ \cup {c.who} ELSE @ \ {c.who}]
                  [] OTHER -> disk
     /\ calls' = [calls EXCEPT !.change = NoChange, !.rule = @ \/ ui.page \in RulePages]
     /\ UNCHANGED <<remote, ui, ghost>>

\* Another member changes the rule with the same pages, or opens and finishes
\* a request under it.
OtherChange(c) ==
  /\ Act /\ remote.rule.on /\ ~remote.rule.busy
  /\ c.who # ghost.creator
  /\ LET new == Apply(c, remote.rule)
     IN /\ new # remote.rule /\ CanBe(new)
        /\ remote' = [remote EXCEPT !.rule = [new EXCEPT !.ver = @ + 1]]
  /\ ui' = Acted(ui)
  /\ UNCHANGED <<disk, calls, ghost>>

OtherRequest ==
  /\ Act /\ remote.rule.on
  /\ remote' = [remote EXCEPT !.rule.busy = ~@]
  /\ ui' = Acted(ui)
  /\ UNCHANGED <<disk, calls, ghost>>

-----------------------------------------------------------------------------
(* Contacts and invitations.                                               *)

\* The form of the people page and the name given on a member's row.
SavePerson(a, name) ==
  /\ Act /\ \/ ui.page = "people" /\ name = "Ann"
            \/ OnRow(a) /\ a # "me" /\ name = "Bob"
  /\ disk' = [disk EXCEPT !.contacts = saveContact(@, ui.contacts, a, name)]
  /\ ui' = Acted([ui EXCEPT !.contacts = mirror(disk'.contacts)])
  /\ ghost' = [ghost EXCEPT !.saved[a] = name]
  /\ UNCHANGED <<remote, calls>>

RemovePerson(a) ==
  /\ Act /\ ui.page = "people" /\ ui.contacts[a] # "-"
  /\ disk' = [disk EXCEPT !.contacts = removeContact(@, a)]
  /\ ui' = Acted([ui EXCEPT !.contacts = mirror(disk'.contacts)])
  /\ ghost' = [ghost EXCEPT !.saved[a] = "-"]
  /\ UNCHANGED <<remote, calls>>

\* Another tab saves or removes a person; something else edits the entry.
OtherTabSaves(a, name) ==
  /\ Act /\ ui.page = "people"
  /\ disk' = [disk EXCEPT !.contacts = saveContact(@, ui.contacts, a, name)]
  /\ ghost' = [ghost EXCEPT !.saved[a] = name]
  /\ ui' = Acted(ui)
  /\ UNCHANGED <<remote, calls>>

EntryEdited(a) ==
  /\ Act /\ ui.page = "people" /\ disk.contacts[a].sig = "ok"
  /\ disk' = [disk EXCEPT !.contacts[a] = [name |-> "forged", sig |-> "bad"]]
  /\ ghost' = [ghost EXCEPT !.saved[a] = "-"]
  /\ ui' = Acted(ui)
  /\ UNCHANGED <<remote, calls>>

\* Withdrawing mails the invited person; only then the entry is marked.
Withdraw(a, sent) ==
  /\ Act /\ ui.page = "invites" /\ disk.invites[a] = "sent"
  /\ disk' = IF sent THEN [disk EXCEPT !.invites[a] = "revoked"] ELSE disk
  /\ remote' = IF sent THEN [remote EXCEPT !.mail[a] = "withdrawn"] ELSE remote
  /\ ui' = Acted(ui)
  /\ UNCHANGED <<calls, ghost>>

-----------------------------------------------------------------------------
(* Networks.                                                               *)

PickChain(k) ==
  /\ Act /\ ui.page = "addchain" /\ ui.stage = "pick" /\ k \in addable(ui.chains.binds)
  /\ ui' = Acted([ui EXCEPT !.kind = k, !.stage = "confirm"])
  /\ UNCHANGED <<disk, remote, calls, ghost>>

PickDifferent ==
  /\ Act /\ ui.page = "addchain" /\ ui.stage = "confirm"
  /\ ui' = Acted([ui EXCEPT !.stage = "pick"])
  /\ UNCHANGED <<disk, remote, calls, ghost>>

ListRead == ui.chains.st = "ok"

StartBind ==
  /\ Act /\ ui.page = "addchain" /\ ui.stage = "confirm" /\ calls.bind.step = "none"
  /\ ListRead /\ ~hasPartialSecp256k1Binding(ui.chains.binds)
  /\ calls' = [calls EXCEPT !.bind = [step |-> "sent", kind |-> ui.kind,
                 reuse |-> existingSecp256k1Binding(ui.chains.binds),
                 known |-> IF ui.chains.st = "ok" THEN boundKinds(ui.chains.binds) ELSE boundKinds(remote.binds)]]
  /\ ui' = Acted([ui EXCEPT !.stage = "binding"])
  /\ UNCHANGED <<disk, remote, ghost>>

\* The program refuses a network that is bound.
bind_dwallet(r, k, key) ==
  IF r.binds[k].key # 0 THEN r ELSE [r EXCEPT !.binds[k] = [key |-> key, ready |-> FALSE]]

\* Without a key to reuse a new one is generated.
BindLands ==
  /\ calls.bind.step = "sent"
  /\ LET b == calls.bind
         fresh == b.reuse = 0
         key == IF fresh THEN remote.keys + 1 ELSE b.reuse
         r == bind_dwallet(remote, b.kind, key)
     IN /\ remote' = IF fresh THEN [r EXCEPT !.keys = key] ELSE r
        /\ ghost' = [ghost EXCEPT !.blind = @ \/ ~(boundKinds(remote.binds) \subseteq b.known)]
        /\ calls' = [calls EXCEPT !.bind.step = IF r = remote THEN "failed" ELSE "done"]
  /\ UNCHANGED <<disk, ui>>

\* The reply moves on to the network's send or setup page, or back.
BindReply ==
  /\ calls.bind.step # "none"
  /\ \/ /\ calls.bind.step = "done"
        /\ ui' = Opened(ui, "other")
        /\ calls' = [calls EXCEPT !.bind = NoBind, !.chains = @ \/ ui.page \in ChainPages,
                                  !.change.live = FALSE]
     \/ /\ ui' = IF ui.stage = "binding" THEN [ui EXCEPT !.stage = "confirm"] ELSE ui
        /\ calls' = [calls EXCEPT !.bind = NoBind]
  /\ UNCHANGED <<disk, remote, ghost>>

\* A deep link to a network that turns out to be bound leads away.
Bounce ==
  /\ ui.page = "addchain" /\ ui.stage = "confirm" /\ ui.chains.st # "none"
  /\ ui.kind \in boundKinds(ui.chains.binds)
  /\ ui' = Opened(ui, "other")
  /\ UNCHANGED <<disk, remote, calls, ghost>>

\* The service has decoded the key of a network; another member adds one.
KeyDecoded(k) ==
  /\ remote.binds[k].key # 0 /\ ~remote.binds[k].ready
  /\ remote' = [remote EXCEPT !.binds[k].ready = TRUE]
  /\ UNCHANGED <<disk, calls, ui, ghost>>

OtherBinds(k) ==
  /\ Act /\ remote.wallet /\ remote.binds[k].key = 0
  /\ ~hasPartialSecp256k1Binding(remote.binds)
  /\ LET old == existingSecp256k1Binding(remote.binds)
         key == IF old = 0 THEN remote.keys + 1 ELSE old
     IN remote' = [bind_dwallet(remote, k, key) EXCEPT !.keys = IF old = 0 THEN key ELSE @]
  /\ ui' = Acted(ui)
  /\ UNCHANGED <<disk, calls, ghost>>

-----------------------------------------------------------------------------
FriendForms == [who : Friends, role : Roles, mail : BOOLEAN]

OtherChanges ==
  {[NoChange EXCEPT !.kind = "add", !.who = "f"], [NoChange EXCEPT !.kind = "remove", !.who = "f"],
   [NoChange EXCEPT !.kind = "remove", !.who = "g"], [NoChange EXCEPT !.kind = "delay", !.n = 1]}

Creation ==
  \/ \E s \in SUBSET Friends : EditImport(s)
  \/ CreateClick \/ CreateLands \/ InstallRule \/ HideChecklist
  \/ \E a \in Friends : AddImported(a)

Membership ==
  \/ \E f \in FriendForms : EditFriend(f)
  \/ AddFriend \/ \E sent \in BOOLEAN : AddWatcher(sent) \/ FriendAdded(sent)
  \/ \E a \in Friends : RemoveMember(a) \/ StopWatching(a) \/ \E r \in Roles : ChangeRole(a, r)
  \/ \E n \in 1..2 : ChangeQuorum(n)
  \/ \E n \in 0..1 : ChangeDelay(n)
  \/ ReadRule \/ LookForBlockers \/ ChangeLands \/ ChangeFails \/ ChangeSettled
  \/ \E c \in remote.waiting : ApproveWaiting(c)
  \/ \E c \in OtherChanges : OtherChange(c)
  \/ OtherRequest

AddressBook ==
  \/ \E a \in Friends, n \in Names : SavePerson(a, n) \/ OtherTabSaves(a, n)
  \/ \E a \in Friends : RemovePerson(a) \/ EntryEdited(a) \/ \E sent \in BOOLEAN : Withdraw(a, sent)

Networks ==
  \/ \E k \in Kinds : OpenForChain(k) \/ PickChain(k) \/ KeyDecoded(k) \/ OtherBinds(k)
  \/ PickDifferent \/ StartBind \/ BindLands \/ BindReply \/ Bounce \/ RefreshChains

Next ==
  \/ \E p \in Pages \ {"other"} : Open(p)
  \/ ForgetRule \/ RuleArrives \/ ChainsArrive
  \/ Creation \/ Membership \/ AddressBook \/ Networks

Spec == Init /\ [][Next]_vars

-----------------------------------------------------------------------------
(* Properties.                                                             *)

TypeOK ==
  /\ ui.page \in Pages /\ ui.acts \in 0..MaxWalletActs
  /\ ui.form \in FriendForms /\ ui.stage \in {"pick", "confirm", "binding"}
  /\ disk.watch \subseteq Friends /\ disk.pending \subseteq Friends
  /\ DOMAIN disk.contacts = Friends
  /\ remote.rule.apps \subseteq People /\ remote.rule.props \subseteq People
  /\ calls.create \in {"none", "sent", "created"}
  /\ calls.change.step \in {"none", "blockers", "reading", "sent", "executed", "awaiting"}
  /\ calls.bind.step \in {"none", "sent", "done", "failed"}

\* A wallet gets a second key for the networks of one curve only when a
\* network was added from a list that did not yet show the first key's network
\* (chains/add/page.tsx: the list must have been read, and a network that is
\* still being decoded stops the addition).
KeyShared ==
  Cardinality(Keys(remote.binds)) >= 2 => ghost.blind

\* However old the list, an address a page shows for a network is the address
\* the wallet has on it: funds sent there arrive (chains/page.tsx,
\* receive/page.tsx; bind_dwallet.rs creates the network's account once).
AddressStays ==
  \A k \in bound(ui.chains.binds) \cup receiveOptions(ui.chains.binds) :
    ui.chains.binds[k].key = remote.binds[k].key

\* A change of a member, a role, the quorum or the delay undoes another change
\* only when that one was made after this one's rule was read.
LostOnlyConcurrent == ~ghost.lost

\* Whatever is proposed, approved late or done by others with the same pages,
\* the wallet's creator stays an approver (members/page.tsx: "Creator is
\* permanent. Removing them would brick the wallet").
CreatorStays ==
  remote.rule.on => ghost.creator \in remote.rule.apps

\* Nobody whom a current list of members shows as watching, or does not show,
\* can propose or approve.
RolesShown ==
  ui.rule.st = "ok" /\ ui.rule.rule.ver = remote.rule.ver =>
    \A a \in remote.rule.apps \cup remote.rule.props :
      /\ a \in DOMAIN members(ui.rule.rule, disk.watch)
      /\ Row(a) \in {"full", "approver"}

\* A person that was saved, here or in another tab, is shown and kept under the
\* name it was saved with, until it is removed; an entry edited by anything
\* else is never shown and never signed.
ContactsKept ==
  \A a \in Friends :
    /\ ghost.saved[a] # "-" => disk.contacts[a].name = ghost.saved[a] /\ disk.contacts[a].sig # "bad"
    /\ disk.contacts[a].sig # "bad" => disk.contacts[a].name = ghost.saved[a]

\* Once the wallet exists, each signer of the last import is an approver or
\* still listed by the setup checklist.
ImportsKept ==
  remote.wallet => ghost.imported \subseteq remote.rule.apps \cup readPendingTeammates(disk, remote.rule)

\* A setup whose outcome is unknown is not repeated: a wallet has a second
\* spending rule only if it was created again after a setup that was done.
OneSetup == remote.rules >= 2 => ghost.again

\* The list of invitations shows as sent, or as withdrawn, what was mailed.
InviteLogTrue ==
  \A a \in Friends :
    /\ disk.invites[a] = "sent" => remote.mail[a] = "invited"
    /\ disk.invites[a] = "revoked" => remote.mail[a] = "withdrawn"

\* Changing the quorum changes nothing else (policy/page.tsx: "It does not
\* remove members or change the timelock").
QuorumOnly == ~ghost.quorum
=============================================================================
