------------------------------ MODULE Policies ------------------------------
(***************************************************************************)
(* The protection pages of the web application: recipients and hours       *)
(* (policy/page.tsx), limits (budget/page.tsx), members' allowances        *)
(* (allowances/page.tsx), checks (policies/, PolicyForm.tsx), and the      *)
(* evaluation a send page shows (usePolicyEvaluation.ts).                  *)
(*                                                                         *)
(* Rules are kept in the browser.  Saving compiles all of them into one    *)
(* policy per target and replaces, one target after the other, the policy  *)
(* whose commitment the wallet holds on chain.  The user moves between     *)
(* pages while a save runs; other tabs and other members change things     *)
(* meanwhile.  How one update is proposed and executed is the subject of   *)
(* Workflows; here it is applied, left waiting, or fails.                  *)
(*                                                                         *)
(*   disk    the rules the browser stores                                  *)
(*   remote  the active policy of each target, the updates that wait       *)
(*   calls   saves, evaluations and the read of the active allowances      *)
(*   ui      the mounted page                                              *)
(*   ghost   history for the properties                                    *)
(***************************************************************************)
EXTENDS Integers, Sequences, FiniteSets, FiniteSetsExt, SequencesExt

CONSTANTS MaxActs,    \* edits, pages opened, saves, changes by other tabs and members
          MaxSaves    \* saves started, of these

VARIABLES disk, remote, calls, ui, ghost

vars == <<disk, remote, calls, ui, ghost>>

-----------------------------------------------------------------------------
(* Targets.  Three stand for the six of the code: the two native coins     *)
(* differ in that members' allowances are in SOL, and USDC is a token of   *)
(* Solana with a policy account of its own.                                *)

Targets == <<"SOL", "USDC", "ETH">>
Tickers == Range(Targets)
chainKind == [SOL |-> "sol", USDC |-> "sol", ETH |-> "eth"]
Chains == {"sol", "eth"}

\* USD per whole coin, and base units per whole coin.
Price == [SOL |-> 2, USDC |-> 1, ETH |-> 3]
Scale == 6

Addresses == {"A", "B"}
Member    == "B"     \* the member an allowance is set for
Hours == 0..2      \* the hours of a day
Days  == 0..1      \* the days of a week

-----------------------------------------------------------------------------
(* What is stored.                                                         *)

NoList   == [mode |-> 0, set |-> {}]
NoWindow == [on |-> FALSE, start |-> 0, end |-> 1, days |-> Days]
OldList  == [mode |-> 1, set |-> {"B"}]
NightWindow == [on |-> TRUE, start |-> 2, end |-> 1, days |-> {0}]
NoBudget == [usd |-> 0, per |-> [t \in Tickers |-> 0], native |-> [t \in Tickers |-> 0],
             count |-> 0]

\* What a check looks at: the chain (asset), the recipient, the least amount, the
\* time.  "any", 0 and "none" stand for a value left blank or a condition not added.
Anyone  == [mode |-> "any", addresses |-> {}]
OnlyA   == [mode |-> "allowlist", addresses |-> {"A"}]
NotA    == [mode |-> "blocklist", addresses |-> {"A"}]
AnyTime == [match |-> "none", start |-> 0, end |-> 0, days |-> {}]
Night   == [match |-> "outside", start |-> 2, end |-> 1, days |-> {0}]
Noon    == [match |-> "inside", start |-> 1, end |-> 2, days |-> {}]

Conditions == {[chain |-> "sol", to |-> Anyone, min |-> 0, when |-> Night],
               [chain |-> "any", to |-> NotA,   min |-> 2, when |-> AnyTime],
               [chain |-> "any", to |-> OnlyA,  min |-> 0, when |-> Noon]}

-----------------------------------------------------------------------------
(* Values of a check are stored sealed: a cell has what is stored in the   *)
(* open, and the payload the Encrypt client returned, if any.  Today a     *)
(* payload holds the bytes it was made from.  A blank value has no bytes.  *)

encryptPolicyBatch(v, blank) ==
  <<[scheme |-> "passthrough-v1", bytes |-> IF v = blank THEN <<>> ELSE <<v>>]>>

decryptPolicy(payload) == payload.bytes

\* Without a payload, or with a blank one, the value in the open counts.
decryptText(cell) ==
  IF cell.sealed = <<>> \/ decryptPolicy(cell.sealed[1]) = <<>> THEN cell.open
  ELSE decryptPolicy(cell.sealed[1])[1]

sealed(v, blank, shell) == [open |-> shell, sealed |-> encryptPolicyBatch(v, blank)]

\* A rule of before: its values are in the open.
inTheOpen(c) ==
  [chain |-> [open |-> c.chain, sealed |-> <<>>],
   to    |-> [mode |-> c.to.mode, open |-> c.to.addresses, sealed |-> {}],
   min   |-> [open |-> c.min, sealed |-> <<>>],
   when  |-> [open |-> c.when, sealed |-> <<>>]]

encryptRecipientAddresses(list) == {encryptPolicyBatch(a, "")[1] : a \in list \ {""}}

\* The kind of a condition and the mode of a list stay in the open.
encryptConditions(c) ==
  [chain |-> sealed(c.chain, "any", "any"),
   to    |-> [mode |-> c.to.mode, open |-> {}, sealed |-> encryptRecipientAddresses(c.to.addresses)],
   min   |-> sealed(c.min, 0, 0),
   when  |-> IF c.when.match = "none" THEN inTheOpen(c).when
             ELSE sealed(c.when, AnyTime, [match |-> "inside", start |-> 0, end |-> 0, days |-> {}])]

\* What a form or an evaluation reads.
decryptConditions(saved) ==
  [chain |-> decryptText(saved.chain),
   to    |-> [mode |-> saved.to.mode,
              addresses |-> LET read == {decryptPolicy(x)[1] : x \in saved.to.sealed}
                            IN IF read = {} THEN saved.to.open ELSE read],
   min   |-> decryptText(saved.min),
   when  |-> decryptText(saved.when)]

opened(saved) ==
  LET c == decryptConditions(saved)
  IN [saved EXCEPT !.chain.open = c.chain, !.to.open = c.to.addresses,
                   !.min.open = c.min, !.when.open = c.when]

\* What is filled in on the form of a check; cool is the wait of a check that
\* asks for one.
Forms ==
  {[prio |-> 1, on |-> TRUE,  act |-> "deny",  cool |-> 0,
    if |-> [chain |-> "sol", to |-> Anyone, min |-> 0, when |-> Night]],
   [prio |-> 2, on |-> TRUE,  act |-> "cooldown", cool |-> 1,
    if |-> [chain |-> "any", to |-> OnlyA, min |-> 0, when |-> Noon]],
   [prio |-> 2, on |-> FALSE, act |-> "deny",  cool |-> 0,
    if |-> [chain |-> "any", to |-> Anyone, min |-> 0, when |-> AnyTime]]}

Rule(id, prio, on, act, cool, stored) ==
  [id |-> id, prio |-> prio, on |-> on, act |-> act, cool |-> cool, if |-> stored]

\* Only a check that asks for a wait stores one.
encryptCooldownSeconds(f) ==
  [open |-> 0, sealed |-> IF f.act = "cooldown" THEN encryptPolicyBatch(f.cool, 0) ELSE <<>>]

decryptCooldownSeconds(r) == IF r.act = "cooldown" THEN decryptText(r.cool) ELSE 0

\* The rule a form holds: opened, its payloads kept.
Opened(r) == [r EXCEPT !.if = opened(@), !.cool.open = decryptCooldownSeconds(r)]

OldRule == Rule(1, 1, TRUE, "deny", [open |-> 0, sealed |-> <<>>],
                inTheOpen([chain |-> "any", to |-> NotA, min |-> 2, when |-> AnyTime]))

Empty == [allow |-> NoList, cap |-> 0, count |-> 0, hours |-> NoWindow, member |-> 0,
          rules |-> <<>>, set |-> FALSE]

NoSave == [step |-> "none", card |-> "none", live |-> FALSE, plan |-> <<>>, i |-> 0,
           from |-> Empty, waiting |-> FALSE, updated |-> FALSE, id |-> 0, was |-> {},
           cap |-> 0]
NoCandidate == [chain |-> "sol", to |-> "A", amt |-> 0]

-----------------------------------------------------------------------------
(* Recipients and hours.                                                   *)

Passes(p, r) ==
  CASE p.mode = 0 -> TRUE
    [] p.mode = 1 -> r \in p.set
    [] OTHER      -> r \notin p.set

mergeRecipientPolicy(p, q) ==
  CASE p.mode = 0                -> q
    [] q.mode = 0                -> p
    [] p.mode = 1 /\ q.mode = 1  -> [mode |-> 1, set |-> p.set \cap q.set]
    [] p.mode = 2 /\ q.mode = 2  -> [mode |-> 2, set |-> p.set \cup q.set]
    [] p.mode = 1 /\ q.mode = 2  -> [mode |-> 1, set |-> p.set \ q.set]
    [] p.mode = 2 /\ q.mode = 1  -> [mode |-> 1, set |-> q.set \ p.set]

\* The hours the page shows as allowed now.
isInsideTimeWindow(w, day, hour) ==
  w.on =>
    /\ day \in w.days
    /\ IF w.start < w.end THEN hour >= w.start /\ hour < w.end
       ELSE w.start > w.end /\ (hour >= w.start \/ hour < w.end)

\* What the Solana page objects to before it sends: the recipient, the hour,
\* the recipient's allowance, the dollars of the week on top of those spent.
objection(v, holds) == IF holds THEN {v} ELSE {}

evaluatePolicy(d, to, day, hour, sol, spent) ==
  LET usd == sol * Price["SOL"]
      over(cap) == cap > 0 /\ spent + usd > cap
  IN objection("recipient", ~Passes(d.allow["sol"], to))
       \cup objection("hours", ~isInsideTimeWindow(d.hours, day, hour))
       \cup objection("allowance", to = Member /\ d.member > 0 /\ sol > d.member)
       \cup objection("weekly", over(d.budget.usd))
       \cup objection("chain", over(d.budget.per["SOL"]))

\* No day allowed is encoded as no hour: on chain an empty set of days means
\* every day.
allowedTimeWindow(w) ==
  IF w.on THEN [w EXCEPT !.end = IF w.days = {} THEN w.start ELSE @] ELSE NoWindow

\* The clock the program compares with.
allows_timestamp(w, day, hour) ==
  w.on =>
    /\ w.days = {} \/ day \in w.days
    /\ \/ w.start < w.end /\ hour >= w.start /\ hour < w.end
       \/ w.start > w.end /\ (hour >= w.start \/ hour < w.end)

-----------------------------------------------------------------------------
(* Limits.                                                                 *)

deriveNativeWeeklyCaps(usd, per) ==
  [t \in Tickers |->
     LET candidates == {x \in {usd, per[t]} : x > 0}
     IN IF candidates = {} THEN 0 ELSE (Min(candidates) * Scale) \div Price[t]]

saveBudget(d, usd, per, count) ==
  [d EXCEPT !.budget = [usd |-> usd, per |-> per,
                        native |-> deriveNativeWeeklyCaps(usd, per), count |-> count]]

-----------------------------------------------------------------------------
(* Checks.                                                                 *)

\* The most important first, then the oldest.
listPolicies(rules) ==
  SetToSortSeq(rules, LAMBDA a, b : a.prio > b.prio \/ (a.prio = b.prio /\ a.id < b.id))

savePolicy(rules, r) == {x \in rules : x.id # r.id} \cup {r}
removePolicy(rules, id) == {x \in rules : x.id # id}

matchAsset(c, cand) == c.chain = "any" \/ c.chain = cand.chain
matchRecipient(c, cand) ==
  CASE c.to.mode = "any"       -> TRUE
    [] c.to.mode = "allowlist" -> cand.to \in c.to.addresses
    [] OTHER                   -> cand.to \notin c.to.addresses
matchAmount(c, cand) == cand.amt >= c.min

\* No day chosen means every day; the hours wrap, and none is between equal hours.
matchTimeWindow(w, day, hour) ==
  IF w.match = "none" THEN TRUE
  ELSE IF w.days # {} /\ day \notin w.days THEN w.match = "outside"
  ELSE LET inside == IF w.start <= w.end THEN hour >= w.start /\ hour < w.end
                     ELSE hour >= w.start \/ hour < w.end
       IN IF w.match = "inside" THEN inside ELSE ~inside

NoEffect == [act |-> "none", cool |-> 0]

FirstEffect(hits) ==
  IF hits = <<>> THEN NoEffect ELSE [act |-> Head(hits).act, cool |-> Head(hits).cool]

\* The rules as they read, whatever is sealed of them.
read(r) == [r EXCEPT !.if = decryptConditions(@), !.cool = decryptCooldownSeconds(r)]

readAll(list) == [i \in DOMAIN list |-> read(list[i])]

\* The first check, as it reads, that holds of the payment at that time.
evaluateFirstMatch(list, cand, day, hour) ==
  FirstEffect(SelectSeq(list, LAMBDA r : /\ r.on
                                         /\ matchAsset(r.if, cand)
                                         /\ matchRecipient(r.if, cand)
                                         /\ matchAmount(r.if, cand)
                                         /\ matchTimeWindow(r.if.when, day, hour)))

ruleAppliesToTarget(c, t) == c.chain = "any" \/ c.chain = chainKind[t]

\* The condition on the chain is not encoded.
encodeRule(r) == [act |-> r.act, cool |-> r.cool,
                  to |-> r.if.to, min |-> r.if.min, when |-> r.if.when]

\* The checks of one target.
compileAdvancedPolicyRules(rules, t) ==
  LET kept == SelectSeq(readAll(listPolicies(rules)),
                        LAMBDA r : r.on /\ ruleAppliesToTarget(r.if, t))
  IN [k \in 1..Len(kept) |-> encodeRule(kept[k])]

time_matches(w, day, hour) ==
  LET hour_inside == \/ w.start < w.end /\ hour >= w.start /\ hour < w.end
                     \/ w.start > w.end /\ (hour >= w.start \/ hour < w.end)
      inside == (w.days = {} \/ day \in w.days) /\ hour_inside
  IN w.match = "none" \/ (IF w.match = "inside" THEN inside ELSE ~inside)

\* What the program does with them.
evaluate_advanced_rules(compiled, cand, day, hour) ==
  FirstEffect(SelectSeq(compiled, LAMBDA r : /\ matchRecipient(r, cand)
                                             /\ matchAmount(r, cand)
                                             /\ time_matches(r.when, day, hour)))

-----------------------------------------------------------------------------
(* The policy of a target, compiled from everything stored.                *)

loadMemberAllowancesForChain(d, t) == IF t = "SOL" THEN d.member ELSE 0

personalPlanForTarget(d, t) ==
  [allow  |-> d.allow[chainKind[t]],
   cap    |-> d.budget.native[t],
   count  |-> d.budget.count,
   hours  |-> allowedTimeWindow(d.hours),
   member |-> loadMemberAllowancesForChain(d, t),
   rules  |-> IF t = "USDC" THEN <<>> ELSE compileAdvancedPolicyRules(d.rules, t)]

\* A native coin without any rule has no policy; a token always has one.
encodeForTarget(plan, t) ==
  [allow |-> plan.allow, cap |-> plan.cap, count |-> plan.count, hours |-> plan.hours,
   member |-> plan.member, rules |-> plan.rules,
   set |-> \/ t = "USDC"
           \/ plan.allow.mode # 0
           \/ plan.cap # 0
           \/ plan.count # 0
           \/ plan.hours.on
           \/ plan.member # 0
           \/ plan.rules # <<>>]

Compiled(d, t) == encodeForTarget(personalPlanForTarget(d, t), t)

buildPersistentPersonalPolicyTargets(d) ==
  [i \in 1..Len(Targets) |-> Compiled(d, Targets[i])]

-----------------------------------------------------------------------------
\* A page is opened on a wallet without rules, or with some that are on chain;
\* the pages of checks and of members with some, the page of limits with none.
Init ==
  \E p \in {"policy", "budget", "checks", "members", "send"}, known \in BOOLEAN :
    /\ IF p \in {"checks", "members"} THEN known ELSE p = "budget" => ~known
    /\ disk = [allow  |-> [c \in Chains |-> IF known /\ p \in {"checks", "send"} THEN OldList
                                           ELSE NoList],
               hours  |-> IF known /\ p = "policy" THEN NightWindow ELSE NoWindow,
               budget |-> NoBudget,
               member |-> IF known /\ p = "members" THEN 1 ELSE 0,
               rules  |-> IF known /\ p \in {"checks", "send"} THEN {OldRule} ELSE {}]
    /\ remote = [active |-> [t \in Tickers |-> IF known THEN Compiled(disk, t) ELSE Empty],
                 pending |-> {}]
    /\ calls = [saves |-> [k \in 1..MaxSaves |-> NoSave], caps |-> -1, evals |-> {}]
    /\ ui = [page |-> p, list |-> disk.allow["sol"], chain |-> "sol", window |-> disk.hours,
             dirty |-> {}, known |-> -1, form |-> {}, cand |-> NoCandidate, eval |-> "none"]
    /\ ghost = [acts |-> 0, saves |-> 0, before |-> {},
                alone |-> TRUE, evalOf |-> NoCandidate]

-----------------------------------------------------------------------------
(* Editing, and the stores that follow at once.                            *)

Acting == ghost.acts < MaxActs

Edited == /\ Acting
          /\ ghost' = [ghost EXCEPT !.acts = @ + 1, !.before = {}]

\* Cards write their own copy, taken when the page was opened.
saveAllowlist(list) ==
  /\ ui.page = "policy"
  /\ Edited
  /\ ui' = [ui EXCEPT !.list = list, !.dirty = @ \cup {"recipients"}]
  /\ disk' = [disk EXCEPT !.allow[ui.chain] = list]
  /\ UNCHANGED <<remote, calls>>

setMode == saveAllowlist([ui.list EXCEPT !.mode = 1 - @])

addAddress == \E a \in Addresses \ ui.list.set :
                saveAllowlist([ui.list EXCEPT !.set = @ \cup {a}])

removeAddress == \E a \in ui.list.set : saveAllowlist([ui.list EXCEPT !.set = @ \ {a}])

selectChain ==
  /\ ui.page = "policy"
  /\ \E c \in Chains \ {ui.chain} :
       ui' = [ui EXCEPT !.chain = c, !.list = disk.allow[c]]
  /\ Edited
  /\ UNCHANGED <<disk, remote, calls>>

saveTimeWindow(w) ==
  /\ ui.page = "policy"
  /\ Edited
  /\ ui' = [ui EXCEPT !.window = w, !.dirty = @ \cup {"hours"}]
  /\ disk' = [disk EXCEPT !.hours = w]
  /\ UNCHANGED <<remote, calls>>

setEnabled == saveTimeWindow([ui.window EXCEPT !.on = ~@])

\* Hours and days are offered while the window is on.
setStart == ui.window.on /\ \E h \in Hours \ {ui.window.start} :
              saveTimeWindow([ui.window EXCEPT !.start = h])

setEnd == ui.window.on /\ \E h \in Hours \ {ui.window.end} :
            saveTimeWindow([ui.window EXCEPT !.end = h])

toggleDay == ui.window.on /\ \E d \in Days :
               saveTimeWindow([ui.window EXCEPT
                 !.days = IF d \in @ THEN @ \ {d} ELSE @ \cup {d}])

-----------------------------------------------------------------------------
(* Saving on chain.  A save outlives its page; its page forgets it.        *)

Slot == ghost.saves + 1

running(card) == \E k \in DOMAIN calls.saves :
  calls.saves[k].card = card /\ calls.saves[k].live /\ calls.saves[k].step # "none"

\* The saves whose failure takes back what they stored.
Undone == {"form", "list", "members"}

Readable(d) == [d EXCEPT !.rules = {read(r) : r \in @}]

Unchanged(was) == \A r \in was : \E x \in disk.rules : r \in {x, Opened(x)}

Running == {k \in DOMAIN calls.saves : calls.saves[k].step # "none"}

persistPersonalPolicy(s, d) ==
  /\ Acting /\ Slot <= MaxSaves
  /\ calls' = [calls EXCEPT !.saves[Slot] = [s EXCEPT !.step = "loading", !.live = TRUE]]
  /\ disk' = d
  /\ ghost' = [ghost EXCEPT !.acts = @ + 1, !.saves = @ + 1, !.alone = Running = {},
                            !.before = IF s.card \in Undone /\ Unchanged(s.was) THEN {Readable(disk)} ELSE {}]

syncRecipients ==
  /\ ui.page = "policy" /\ ~running("recipients")
  /\ persistPersonalPolicy([NoSave EXCEPT !.card = "recipients"], disk)
  /\ UNCHANGED <<remote, ui>>

syncHours ==
  /\ ui.page = "policy" /\ ~running("hours")
  /\ persistPersonalPolicy([NoSave EXCEPT !.card = "hours"], disk)
  /\ UNCHANGED <<remote, ui>>

\* The amounts typed are rounded to whole dollars; blank (0) is no cap.
LimitForms == {[usd |-> 2, per |-> [SOL |-> 0, USDC |-> 0, ETH |-> 0], count |-> 0],
               [usd |-> 0, per |-> [SOL |-> 1, USDC |-> 0, ETH |-> 1], count |-> 1],
               [usd |-> 1, per |-> [SOL |-> 0, USDC |-> 2, ETH |-> 2], count |-> 0]}

handleSaveLimits ==
  /\ ui.page = "budget" /\ ~running("limits")
  /\ \E f \in LimitForms :
       persistPersonalPolicy([NoSave EXCEPT !.card = "limits"],
                             saveBudget(disk, f.usd, f.per, f.count))
  /\ UNCHANGED <<remote, ui>>

handleSaveMember ==
  /\ ui.page = "members" /\ ~running("members")
  /\ \E cap \in 1..2 :
       /\ cap # disk.member
       /\ persistPersonalPolicy([NoSave EXCEPT !.card = "members", !.cap = disk.member],
                                [disk EXCEPT !.member = cap])
  /\ UNCHANGED <<remote, ui>>

handleClear ==
  /\ ui.page = "members" /\ ~running("members")
  /\ disk.member # 0
  /\ persistPersonalPolicy([NoSave EXCEPT !.card = "members", !.cap = disk.member],
                           [disk EXCEPT !.member = 0])
  /\ UNCHANGED <<remote, ui>>

\* A check is opened: its form keeps the check as it was read.
EditPolicyPage ==
  /\ ui.page = "checks"
  /\ \E r \in disk.rules : ui' = [ui EXCEPT !.page = "form", !.form = {Opened(r)}]
  /\ UNCHANGED <<disk, remote, calls, ghost>>

NewPolicyPage ==
  /\ ui.page = "checks"
  /\ ui' = [ui EXCEPT !.page = "form", !.form = {}]
  /\ UNCHANGED <<disk, remote, calls, ghost>>

newRuleId(rules) == 1 + Max({0} \cup {r.id : r \in rules \cup ui.form})

handleSubmit ==
  /\ ui.page = "form" /\ ~running("form")
  /\ LET id == IF ui.form = {} THEN newRuleId(disk.rules)
               ELSE (CHOOSE r \in ui.form : TRUE).id
     IN \E f \in Forms :
          persistPersonalPolicy(
            [NoSave EXCEPT !.card = "form", !.id = id, !.was = ui.form],
            [disk EXCEPT !.rules = savePolicy(@, Rule(id, f.prio, f.on, f.act,
                                                      encryptCooldownSeconds(f),
                                                      encryptConditions(f.if)))])
  /\ UNCHANGED <<remote, ui>>

deleteRule ==
  /\ ui.page = "checks"
  /\ \E r \in disk.rules :
       persistPersonalPolicy([NoSave EXCEPT !.card = "list", !.id = r.id, !.was = {r}],
                             [disk EXCEPT !.rules = removePolicy(@, r.id)])
  /\ UNCHANGED <<remote, ui>>

Failed(s) == [s EXCEPT !.step = "failed", !.plan = <<>>, !.i = 0, !.from = Empty,
                       !.waiting = FALSE, !.updated = FALSE]

SetSave(k, s) == calls' = [calls EXCEPT !.saves[k] = s]

\* The wallet and its intents are read, then every target is compiled.
CompileTargets(k) ==
  LET s == calls.saves[k]
  IN /\ s.step = "loading"
     /\ \/ SetSave(k, [s EXCEPT !.step = "reading", !.i = 1,
                                !.plan = buildPersistentPersonalPolicyTargets(disk)])
        \/ SetSave(k, Failed(s))
     /\ UNCHANGED <<disk, remote, ui, ghost>>

NextTarget(s) ==
  IF s.i = Len(Targets) THEN [s EXCEPT !.step = "done", !.from = Empty]
  ELSE [s EXCEPT !.step = "reading", !.i = @ + 1, !.from = Empty]

\* Fault variant: a target without rules is passed over.
skipWithoutRules(s, current) == s.plan[s.i] = current \/ ~s.plan[s.i].set

alreadyActive(s, current) == s.plan[s.i] = current

ReadCommitment(k) ==
  LET s == calls.saves[k]
      current == remote.active[Targets[s.i]]
  IN /\ s.step = "reading"
     /\ IF alreadyActive(s, current) THEN SetSave(k, NextTarget(s))
        ELSE \/ SetSave(k, [s EXCEPT !.step = "proposing", !.from = current])
             \/ SetSave(k, Failed(s))
     /\ UNCHANGED <<disk, remote, ui, ghost>>

\* One target: applied if the policy it replaces is still active, left for
\* other members to approve, or failed, with the update applied or not.
persistOne(k) ==
  LET s == calls.saves[k]
      t == Targets[s.i]
      applied == [remote EXCEPT !.active[t] = s.plan[s.i]]
  IN /\ s.step = "proposing"
     /\ \/ /\ remote.active[t] = s.from
           /\ remote' = applied
           /\ SetSave(k, NextTarget([s EXCEPT !.updated = TRUE]))
        \/ /\ remote' = [remote EXCEPT !.pending =
                           @ \cup {[t |-> t, from |-> s.from, to |-> s.plan[s.i]]}]
           /\ SetSave(k, NextTarget([s EXCEPT !.waiting = TRUE]))
        \/ /\ remote.active[t] = s.from
           /\ remote' = applied
           /\ SetSave(k, Failed(s))
        \/ /\ SetSave(k, Failed(s))
           /\ UNCHANGED remote
     /\ UNCHANGED <<disk, ui, ghost>>

-----------------------------------------------------------------------------
(* What a page does once its save has ended.                               *)

\* Opening a page reads the stores again; the allowances page also writes
\* back the active allowances if it has them cached.
Mounted(u, d, page) ==
  [u EXCEPT !.page = page, !.chain = "sol", !.list = d.allow["sol"], !.window = d.hours,
            !.dirty = {}, !.form = {}, !.eval = "none", !.cand = NoCandidate]

Unmounted(c) ==
  [c EXCEPT !.saves = [k \in DOMAIN c.saves |-> [c.saves[k] EXCEPT !.live = FALSE]],
            !.evals = {}]

Cached(d, page) == IF page = "members" /\ ui.known # -1 THEN [d EXCEPT !.member = ui.known] ELSE d

Open ==
  /\ Edited
  /\ \E p \in {"policy", "budget", "checks", "members", "send"} \ {ui.page} :
       /\ ui' = Mounted(ui, disk, p)
       /\ disk' = Cached(disk, p)
  /\ calls' = Unmounted(calls)
  /\ UNCHANGED remote

undoMember(d, s) == [d EXCEPT !.member = s.cap]

undoRule(d, s) ==
  [d EXCEPT !.rules = IF s.was = {} THEN removePolicy(@, s.id)
                      ELSE savePolicy(@, CHOOSE r \in s.was : TRUE)]

\* Recipients, hours and limits stay as edited ("saved locally").
SaveFailed(k) ==
  LET s == calls.saves[k]
  IN /\ s.step = "failed"
     /\ disk' = CASE s.card = "members"         -> undoMember(disk, s)
                  [] s.card \in {"form", "list"} -> undoRule(disk, s)
                  [] OTHER                       -> disk
     /\ calls' = [calls EXCEPT !.saves[k] = NoSave]
     /\ ghost' = [ghost EXCEPT !.before = {}]
     /\ UNCHANGED <<remote, ui>>

SaveDone(k) ==
  LET s == calls.saves[k]
      ended == [calls EXCEPT !.saves[k] = NoSave]
  IN /\ s.step = "done"
     /\ CASE s.card \in {"recipients", "hours"} ->
               /\ ui' = [ui EXCEPT !.dirty = IF s.live THEN @ \ {s.card} ELSE @]
               /\ calls' = ended
          [] s.card = "limits" ->
               ui' = Mounted(ui, disk, "home") /\ calls' = Unmounted(ended)
          [] s.card = "form" ->
               ui' = Mounted(ui, disk, "checks") /\ calls' = Unmounted(ended)
          [] s.card = "members" ->
               /\ ui' = IF s.updated THEN [ui EXCEPT !.known = -1] ELSE ui
               /\ calls' = ended
          [] OTHER -> UNCHANGED ui /\ calls' = ended
     /\ ghost' = [ghost EXCEPT !.before = {}]
     /\ UNCHANGED <<disk, remote>>

-----------------------------------------------------------------------------
(* The allowances page reads the active policy, and writes what it says    *)
(* over the allowances stored.                                             *)

activeAllowancesQuery ==
  /\ ui.page = "members" /\ ui.known = -1 /\ calls.caps = -1
  /\ calls' = [calls EXCEPT !.caps = remote.active["SOL"].member]
  /\ UNCHANGED <<disk, remote, ui, ghost>>

ActiveAllowances ==
  /\ calls.caps # -1
  /\ calls' = [calls EXCEPT !.caps = -1]
  /\ ui' = [ui EXCEPT !.known = calls.caps]
  /\ disk' = IF ui.page = "members" THEN [disk EXCEPT !.member = calls.caps] ELSE disk
  /\ ghost' = [ghost EXCEPT !.before = {}]
  /\ UNCHANGED remote

-----------------------------------------------------------------------------
(* A send page shows what the checks say of the payment typed.             *)

Run(cand, rules) == [cand |-> cand, rules |-> listPolicies(rules), cancelled |-> FALSE]

cancelRuns(evals) == {[e EXCEPT !.cancelled = TRUE] : e \in evals}

setCandidate ==
  /\ ui.page = "send"
  /\ Acting
  /\ \E c \in Chains, a \in Addresses, n \in 1..2 :
       LET cand == [chain |-> c, to |-> a, amt |-> n]
       IN /\ cand # ui.cand
          /\ ui' = [ui EXCEPT !.cand = cand]
          /\ calls' = [calls EXCEPT !.evals = cancelRuns(@) \cup {Run(cand, disk.rules)}]
  /\ ghost' = [ghost EXCEPT !.acts = @ + 1]
  /\ UNCHANGED <<disk, remote>>

usePolicyEvaluation ==
  \E e \in calls.evals :
    /\ calls' = [calls EXCEPT !.evals = @ \ {e}]
    /\ IF e.cancelled THEN UNCHANGED <<ui, ghost>>
       ELSE /\ \E day \in Days, hour \in Hours :
                 ui' = [ui EXCEPT !.eval = evaluateFirstMatch(readAll(e.rules), e.cand, day, hour).act]
            /\ ghost' = [ghost EXCEPT !.evalOf = e.cand]
    /\ UNCHANGED <<disk, remote>>

-----------------------------------------------------------------------------
(* Other tabs and other members.                                           *)

\* Every page with the list of checks, and every evaluation, hears of it.
AnotherTab ==
  /\ Acting
  /\ \E c \in Conditions :
       LET act == IF c.to = OnlyA THEN "allow" ELSE "deny"
           rules == savePolicy(disk.rules, Rule(9, 1, TRUE, act, [open |-> 0, sealed |-> <<>>],
                                                encryptConditions(c)))
       IN /\ disk' = [disk EXCEPT !.rules = rules]
          /\ calls' = IF ui.page = "send" /\ ui.cand # NoCandidate
                      THEN [calls EXCEPT !.evals = @ \cup {Run(ui.cand, rules)}]
                      ELSE calls
  /\ ghost' = [ghost EXCEPT !.acts = @ + 1, !.before = {}]
  /\ UNCHANGED <<remote, ui>>

AnotherMember ==
  /\ Acting
  /\ \E t \in Tickers :
       LET other == [Empty EXCEPT !.count = 1, !.set = TRUE]
       IN /\ remote.active[t] # other
          /\ remote' = [remote EXCEPT !.active[t] = other]
  /\ ghost' = [ghost EXCEPT !.acts = @ + 1, !.alone = FALSE]
  /\ UNCHANGED <<disk, calls, ui>>

\* An update that waited is approved and executed, if it still replaces what
\* it was drafted against.
WaitingUpdateExecutes ==
  /\ Acting
  /\ \E p \in remote.pending :
       /\ remote.active[p.t] = p.from
       /\ remote' = [remote EXCEPT !.active[p.t] = p.to, !.pending = @ \ {p}]
  /\ ghost' = [ghost EXCEPT !.acts = @ + 1, !.alone = FALSE]
  /\ UNCHANGED <<disk, calls, ui>>

-----------------------------------------------------------------------------
Edit == \/ setMode \/ addAddress \/ removeAddress \/ selectChain
        \/ setEnabled \/ setStart \/ setEnd \/ toggleDay
        \/ EditPolicyPage \/ NewPolicyPage \/ setCandidate \/ Open

Save == \/ syncRecipients \/ syncHours \/ handleSaveLimits \/ handleSaveMember
        \/ handleClear \/ handleSubmit \/ deleteRule

Progress == \E k \in 1..MaxSaves :
  \/ CompileTargets(k)
  \/ ReadCommitment(k)
  \/ persistOne(k)
  \/ SaveFailed(k)
  \/ SaveDone(k)

Answer == activeAllowancesQuery \/ ActiveAllowances \/ usePolicyEvaluation

Others == AnotherTab \/ AnotherMember \/ WaitingUpdateExecutes

Next == Edit \/ Save \/ Progress \/ Answer \/ Others

Spec == Init /\ [][Next]_vars

-----------------------------------------------------------------------------
(* Properties.                                                             *)

\* Every store, draft and call holds a value of its kind; a save under way has
\* a plan for each target it is about to read or to propose.
TypeOK ==
  /\ \A c \in Chains : disk.allow[c].mode \in 0..1 /\ disk.allow[c].set \subseteq Addresses
  /\ disk.hours.start \in Hours /\ disk.hours.end \in Hours /\ disk.hours.days \subseteq Days
  /\ disk.member \in 0..2
  /\ \A a, b \in disk.rules : a.id = b.id => a = b
  /\ ui.page \in {"policy", "budget", "checks", "members", "send", "form", "home"}
  /\ calls.caps \in -1..2 /\ ui.known \in -1..2
  /\ \A k \in DOMAIN calls.saves :
       calls.saves[k].step \in {"reading", "proposing"} =>
         calls.saves[k].i \in 1..Len(Targets) /\ Len(calls.saves[k].plan) = Len(Targets)

\* A save that says everything is on chain, with no other save or member at
\* work, has left every target with the policy compiled for it.
SavedMeansActive ==
  \A k \in Running :
    LET s == calls.saves[k]
    IN (s.step = "done" /\ ~s.waiting /\ ghost.alone /\ Running = {k})
         => \A i \in 1..Len(Targets) : remote.active[Targets[i]] = s.plan[i]

\* A failed save of a check, of a removal or of a member's limit leaves the
\* browser with what it stored before, when nothing else changed it meanwhile.
FailureRestores ==
     \A k \in DOMAIN calls.saves :
       (/\ calls.saves[k].step = "failed" /\ calls'.saves[k].step = "none"
        /\ k = ghost.saves)
         => ghost.before \subseteq {Readable(disk)'}

\* A recipient and a time the page would let through are those the program
\* lets through once the stored rules are its policy, and no others; and a
\* first payment of the week that the page lets through is within the cap.
PageAgreesWithChain ==
  LET policy == Compiled(disk, "SOL")
  IN \A a \in Addresses, d \in Days, h \in Hours :
       LET objections == evaluatePolicy(disk, a, d, h, 1, 0)
       IN /\ (objections \cap {"recipient", "hours"} = {})
               <=> (Passes(policy.allow, a) /\ allows_timestamp(policy.hours, d, h))
          /\ policy.cap > 0 /\ policy.cap < Scale => objections # {}

\* The check that a send page says applies to a payment is the one the program
\* applies, on every chain.
ChecksAgreeWithChain ==
  ui.page = "send" => \A t \in {"SOL", "ETH"} :
    LET list == readAll(listPolicies(disk.rules))
        compiled == compileAdvancedPolicyRules(disk.rules, t)
    IN \A a \in Addresses, n \in 1..2, day \in Days, hour \in Hours :
         LET cand == [chain |-> chainKind[t], to |-> a, amt |-> n]
         IN evaluateFirstMatch(list, cand, day, hour)
              = evaluate_advanced_rules(compiled, cand, day, hour)

\* A check reads as it was filled in, when it is opened again and after it was
\* opened and filled in anew.
ReadsAsTyped ==
  ui.page = "form" => \A c \in Conditions :
    LET saved == encryptConditions(c)
    IN /\ decryptConditions(saved) = c
       /\ decryptConditions(opened(saved)) = c
       /\ \A old \in {inTheOpen(c), opened(saved)} :
            decryptConditions(encryptConditions(decryptConditions(old))) = c

\* A token payment's policy lets a recipient through only if both the list of
\* the wallet and the condition of the check that matched do.
BothListsHold ==
  \A r \in disk.rules, a \in Addresses :
    LET to == decryptConditions(r.if).to
        condition == CASE to.mode = "any"       -> NoList
                       [] to.mode = "allowlist" -> [mode |-> 1, set |-> to.addresses]
                       [] OTHER                 -> [mode |-> 2, set |-> to.addresses]
        guard == disk.allow["eth"]
    IN Passes(mergeRecipientPolicy(guard, condition), a)
         <=> Passes(guard, a) /\ Passes(condition, a)

\* The weekly cap of a coin never lets out more dollars than the cap of the
\* wallet or of the chain, and no cap that was entered is lost in conversion.
CapsHold ==
  \A t \in Tickers : \A usd \in {disk.budget.usd, disk.budget.per[t]} :
    usd > 0 => /\ disk.budget.native[t] > 0
               /\ disk.budget.native[t] * Price[t] <= usd * Scale

\* Once no evaluation is under way, the one shown is of the payment typed.
EvaluationIsCurrent ==
  (ui.page = "send" /\ calls.evals = {} /\ ui.cand # NoCandidate) => ghost.evalOf = ui.cand
=============================================================================
