------------------------------ MODULE Notices ------------------------------
(***************************************************************************)
(* How people hear of what waits for them (apps/web), in three parts of    *)
(* which a behaviour shows one, named by ui.part:                          *)
(*                                                                         *)
(*   "feed"   two tabs of one person turn what they poll from the chain    *)
(*            into entries of the server's feed, announce the entries the  *)
(*            server says are new, and mark entries read                   *)
(*            (useActionNotifications.ts, lib/notifications).              *)
(*   "mail"   the e-mail, reminder and webhook preferences the browser     *)
(*            keeps: settings rows of two tabs write them, and so does     *)
(*            every e-mail or reminder that was sent.                      *)
(*   "limit"  the limiter the routes share: a bucket in each server        *)
(*            instance and, when configured, a counter in Redis            *)
(*            (lib/api/rateLimit.ts).                                      *)
(*                                                                         *)
(* disk is what a browser (or a server instance) keeps, remote what is     *)
(* shared, calls the requests under way, ui the tabs and the clock.        *)
(***************************************************************************)
EXTENDS Integers, Sequences, FiniteSets, FiniteSetsExt, SequencesExt

CONSTANTS MaxFeedActs,     \* steps of people and of the chain, part "feed"
          MaxMailActs,     \* the same for the preferences
          MaxNoticeCalls,  \* requests under way at a time
          MaxEntries,      \* entries the feed keeps
          MaxClock,        \* the last moment of a behaviour
          MaxHits          \* requests to a limited route

VARIABLES disk, remote, calls, ui, ghost

vars == <<disk, remote, calls, ui, ghost>>

Tabs == {1, 2}
Reader == 1                \* the tab whose feed is looked at
Proposals == {1, 2}
Roles == {1, 2}
Throttle == 2              \* half minutes between two e-mails
ReminderInterval == 2      \* half minutes between two reminders
Never == -1                \* no lastSentAt
Addresses == {1, 2}        \* 0: none saved

Spent(n) == ui.acts < n
Acted == [ui EXCEPT !.acts = @ + 1]
Add(j) == Cardinality(calls) < MaxNoticeCalls /\ calls' = calls \cup {j}
Step(j, k) == calls' = (calls \ {j}) \cup {k}
End(j) == calls' = calls \ {j}

-----------------------------------------------------------------------------
(* The feed.                                                               *)

Feed == ui.part = "feed"
FeedAct == Feed /\ Spent(MaxFeedActs)

\* A proposal is active, and I am an approver whose bit is not set.  While
\* the intent is not loaded every active proposal counts.
needsMe(p) == remote.prop[p] = "active" /\ (ui.intents => ~remote.voted[p])

Needed(p) == <<"needed", p>>
Created(p) == <<"created", p>>
RoleId(r) == <<"role", r>>
Ids == {"needed", "created"} \X Proposals \cup {"role"} \X Roles

At(id) == IF id[1] = "role" THEN remote.clock ELSE remote.at[id[2]]
inFeed(id) == \E e \in remote.feed : e.id = id

\* Events of the wallets this person is a member of.
Propose(p) ==
  /\ FeedAct /\ remote.prop[p] = "none"
  /\ remote' = [remote EXCEPT !.prop[p] = "active", !.clock = @ + 1, !.at[p] = remote.clock + 1]
  /\ ui' = Acted /\ UNCHANGED <<disk, calls, ghost>>

Answer(p) ==
  /\ FeedAct /\ remote.prop[p] = "active"
  /\ \/ ~remote.voted[p] /\ remote' = [remote EXCEPT !.voted[p] = TRUE]
     \/ remote' = [remote EXCEPT !.prop[p] = "done"]
  /\ ui' = Acted /\ UNCHANGED <<disk, calls, ghost>>

ChangeRole(r) ==
  /\ FeedAct /\ remote.role # r
  /\ remote' = [remote EXCEPT !.role = r, !.clock = @ + 1]
  /\ ui' = Acted /\ UNCHANGED <<disk, calls, ghost>>

LoadIntents ==
  /\ FeedAct /\ ~ui.intents /\ ui' = [Acted EXCEPT !.intents = TRUE]
  /\ UNCHANGED <<disk, remote, calls, ghost>>

\* The entries an effect syncs, oldest request first.
entriesOf(kind, t, rows) ==
  CASE kind = "needed" -> SetToSortSeq({Needed(p) : p \in rows}, LAMBDA a, b : At(a) < At(b))
    [] kind = "created" ->
         SetToSortSeq({Created(p) : p \in {q \in Proposals : remote.prop[q] = "active"}},
                      LAMBDA a, b : At(a) < At(b))
    [] kind = "role" -> <<RoleId(remote.role)>>

syncJob(t, kind, ids) ==
  [kind |-> kind, tab |-> t, todo |-> ids, fresh |-> <<>>, at |-> "sent", live |-> TRUE]

\* New rows: what an earlier sync brings back is ignored.
cancelled(t) ==
  {IF j.kind = "needed" /\ j.tab = t THEN [j EXCEPT !.live = FALSE] ELSE j : j \in calls}

\* A poll of the chain.  Only rows that changed are synced.
useActionNeeded(t) ==
  LET rows == {p \in Proposals : needsMe(p)}
      ids == entriesOf("needed", t, rows)
  IN /\ Feed /\ rows # ui.tab[t].rows
     /\ ui' = [ui EXCEPT !.tab[t].rows = rows]
     /\ IF ids = <<>> THEN calls' = cancelled(t)
        ELSE /\ Cardinality(calls) < MaxNoticeCalls
             /\ calls' = cancelled(t) \cup {syncJob(t, "needed", ids)}
     /\ UNCHANGED <<disk, remote, ghost>>

\* The effects for the activity and for the memberships.
SyncOther(t, kind) ==
  LET ids == entriesOf(kind, t, {})
  IN /\ FeedAct /\ t = Reader /\ kind \in {"created", "role"} /\ ids # <<>>
     /\ Add(syncJob(t, kind, ids)) /\ ui' = Acted
     /\ UNCHANGED <<disk, remote, ghost>>

\* Above the limit the oldest goes; entries of one moment in any order.
trim(feed) ==
  IF Cardinality(feed) <= MaxEntries THEN {feed}
  ELSE {feed \ {e} : e \in {f \in feed : \A g \in feed : g.at >= f.at}}

\* One script stores an entry and trims.
storeEntry(all) ==
  \E feed \in trim(all) :
    LET out == all \ feed
    IN /\ remote' = [remote EXCEPT !.feed = feed]
       /\ ghost' = [ghost EXCEPT
            !.gone = @ \cup {[id |-> e.id, at |-> e.at] : e \in out},
            !.left = [p \in Proposals |-> IF \E e \in out : e.id = Needed(p) THEN @[p] + 1 ELSE @[p]]]

entry(id) == [id |-> id, at |-> At(id), seen |-> FALSE]
stored(j) == [j EXCEPT !.todo = Tail(@), !.fresh = Append(@, Head(j.todo))]
known(j) == [j EXCEPT !.todo = Tail(@)]

\* Fault variant: an entry the feed has counts as news.
ingestNews(j, id) ==
  /\ Step(j, stored(j))
  /\ IF inFeed(id) THEN UNCHANGED <<remote, ghost>> ELSE storeEntry(remote.feed \cup {entry(id)})
\* An entry the feed has is left alone and is not news.
ingest(j, id) ==
  IF inFeed(id) THEN Step(j, known(j)) /\ UNCHANGED <<remote, ghost>>
  ELSE Step(j, stored(j)) /\ storeEntry(remote.feed \cup {entry(id)})

ingestServerNotifications(j) ==
  /\ Feed /\ j.kind \in {"needed", "created", "role"} /\ j.at = "sent" /\ j.todo # <<>>
  /\ ingest(j, Head(j.todo)) /\ UNCHANGED <<disk, ui>>

\* A reply the tab awaits: the feed is fetched again, in place of a fetch
\* under way.
notifyChanged(t) == [ui EXCEPT !.tab[t].due = t = Reader]
withoutFetch(t, js) == {k \in js : ~(k.kind = "fetch" /\ k.tab = t)}

\* Signed out, over the limit, or the store fails between two entries: the
\* reply is an error and what was stored before it is announced by nobody.  A
\* mark that was refused has the feed fetched again.
notificationError(j) ==
  /\ Feed /\ j.kind \in {"needed", "created", "role", "read", "readAll"} /\ j.at = "sent"
  /\ IF j.kind \in {"read", "readAll"}
     THEN calls' = withoutFetch(j.tab, calls \ {j}) /\ ui' = notifyChanged(j.tab)
     ELSE End(j) /\ ui' = ui
  /\ UNCHANGED <<disk, remote, ghost>>

\* At most three of the new rows, if the rows are still the ones synced.
fired(j) ==
  IF j.kind = "needed" /\ j.live
  THEN {p \in Proposals : \E i \in 1..Len(j.fresh) : i <= 3 /\ j.fresh[i] = Needed(p)}
  ELSE {}

syncNotificationEvents(j) ==
  /\ Feed /\ j.kind \in {"needed", "created", "role"} /\ j.at = "sent" /\ j.todo = <<>>
  /\ calls' = withoutFetch(j.tab, calls \ {j})
  /\ ui' = notifyChanged(j.tab)
  /\ ghost' = [ghost EXCEPT
       !.told = [p \in Proposals |-> IF p \in fired(j) THEN @[p] + 1 ELSE @[p]],
       !.late = @ \cup (fired(j) \ ui.tab[j.tab].rows)]
  /\ UNCHANGED <<disk, remote>>

\* The feed a tab shows: fetched when due, and every 30 seconds.
useNotificationFeed(t) ==
  /\ Feed /\ t = Reader /\ ~\E k \in calls : k.kind = "fetch" /\ k.tab = t
  /\ ui.tab[t].due \/ (Spent(MaxFeedActs) /\ {[id |-> e.id, seen |-> e.seen] : e \in remote.feed} # ui.tab[t].view)
  /\ Add([kind |-> "fetch", tab |-> t, at |-> "sent", rows |-> {}])
  /\ ui' = [ui EXCEPT !.tab[t].due = FALSE, !.acts = IF ui.tab[t].due THEN @ ELSE @ + 1]
  /\ UNCHANGED <<disk, remote, ghost>>

listServerNotifications(j) ==
  /\ Feed /\ j.kind = "fetch" /\ j.at = "sent"
  /\ Step(j, [j EXCEPT !.at = "done",
                       !.rows = {[id |-> e.id, seen |-> e.seen] : e \in remote.feed}])
  /\ UNCHANGED <<disk, remote, ui, ghost>>

fetchNotificationFeed(j) ==
  /\ Feed /\ j.kind = "fetch"
  /\ \/ j.at = "done" /\ ui' = [ui EXCEPT !.tab[j.tab].view = j.rows] /\ UNCHANGED ghost
     \/ j.at = "sent" /\ ui' = ui                     \* the fetch failed
        /\ ghost' = [ghost EXCEPT !.blind = @ \cup {j.tab}]
  /\ End(j) /\ UNCHANGED <<disk, remote>>

readView(t, ids) ==
  {IF r.id \in ids THEN [r EXCEPT !.seen = TRUE] ELSE r : r \in ui.tab[t].view}

\* Reading an entry, or all of them, shows at once and is then sent.
markSeen(t, id) ==
  /\ FeedAct /\ [id |-> id, seen |-> FALSE] \in ui.tab[t].view
  /\ Add([kind |-> "read", tab |-> t, at |-> "sent", ids |-> {id}])
  /\ ui' = [Acted EXCEPT !.tab[t].view = readView(t, {id})]
  /\ UNCHANGED <<disk, remote, ghost>>

markAllSeen(t) ==
  /\ FeedAct /\ \E r \in ui.tab[t].view : ~r.seen
  /\ Add([kind |-> "readAll", tab |-> t, at |-> "sent", ids |-> Ids])
  /\ ui' = [Acted EXCEPT !.tab[t].view = readView(t, Ids)]
  /\ UNCHANGED <<disk, remote, ghost>>

markServerNotificationSeen(j) ==
  /\ Feed /\ j.kind \in {"read", "readAll"} /\ j.at = "sent"
  /\ remote' = [remote EXCEPT !.feed =
       {IF e.id \in j.ids THEN [e EXCEPT !.seen = TRUE] ELSE e : e \in @}]
  /\ ghost' = [ghost EXCEPT !.read[j.tab] = @ \cup {e.id : e \in {f \in remote.feed : f.id \in j.ids}}]
  /\ Step(j, [j EXCEPT !.at = "done"])
  /\ UNCHANGED <<disk, ui>>

\* Stored: the feed is fetched again.
markServerNotificationRead(j) ==
  /\ Feed /\ j.kind \in {"read", "readAll"} /\ j.at = "done"
  /\ calls' = withoutFetch(j.tab, calls \ {j}) /\ ui' = notifyChanged(j.tab)
  /\ UNCHANGED <<disk, remote, ghost>>

\* A tab loaded again starts with no rows; nobody awaits its replies.
Remount(t) ==
  /\ FeedAct /\ ui' = [Acted EXCEPT !.tab[t] = [rows |-> {}, view |-> {}, due |-> t = Reader]]
  /\ calls' = {j \in calls : j.tab # t} /\ UNCHANGED <<disk, remote, ghost>>

InitFeed ==
  /\ disk = [none |-> TRUE]
  /\ remote = [prop |-> [p \in Proposals |-> "none"], voted |-> [p \in Proposals |-> FALSE],
               at |-> [p \in Proposals |-> 0], role |-> 1, clock |-> 0, feed |-> {}]
  /\ calls = {}
  /\ ui = [part |-> "feed", acts |-> 0, intents |-> FALSE,
           tab |-> [t \in Tabs |-> [rows |-> {}, view |-> {}, due |-> FALSE]]]
  /\ ghost = [told |-> [p \in Proposals |-> 0], left |-> [p \in Proposals |-> 0], gone |-> {},
              late |-> {}, read |-> [t \in Tabs |-> {}], blind |-> {}]

NextFeed ==
  \/ LoadIntents
  \/ \E p \in Proposals : Propose(p) \/ Answer(p)
  \/ \E r \in Roles : ChangeRole(r)
  \/ \E t \in Tabs : \/ useActionNeeded(t) \/ useNotificationFeed(t) \/ markAllSeen(t)
                     \/ Remount(t)
                     \/ \E kind \in {"created", "role"} : SyncOther(t, kind)
                     \/ \E id \in Ids : markSeen(t, id)
  \/ \E j \in calls : \/ ingestServerNotifications(j) \/ notificationError(j)
                      \/ syncNotificationEvents(j)
                      \/ listServerNotifications(j) \/ fetchNotificationFeed(j)
                      \/ markServerNotificationSeen(j) \/ markServerNotificationRead(j)

-----------------------------------------------------------------------------
(* The preferences.  One record serves the three kinds: "mail" (to: the    *)
(* address, last: lastSentAt), "rem" (last: lastReminderAt) and "hook"     *)
(* (to: the URL, pending: new approvals are among its events).             *)

Mail == ui.part = "mail"
MailAct == Mail /\ Spent(MaxMailActs)
Kinds == {"mail", "rem", "hook"}
About(k) == MailAct /\ ui.about = k   \* a behaviour is about one kind, the others stay off
Prefs == [on : BOOLEAN, to : 0..2, last : {Never} \cup 0..MaxClock, pending : BOOLEAN]

emptyPrefs == [on |-> FALSE, to |-> 0, last |-> Never, pending |-> TRUE]

\* The settings rows read the preferences once, when they mount.
OpenSettings(t) ==
  /\ MailAct /\ t = Reader /\ ui.tab[t].copy # disk
  /\ ui' = [Acted EXCEPT !.tab[t].copy = disk, !.tab[t].base = ghost.ver]
  /\ UNCHANGED <<disk, remote, calls, ghost>>

\* A row writes its whole copy.  choice: what the person chose by it, if any.
Choice(on, to) == {[on |-> on, to |-> to]}
Save(t, k, prefs, choice) ==
  /\ disk' = [disk EXCEPT ![k] = prefs]
  /\ ui' = [Acted EXCEPT !.tab[t].copy[k] = prefs, !.tab[t].base[k] = ghost.ver[k] + 1]
  /\ ghost' = [ghost EXCEPT
       !.ver[k] = @ + 1,
       !.choice[k] = IF choice = {} THEN @ ELSE CHOOSE c \in choice : TRUE,
       !.excused = IF choice # {} THEN @ \ {k}
                   ELSE IF ui.tab[t].base[k] < ghost.ver[k] THEN @ \cup {k} ELSE @,
       !.loose = @ \/ (k = "mail" /\ prefs.last < disk[k].last)]
  /\ UNCHANGED <<remote, calls>>

\* What each row offers, by the copy it shows.
EmailRow(c) == {"save"} \cup IF c.to = 0 THEN {} ELSE {"toggle", "remove"}
ReminderRow(c) == {"toggle"}
WebhooksRow(c) == {"save"} \cup IF c.to = 0 THEN {} ELSE {"toggle", "remove", "event"}

offers(t, k, what) ==
  LET c == ui.tab[t].copy[k]
  IN /\ About(k)
     /\ what \in CASE k = "mail" -> EmailRow(c) [] k = "rem" -> ReminderRow(c) [] k = "hook" -> WebhooksRow(c)

setEnabled(t, k) ==
  /\ offers(t, k, "toggle")
  /\ LET c == ui.tab[t].copy[k] IN Save(t, k, [c EXCEPT !.on = ~@], Choice(~c.on, c.to))

\* Saving an address turns e-mails on.
saveEmail(t, a) ==
  offers(t, "mail", "save") /\ Save(t, "mail", [ui.tab[t].copy.mail EXCEPT !.to = a, !.on = TRUE], Choice(TRUE, a))

removeEmail(t) ==
  /\ offers(t, "mail", "remove")
  /\ Save(t, "mail", [ui.tab[t].copy.mail EXCEPT !.to = 0, !.on = FALSE], Choice(FALSE, 0))

saveUrl(t) ==
  offers(t, "hook", "save") /\ Save(t, "hook", [ui.tab[t].copy.hook EXCEPT !.to = 1, !.on = TRUE], Choice(TRUE, 1))
removeUrl(t) ==
  offers(t, "hook", "remove") /\ Save(t, "hook", emptyPrefs, Choice(FALSE, 0))

\* Choosing events writes the switch as this row knows it.
toggleEvent(t) ==
  /\ offers(t, "hook", "event")
  /\ Save(t, "hook", [ui.tab[t].copy.hook EXCEPT !.pending = ~@], {})

mayMail(prefs) ==
  prefs.on /\ prefs.to # 0 /\ (prefs.last = Never \/ ui.now - prefs.last >= Throttle)

shouldFireWebhook(prefs) == prefs.on /\ prefs.to # 0 /\ prefs.pending

silenced(k) == ~ghost.choice[k].on /\ k \notin ghost.excused

\* A batch with a new row: an e-mail for the first, the webhook, both by the
\* preferences as they are stored now.
maybeFireEmail(t) ==
  /\ MailAct /\ ui.about # "rem" /\ ui' = Acted
  /\ IF mayMail(disk.mail)
     THEN Add([kind |-> "mail", tab |-> t, at |-> "sent", prefs |-> disk.mail, began |-> ui.now,
               gen |-> 0, ver |-> ghost.ver.mail])
     ELSE UNCHANGED calls
  /\ ghost' = [ghost EXCEPT
       !.loose = @ \/ (mayMail(disk.mail) /\ \E j \in calls : j.kind = "mail"),
       !.wrong = @ \cup {k \in {"mail"} : mayMail(disk.mail) /\ silenced(k)}
                     \cup {k \in {"hook"} : shouldFireWebhook(disk.hook) /\ silenced(k)}]
  /\ UNCHANGED <<disk, remote>>

\* The route sends it, or refuses (not signed in, over the limit, address not
\* verified, mail server).
notifyPending(j) ==
  /\ Mail /\ j.kind = "mail" /\ j.at = "sent"
  /\ \/ /\ Step(j, [j EXCEPT !.at = "done"])
        /\ ghost' = [ghost EXCEPT !.sent = Append(@, j.began)]
     \/ End(j) /\ UNCHANGED ghost
  /\ UNCHANGED <<disk, remote, ui>>

\* The reply writes the preferences as they were when the e-mail was begun,
\* with its time; a lost reply writes nothing.
FireReply(j) ==
  /\ Mail /\ j.kind = "mail" /\ j.at = "done" /\ End(j)
  /\ \/ /\ disk' = [disk EXCEPT !.mail = [j.prefs EXCEPT !.last = j.began]]
        /\ ghost' = [ghost EXCEPT
             !.excused = IF j.ver < ghost.ver.mail THEN @ \cup {"mail"} ELSE @,
             !.loose = @ \/ j.began < disk.mail.last]
     \/ UNCHANGED disk /\ ghost' = [ghost EXCEPT !.loose = TRUE]
  /\ UNCHANGED <<remote, ui>>

shouldSendApprovalReminder(prefs) ==
  prefs.on /\ (prefs.last = Never \/ ui.now - prefs.last >= ReminderInterval)

\* The reminder is named by the interval it falls in.
reminderId(now) == now \div ReminderInterval

\* Once a minute, one at a time for as long as the rows stay the same.
remind(t) ==
  /\ Mail /\ shouldSendApprovalReminder(disk.rem)
  /\ ~\E j \in calls : j.kind = "rem" /\ j.tab = t /\ j.gen = ui.tab[t].gen
  /\ Add([kind |-> "rem", tab |-> t, at |-> "sent", prefs |-> disk.rem, began |-> ui.now,
          gen |-> ui.tab[t].gen, ver |-> ghost.ver.rem])
  /\ UNCHANGED <<disk, remote, ui, ghost>>

RowsChange(t) ==
  /\ About("rem") /\ ui.tab[t].gen = 0 /\ ui' = [Acted EXCEPT !.tab[t].gen = 1]
  /\ UNCHANGED <<disk, remote, calls, ghost>>

ingestReminder(j) ==
  /\ Mail /\ j.kind = "rem" /\ j.at = "sent"
  /\ LET id == reminderId(j.began)
     IN \/ /\ Step(j, [j EXCEPT !.at = IF id \in remote.reminders THEN "old" ELSE "new"])
           /\ remote' = [remote EXCEPT !.reminders = @ \cup {id}]
        \/ End(j) /\ UNCHANGED remote
  /\ UNCHANGED <<disk, ui, ghost>>

\* A new one is shown; both are noted in the preferences as they were.
ReminderReply(j) ==
  /\ Mail /\ j.kind = "rem" /\ j.at \in {"old", "new"} /\ End(j)
  /\ disk' = [disk EXCEPT !.rem = [j.prefs EXCEPT !.last = j.began]]
  /\ ui' = [ui EXCEPT !.tab[j.tab].copy.rem = [j.prefs EXCEPT !.last = j.began],
                      !.tab[j.tab].base.rem = ghost.ver.rem]
  /\ ghost' = [ghost EXCEPT
       !.shown = IF j.at = "new" THEN Append(@, j.began) ELSE @,
       !.excused = IF j.ver < ghost.ver.rem THEN @ \cup {"rem"} ELSE @]
  /\ UNCHANGED remote

MailTick ==
  /\ Mail /\ ui.now < MaxClock /\ ui' = [ui EXCEPT !.now = @ + 1]
  /\ UNCHANGED <<disk, remote, calls, ghost>>

InitMail ==
  /\ \E on \in BOOLEAN, about \in Kinds :
       /\ disk = [k \in Kinds |-> IF k = about /\ on
                                  THEN [emptyPrefs EXCEPT !.on = TRUE, !.to = IF k = "rem" THEN 0 ELSE 1]
                                  ELSE emptyPrefs]
       /\ ui = [part |-> "mail", acts |-> 0, now |-> 0, about |-> about,
                tab |-> [t \in Tabs |-> [copy |-> disk, base |-> [k \in Kinds |-> 0], gen |-> 0]]]
  /\ remote = [reminders |-> {}]
  /\ calls = {}
  /\ ghost = [ver |-> [k \in Kinds |-> 0], excused |-> {}, loose |-> FALSE, wrong |-> {},
              choice |-> [k \in Kinds |-> [on |-> disk[k].on, to |-> disk[k].to]],
              sent |-> <<>>, shown |-> <<>>]

NextMail ==
  \/ MailTick
  \/ \E t \in Tabs : \/ OpenSettings(t) \/ removeEmail(t) \/ saveUrl(t) \/ removeUrl(t)
                     \/ toggleEvent(t) \/ maybeFireEmail(t) \/ remind(t) \/ RowsChange(t)
                     \/ \E k \in Kinds : setEnabled(t, k)
                     \/ \E a \in Addresses : saveEmail(t, a)
  \/ \E j \in calls : notifyPending(j) \/ FireReply(j) \/ ingestReminder(j) \/ ReminderReply(j)

-----------------------------------------------------------------------------
(* The limiter.  A moment is what one token takes to come back.            *)

Limiting == ui.part = "limit"
Instances == {1, 2}
Keys == {1, 2}
Capacity == 2
Window == 2          \* moments until an empty bucket is full
PruneInterval == 2   \* moments between prunes, and until a bucket is idle
MaxBuckets == 1      \* buckets one instance keeps
NoBucket == [tokens |-> Capacity, last |-> Never]

Arrive(i, k) ==
  /\ Limiting /\ ui.acts < MaxHits /\ ~\E j \in calls : j.inst = i
  /\ remote.redis => k = 1           \* the second key only fills an instance's table
  /\ Add([inst |-> i, key |-> k, at |-> IF remote.redis THEN "shared" ELSE "local"])
  /\ ui' = Acted /\ UNCHANGED <<disk, remote, ghost>>

\* The count of the window, started anew when the last one has expired.
counted(k) == IF ui.now >= remote.until[k] THEN 1 ELSE remote.count[k] + 1
incr(k) ==
  [remote EXCEPT !.count[k] = counted(k),
                 !.until[k] = IF ui.now >= @ THEN ui.now + Window ELSE @]

withinWindow(k) == counted(k) <= Capacity

\* Redis says yes or no; if it does not answer the request goes on, counted
\* or not.
checkUpstash(j) ==
  /\ Limiting /\ j.at = "shared"
  /\ \/ /\ remote' = incr(j.key)
        /\ IF withinWindow(j.key)
           THEN /\ Step(j, [j EXCEPT !.at = "local"])
                /\ ghost' = [ghost EXCEPT !.win[j.key][2] = @ + 1]
           ELSE End(j) /\ UNCHANGED ghost
     \/ /\ remote' \in {remote, incr(j.key)}
        /\ ghost' = [ghost EXCEPT !.failed = TRUE]
        /\ Step(j, [j EXCEPT !.at = "local"])
  /\ UNCHANGED <<disk, ui>>

\* Every so often the buckets nobody used since are dropped.
pruneIfStale(i) ==
  IF ui.now - disk.pruned[i] < PruneInterval THEN disk.bucket[i]
  ELSE [k \in Keys |-> IF ui.now - disk.bucket[i][k].last > PruneInterval
                       THEN NoBucket ELSE disk.bucket[i][k]]

refilled(b) ==
  IF b = NoBucket THEN Capacity ELSE Min({Capacity, b.tokens + (ui.now - b.last)})

checkInProcess(j) ==
  LET i == j.inst
      bs == pruneIfStale(i)
      full == bs[j.key] = NoBucket /\ Cardinality({k \in Keys : bs[k] # NoBucket}) >= MaxBuckets
      tokens == refilled(bs[j.key])
      ok == ~full /\ tokens >= 1
  IN /\ Limiting /\ j.at = "local" /\ End(j)
     /\ disk' = [disk EXCEPT
          !.pruned[i] = IF ui.now - @ < PruneInterval THEN @ ELSE ui.now,
          !.bucket[i] = IF full THEN bs
                        ELSE [bs EXCEPT ![j.key] =
                                [tokens |-> IF ok THEN tokens - 1 ELSE tokens, last |-> ui.now]]]
     /\ ghost' = IF ok THEN [ghost EXCEPT !.level[i][j.key] = @ + 1] ELSE ghost
     /\ UNCHANGED <<remote, ui>>

LimitTick ==
  /\ Limiting /\ ui.now < MaxClock /\ ui' = [ui EXCEPT !.now = @ + 1]
  /\ ghost' = [ghost EXCEPT
       !.level = [i \in Instances |-> [k \in Keys |-> Max({0, @[i][k] - 1})]],
       !.win = [k \in Keys |-> <<@[k][2], 0>>]]
  /\ UNCHANGED <<disk, remote, calls>>

InitLimit ==
  /\ disk = [bucket |-> [i \in Instances |-> [k \in Keys |-> NoBucket]],
             pruned |-> [i \in Instances |-> -PruneInterval]]
  /\ \E redis \in BOOLEAN :
       remote = [redis |-> redis, count |-> [k \in Keys |-> 0], until |-> [k \in Keys |-> 0]]
  /\ calls = {}
  /\ ui = [part |-> "limit", acts |-> 0, now |-> 0]
  /\ ghost = [level |-> [i \in Instances |-> [k \in Keys |-> 0]],
              win |-> [k \in Keys |-> <<0, 0>>], failed |-> FALSE]

NextLimit ==
  \/ LimitTick
  \/ \E i \in Instances, k \in Keys : Arrive(i, k)
  \/ \E j \in calls : checkUpstash(j) \/ checkInProcess(j)

-----------------------------------------------------------------------------
Init == InitFeed \/ InitMail \/ InitLimit
Next == (Feed /\ NextFeed) \/ (Mail /\ NextMail) \/ (Limiting /\ NextLimit)
Spec == Init /\ [][Next]_vars

(* Properties.                                                             *)

\* Every record keeps its shape: the feed's entries and the tabs' views of
\* them, the preferences and the copies rows and requests hold, the buckets.
TypeOK ==
  CASE Feed ->
         /\ remote.feed \subseteq [id : Ids, at : Nat, seen : BOOLEAN]
         /\ \A t \in Tabs : /\ ui.tab[t].view \subseteq [id : Ids, seen : BOOLEAN]
                            /\ ui.tab[t].rows \subseteq Proposals
         /\ \A j \in calls : j.kind \in {"needed", "created", "role", "fetch", "read", "readAll"}
    [] Mail ->
         /\ disk \in [Kinds -> Prefs]
         /\ \A t \in Tabs : ui.tab[t].copy \in [Kinds -> Prefs]
         /\ \A j \in calls : j.prefs \in Prefs
    [] Limiting ->
         /\ disk.bucket \in [Instances -> [Keys -> [tokens : 0..Capacity, last : {Never} \cup 0..MaxClock]]]
         /\ \A i \in Instances : Cardinality({k \in Keys : disk.bucket[i][k] # NoBucket}) <= MaxBuckets

\* A request is announced once, by one of the tabs, for as long as its entry
\* stays in the feed; only an entry that was trimmed can be news again.
ToldOnce == Feed => \A p \in Proposals : ghost.told[p] <= 1 + ghost.left[p]

\* A tab never announces a request that its own list no longer has, however
\* late the reply that says it is new.
ToldWhileNeeded == Feed => ghost.late = {}

\* The feed is bounded and what it lost is never newer than what it kept,
\* whatever order entries are synced in.
NewestKept ==
  Feed => /\ Cardinality(remote.feed) <= MaxEntries
          /\ \A g \in ghost.gone, e \in remote.feed : e.at >= g.at

\* Once a tab's requests have all been answered it shows as read what the
\* server stored as read for it, even if an older fetch came in late.
ReadIsShown ==
  Feed => \A t \in Tabs :
    (~ui.tab[t].due /\ t \notin ghost.blind /\ ~\E j \in calls : j.tab = t) =>
      \A e \in remote.feed :
        e.seen /\ e.id \in ghost.read[t] => [id |-> e.id, seen |-> FALSE] \notin ui.tab[t].view

\* An entry that was read is not unread again by a later sync of its event.
SeenStays ==
     Feed => \A e \in remote.feed, f \in remote'.feed : e.id = f.id /\ e.seen => f.seen

\* The switch and the address stay as they were last chosen, unless a copy
\* taken before that choice is written after it.
ChoiceKept ==
  Mail => \A k \in Kinds :
    k \in ghost.excused \/ ghost.choice[k] = [on |-> disk[k].on, to |-> disk[k].to]

\* What was turned off sends nothing, unless an earlier copy turned it on.
SilentWhenOff == Mail => ghost.wrong = {}

Spaced(s, d) == \A a, b \in 1..Len(s) : a < b => s[b] - s[a] >= d \/ s[a] - s[b] >= d

\* E-mails are a minute apart unless one was begun while another was under
\* way, or its time was lost or overwritten by an older one.
MailSpaced == Mail => ghost.loose \/ Spaced(ghost.sent, Throttle)

\* However many tabs are open, one reminder is shown in an interval.
RemindedOnce ==
  Mail => \A a, b \in 1..Len(ghost.shown) :
    a # b => ghost.shown[a] \div ReminderInterval # ghost.shown[b] \div ReminderInterval

\* Each instance holds a key to a full bucket and one request a moment after:
\* a meter that drains one a moment never shows more than Capacity, across
\* sweeps and a full table.
LocalBudget ==
  Limiting => \A i \in Instances, k \in Keys : ghost.level[i][k] <= Capacity

\* With Redis answering, the instances together let through in the time of one
\* window no more than two windows' worth.
SharedBudget ==
  Limiting /\ remote.redis /\ ~ghost.failed =>
    \A k \in Keys : ghost.win[k][1] + ghost.win[k][2] <= 2 * Capacity

\* "Turn them off there if you'd rather rely on the in-app badge": e-mails
\* that were turned off stay off.  The reply of an e-mail under way writes the
\* older preferences back.
OptOutStays == Mail => ghost.choice["mail"].on \/ ~disk["mail"].on
=============================================================================
