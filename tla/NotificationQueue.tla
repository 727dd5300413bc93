-------------------------- MODULE NotificationQueue --------------------------
(***************************************************************************)
(* System notifications: the queue in memory (notification-queue.ts), its  *)
(* consumer processSystemNotificationJob, the fan-out to webhooks, and the *)
(* flush at shutdown (server.ts), during one life of the process.          *)
(*                                                                         *)
(* All jobs are of one type, whose default channels are in-app, email and  *)
(* webhook.  A drain is cut at its awaits.  Drain stands for the drains    *)
(* that setImmediate and the interval of 250 ms start: both call the same  *)
(* function, and on an empty queue or beside another drain it returns.     *)
(* Slack is one channel.  emailSentAt is left out, nothing reads it.       *)
(***************************************************************************)
EXTENDS Integers, Sequences

CONSTANTS
  Jobs,        \* calls of sendSystemNotification
  Users, Hooks,
  Prefs,       \* the preferences users have at first
  Drains,      \* drains that may be under way at the same time
  MaxRetries,  \* webhookMaxRetries
  MaxChanges,  \* bound: changes by admins and users
  MaxFailures  \* bound: emails, POSTs and messages that are not accepted, and calls
               \* of the database or of decrypt that throw

VARIABLES
  queue,     \* the map, in insertion order
  draining,  \* the flag of drain
  drain,     \* drain -> where it is and what it has read
  users,     \* user -> its NotificationPreference, of the users there are
  hooks,     \* enabled webhooks
  enabled,   \* NotificationType.enabled
  process,   \* "up", "flushing", or how it ended
  enqueued,  \* history: the jobs in the order of the calls
  done,      \* history: jobs whose processing has ended
  told,      \* history: recipient and channel -> the jobs sent there, accepted or not,
             \* or not sent for good because the host was blocked
  promised,  \* history: job -> the targets entitled to it when it was enqueued
  touched,   \* history: targets changed while job was waiting or in progress
  cut,       \* history: job, what an exception ended of it ("job" or "hooks"), and
             \* why: a row was "gone", or a "fault"
  changes, failures

queueVars == <<queue, draining, drain, users, hooks, enabled, process, enqueued, done, told,
               promised, touched, cut, changes, failures>>

Slack == "slack"
Recipients ==
  (Users \X {"app", "mail"}) \cup (Hooks \X {"hook"}) \cup {<<Slack, "message">>}

\* "none" is a user without a row: in-app, and email by default.  "elsewhere"
\* is a filter on another environment.
InApp(p) == p \in {"none", "inapp"}
Mails(p) == p = "none"

NoDrain == [at |-> "idle", snap |-> <<>>, users |-> {}, left |-> {}, hook |-> "none", tries |-> 0]

QueueInit ==
  /\ queue = <<>> /\ draining = FALSE /\ drain = [d \in Drains |-> NoDrain]
  /\ users \in [Users -> Prefs]
  /\ hooks = Hooks
  /\ enabled = TRUE
  /\ process = "up"
  /\ enqueued = <<>> /\ done = {} /\ told = [t \in Recipients |-> <<>>]
  /\ promised = [j \in Jobs |-> {}] /\ touched = [j \in Jobs |-> {}] /\ cut = {}
  /\ changes = 0 /\ failures = 0

Alive == process \in {"up", "flushing"}
Seen(s) == {s[i] : i \in 1..Len(s)}
Current(d) == Head(drain[d].snap)
Tell(d, ts) ==
  told' = [t \in Recipients |-> IF t \in ts THEN Append(told[t], Current(d)) ELSE told[t]]

\* Who is entitled to a job enqueued now, and how.
Entitled ==
  IF ~enabled THEN {}
  ELSE {<<u, "app">> : u \in {v \in DOMAIN users : InApp(users[v])}}
         \cup {<<u, "mail">> : u \in {v \in DOMAIN users : Mails(users[v])}}
         \cup (hooks \X {"hook"}) \cup {<<Slack, "message">>}

Data == <<users, hooks, enabled>>
Past == <<enqueued, promised, touched>>

----------------------------------------------------------------------------
(* The queue *)

\* sendSystemNotification returns as soon as the job is in the map.
Enqueue(j) ==
  /\ Alive /\ j \notin Seen(enqueued)
  /\ queue' = Append(queue, j)
  /\ enqueued' = Append(enqueued, j)
  /\ promised' = [promised EXCEPT ![j] = Entitled]
  /\ UNCHANGED <<draining, drain, Data, process, done, told, touched, cut, changes, failures>>

Free(d) == drain[d].at = "idle" /\ \A e \in Drains : drain[e].at = "idle" => d <= e

Put(d, r) == drain' = [drain EXCEPT ![d] = r]
Begin(d, s) == Put(d, [NoDrain EXCEPT !.at = "type", !.snap = s])
Take(d) == Begin(d, queue) /\ queue' = <<>>

\* Mutant of Drain: the flag is not looked at.
DrainUnguarded(d) ==
  /\ Alive /\ Free(d)
  /\ queue # <<>>
  /\ draining' = TRUE
  /\ Take(d)
  /\ UNCHANGED <<Data, process, Past, done, told, cut, changes, failures>>

Drain(d) ==
  /\ Alive /\ Free(d)
  /\ ~draining /\ queue # <<>>
  /\ draining' = TRUE
  /\ Take(d)
  /\ UNCHANGED <<Data, process, Past, done, told, cut, changes, failures>>

\* Mutant of Return: the queue is emptied when the snapshot has been processed.
ReturnAndClear(d) ==
  LET rest == Tail(drain[d].snap)
  IN /\ done' = done \cup {Current(d)}
     /\ IF rest # <<>>
          THEN /\ Begin(d, rest)
               /\ UNCHANGED <<queue, draining>>
          ELSE Put(d, NoDrain) /\ draining' = FALSE /\ queue' = <<>>

\* The processor has returned or thrown: the next job of the snapshot, then the
\* next snapshot, and with an empty queue the flag is cleared at once.
Return(d) ==
  LET rest == Tail(drain[d].snap)
  IN /\ done' = done \cup {Current(d)}
     /\ IF rest # <<>>
          THEN /\ Begin(d, rest)
               /\ UNCHANGED <<queue, draining>>
          ELSE IF queue # <<>> THEN Take(d) /\ UNCHANGED draining
          ELSE Put(d, NoDrain) /\ draining' = FALSE /\ UNCHANGED queue

----------------------------------------------------------------------------
(* processSystemNotificationJob *)

At(d, l) == Alive /\ drain[d].at = l
Advance(d, l) == Put(d, [drain[d] EXCEPT !.at = l]) /\ UNCHANGED <<queue, draining, done>>

ReadType(d) ==
  /\ At(d, "type")
  /\ IF enabled THEN Advance(d, "users") ELSE Return(d)
  /\ UNCHANGED <<Data, process, Past, told, cut, changes, failures>>

ReadUsers(d) ==
  /\ At(d, "users")
  /\ Put(d, [drain[d] EXCEPT !.at = "prefs", !.users = DOMAIN users])
  /\ UNCHANGED <<queue, draining, Data, process, Past, done, told, cut, changes, failures>>

\* Preferences are deleted with their user: a user who is gone by now counts as
\* one without preferences.
PrefRead(u) == IF u \in DOMAIN users THEN users[u] ELSE "none"

\* Mutant of ReadPreferences: a missing preference counts as in-app disabled.
ReadPreferencesStrict(d) ==
  LET to == {u \in drain[d].users : PrefRead(u) = "inapp"}
  IN /\ At(d, "prefs")
     /\ Put(d, [drain[d] EXCEPT !.at = IF to = {} THEN "hooks" ELSE "insert", !.users = to,
                                !.left = {u \in to : Mails(PrefRead(u))}])
     /\ UNCHANGED <<queue, draining, Data, process, Past, done, told, cut, changes, failures>>

\* Only recipients of the in-app notification can get the email.
ReadPreferences(d) ==
  LET to == {u \in drain[d].users : InApp(PrefRead(u))}
  IN /\ At(d, "prefs")
     /\ Put(d, [drain[d] EXCEPT !.at = IF to = {} THEN "hooks" ELSE "insert", !.users = to,
                                !.left = {u \in to : Mails(PrefRead(u))}])
     /\ UNCHANGED <<queue, draining, Data, process, Past, done, told, cut, changes, failures>>

Fault == failures < MaxFailures /\ failures' = failures + 1

\* An exception outside of the try blocks: the rest of the job is left out, its
\* webhooks and its Slack message included.
EndJob(d, why) ==
  /\ cut' = cut \cup {<<Current(d), "job", why>>}
  /\ Return(d)
  /\ UNCHANGED told

\* A query before the emails throws.
JobFails(d) ==
  /\ At(d, drain[d].at) /\ drain[d].at \in {"type", "users", "prefs", "insert"}
  /\ Fault
  /\ EndJob(d, "fault")
  /\ UNCHANGED <<Data, process, Past, changes>>

\* createMany inserts all rows or, with a recipient who is gone, none.
Insert(d) ==
  /\ At(d, "insert")
  /\ IF drain[d].users \subseteq DOMAIN users
       THEN /\ Tell(d, drain[d].users \X {"app"})
            /\ Advance(d, IF drain[d].left = {} THEN "hooks" ELSE "mail")
            /\ UNCHANGED cut
       ELSE EndJob(d, "gone")
  /\ UNCHANGED <<Data, process, Past, changes, failures>>

\* Whether something sent is accepted.
Outcome(ok) ==
  \/ ok = TRUE /\ UNCHANGED failures
  \/ ok = FALSE /\ failures < MaxFailures /\ failures' = failures + 1

\* Mutant of SendMail: an email that fails ends the emails of the job.
SendMailOrStop(d) ==
  /\ At(d, "mail")
  /\ \E u \in drain[d].left, ok \in BOOLEAN :
       /\ Outcome(ok)
       /\ Tell(d, {<<u, "mail">>})
       /\ Put(d, [drain[d] EXCEPT !.left = IF ok THEN @ \ {u} ELSE {},
                                  !.at = IF ok /\ drain[d].left # {u} THEN "mail" ELSE "hooks"])
  /\ UNCHANGED <<queue, draining, Data, process, Past, done, cut, changes>>

\* sendEmail and the update of the row, in one try: a failure is logged.
SendMail(d) ==
  /\ At(d, "mail")
  /\ \E u \in drain[d].left, ok \in BOOLEAN :
       /\ Outcome(ok)
       /\ Tell(d, {<<u, "mail">>})
       /\ Put(d, [drain[d] EXCEPT !.left = @ \ {u},
                                  !.at = IF drain[d].left = {u} THEN "hooks" ELSE "mail"])
  /\ UNCHANGED <<queue, draining, Data, process, Past, done, cut, changes>>

----------------------------------------------------------------------------
(* dispatchWebhook and Slack *)

ReadHooks(d) ==
  /\ At(d, "hooks")
  /\ Put(d, [drain[d] EXCEPT !.at = IF hooks = {} THEN "slack" ELSE "next", !.left = hooks])
  /\ UNCHANGED <<queue, draining, Data, process, Past, done, told, cut, changes, failures>>

NextHook(d) ==
  /\ At(d, "next")
  /\ \E h \in drain[d].left :
       Put(d, [drain[d] EXCEPT !.at = "post", !.hook = h, !.tries = 0, !.left = @ \ {h}])
  /\ UNCHANGED <<queue, draining, Data, process, Past, done, told, cut, changes, failures>>

\* An attempt of sendWebhookWithRetry, with the configuration read with the list:
\* a POST, or the host is found to be blocked, which ends the attempts.
PostHook(d) ==
  /\ At(d, "post")
  /\ \E ok, blocked \in BOOLEAN :
       /\ Outcome(ok)
       /\ IF ok \/ blocked \/ drain[d].tries + 1 = MaxRetries
            THEN /\ Tell(d, {<<drain[d].hook, "hook">>})
                 /\ Put(d, [drain[d] EXCEPT !.at = "stats", !.tries = 0])
            ELSE Put(d, [drain[d] EXCEPT !.tries = @ + 1]) /\ UNCHANGED told
  /\ UNCHANGED <<queue, draining, Data, process, Past, done, cut, changes>>

\* An exception leaves dispatchWebhook: the webhooks after this one are not called.
EndHooks(d, why) ==
  /\ Put(d, [drain[d] EXCEPT !.at = "slack", !.hook = "none", !.tries = 0, !.left = {}])
  /\ cut' = cut \cup {<<Current(d), "hooks", why>>}

\* The list of webhooks cannot be read; before the first attempt the settings
\* cannot be read or the secret of the webhook cannot be decrypted; or the update
\* of its counters fails.
HooksFail(d) ==
  /\ At(d, drain[d].at)
  /\ drain[d].at \in {"hooks", "stats"} \/ (drain[d].at = "post" /\ drain[d].tries = 0)
  /\ Fault
  /\ EndHooks(d, "fault")
  /\ UNCHANGED <<queue, draining, Data, process, Past, done, told, changes>>

\* The update of its counters throws when the webhook was deleted meanwhile.
CountPost(d) ==
  /\ At(d, "stats")
  /\ IF drain[d].hook \in hooks
       THEN /\ Put(d, [drain[d] EXCEPT !.at = IF drain[d].left = {} THEN "slack" ELSE "next",
                                       !.hook = "none"])
            /\ UNCHANGED cut
       ELSE EndHooks(d, "gone")
  /\ UNCHANGED <<queue, draining, Data, process, Past, done, told, changes, failures>>

SendSlack(d) ==
  /\ At(d, "slack")
  /\ \E ok \in BOOLEAN : Outcome(ok)
  /\ Tell(d, {<<Slack, "message">>})
  /\ Return(d)
  /\ UNCHANGED <<Data, process, Past, cut, changes>>

----------------------------------------------------------------------------
(* Users and administrators, meanwhile *)

Touch(ts) ==
  /\ Alive
  /\ changes < MaxChanges /\ changes' = changes + 1
  /\ touched' = [j \in Jobs |->
                  IF j \in Seen(enqueued) \ done THEN touched[j] \cup ts ELSE touched[j]]
  /\ UNCHANGED <<queue, draining, drain, process, enqueued, done, told, promised, cut, failures>>

DeleteUser(u) ==
  /\ u \in DOMAIN users
  /\ users' = [v \in DOMAIN users \ {u} |-> users[v]]
  /\ Touch({u})
  /\ UNCHANGED <<hooks, enabled>>

UpdatePreference(u) ==
  /\ u \in DOMAIN users
  /\ \E p \in {"inapp", "muted", "elsewhere"} \ {users[u]} : users' = [users EXCEPT ![u] = p]
  /\ Touch({u})
  /\ UNCHANGED <<hooks, enabled>>

DeleteWebhook(h) ==
  /\ h \in hooks
  /\ hooks' = hooks \ {h}
  /\ Touch({h})
  /\ UNCHANGED <<users, enabled>>

ToggleType ==
  /\ enabled' = ~enabled
  /\ Touch(Users \cup Hooks \cup {Slack})
  /\ UNCHANGED <<users, hooks>>

----------------------------------------------------------------------------
(* The end of the process *)

\* SIGTERM: the scheduler stops, the server closes, the flush drains and waits.
Shutdown ==
  /\ process = "up"
  /\ process' = "flushing"
  /\ UNCHANGED <<queue, draining, drain, Data, Past, done, told, cut, changes, failures>>

\* Mutant of FlushEnds: the flush waits for the queue alone.
FlushEndsEarly ==
  /\ process = "flushing"
  /\ queue = <<>>
  /\ process' = "flushed"
  /\ UNCHANGED <<queue, draining, drain, Data, Past, done, told, cut, changes, failures>>

FlushEnds ==
  /\ process = "flushing"
  /\ queue = <<>> /\ ~draining
  /\ process' = "flushed"
  /\ UNCHANGED <<queue, draining, drain, Data, Past, done, told, cut, changes, failures>>

\* The flush gives up after five seconds, or the process dies.
Killed ==
  /\ Alive
  /\ process' = "killed"
  /\ UNCHANGED <<queue, draining, drain, Data, Past, done, told, cut, changes, failures>>

DrainStep(d) ==
  \/ Drain(d) \/ ReadType(d) \/ ReadUsers(d) \/ ReadPreferences(d) \/ Insert(d) \/ SendMail(d)
  \/ ReadHooks(d) \/ NextHook(d) \/ PostHook(d) \/ CountPost(d) \/ SendSlack(d)

DrainAction(d) == DrainStep(d) \/ JobFails(d) \/ HooksFail(d)

QueueNext ==
  \/ \E j \in Jobs : Enqueue(j)
  \/ \E d \in Drains : DrainAction(d)
  \/ \E u \in Users : DeleteUser(u) \/ UpdatePreference(u)
  \/ \E h \in Hooks : DeleteWebhook(h)
  \/ ToggleType
  \/ Shutdown \/ FlushEnds \/ Killed

QueueSpec == QueueInit /\ [][QueueNext]_queueVars

----------------------------------------------------------------------------
(* Properties *)

Place(j) == CHOOSE i \in 1..Len(enqueued) : enqueued[i] = j

\* Nobody is told twice of one job, and everybody is told of the jobs in the
\* order in which they were enqueued, on each channel.
OnceInOrder ==
  \A t \in Recipients : \A i \in 2..Len(told[t]) : Place(told[t][i - 1]) < Place(told[t][i])

\* What an exception has left out of a job, whatever its cause.
Cut(j, what) == \E why \in {"gone", "fault"} : <<j, what, why>> \in cut

\* processSystemNotificationJob, "one failure doesn't block the others": a
\* finished job was sent to exactly those who were entitled to it, apart from
\* those whose rows changed meanwhile and what an exception left out.
Reaches(j) ==
  \A t \in {r \in Recipients : r[1] \notin touched[j]} :
    /\ j \in Seen(told[t]) => t \in promised[j]
    /\ t \in promised[j] => \/ j \in Seen(told[t])
                            \/ Cut(j, "job")
                            \/ t[2] = "hook" /\ Cut(j, "hooks")

\* Emails, POSTs and messages that are not accepted leave nothing out.  An
\* exception does: of a call of the database or of decrypt, or of the write for a
\* user or a webhook that was deleted while the job was waiting or in progress.
Explained ==
  \A j \in Jobs :
    /\ <<j, "job", "gone">> \in cut => touched[j] \cap Users # {}
    /\ <<j, "hooks", "gone">> \in cut => touched[j] \cap Hooks # {}

\* flushNotificationQueue: a flush that ends before its deadline has left nothing.
FlushedAll == process = "flushed" => Seen(enqueued) \subseteq done

\* notification-queue.ts, "so concurrent drains can't double-process the same
\* job": whatever is enqueued, changed or refused meanwhile, and whichever calls
\* throw, nobody is told twice or out of order; a finished job has reached
\* exactly those entitled to it, but for what a failing call, a webhook whose
\* secret cannot be decrypted or the deletion of a recipient has left out; and a
\* flush that ends in time has left no job behind.
FanOutSound == OnceInOrder /\ (\A j \in done : Reaches(j)) /\ Explained /\ FlushedAll
==============================================================================
