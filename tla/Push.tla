-------------------------------- MODULE Push --------------------------------
(***************************************************************************)
(* Push notifications (api/push.py): which handset is registered to whom,  *)
(* and what becomes of a notification from the transaction that asks for   *)
(* it to the last ticket.                                                  *)
(*                                                                         *)
(* A transaction that moves an order reads the tokens to notify and leaves *)
(* the messages to a commit hook, which hands them to a daemon thread; the *)
(* thread posts them batch by batch and deletes the tokens Expo calls dead.*)
(* Nothing is retried.  Riders' and customers' devices are two tables with *)
(* the same code; a token, being one app's, is in one of them.  Meanwhile  *)
(* handsets are signed in and out, handed on, reinstalled; their requests  *)
(* are delayed, overtaken and lost.                                        *)
(***************************************************************************)
EXTENDS Naturals, Sequences, FiniteSets

CONSTANTS
  Tokens,               \* push tokens, one per installation of an app
  Accounts,             \* riders, or customers, of the app in question
  Nobody,
  Events,               \* moves of orders somebody is told about
  Recipients,           \* the accounts told of each event
  MAX_BATCH,
  MaxDeletes            \* bound: sign-outs in flight

ASSUME PushConstants ==
  /\ IsFiniteSet(Tokens)
  /\ Nobody \notin Accounts
  /\ Recipients \in [Events -> SUBSET Accounts]
  /\ MAX_BATCH \in Nat \ {0} /\ MaxDeletes \in Nat

VARIABLES
  device,      \* RiderDevice or CustomerDevice: the owner of each token's row
  txn,         \* the transaction each event is part of
  send,        \* what has become of each event's messages
  net,         \* device requests in flight, in no order
  live,        \* external: the token stands for an installed app
  user,        \* external: who is signed in on the handset
  posted       \* history: how often the message was put to the gateway

pushVars == <<device, txn, send, net, live, user, posted>>

Ticket == {"DeviceNotRegistered", "ok or another error"}

(* `answered`: the tickets of the first batch of `to` are there.  History: *)
(* `dead` are those of its tokens Expo does not know.                      *)
Stages == {"none", "hook", "posting", "answered"}
Sends == [stage : Stages, to : Seq(Tokens), tickets : Seq(Ticket),
          dead : SUBSET Tokens]
Nothing == [stage |-> "none", to |-> <<>>, tickets |-> <<>>, dead |-> {}]

Calls == [call : {"POST", "DELETE"}, by : Accounts, token : Tokens]

PushTypeOK ==
  /\ device \in [Tokens -> Accounts \cup {Nobody}]
  /\ txn \in [Events -> {"idle", "open", "committed", "rolled back"}]
  /\ send \in [Events -> Sends]
  /\ \A e \in Events : send[e].stage # "answered" => send[e].tickets = <<>>
  /\ net \subseteq Calls
  /\ live \subseteq Tokens
  /\ user \in [Tokens -> Accounts \cup {Nobody}]
  /\ posted \in [Events -> [Tokens -> Nat]]

PushInit ==
  /\ device = [t \in Tokens |-> Nobody]
  /\ txn = [e \in Events |-> "idle"]
  /\ send = [e \in Events |-> Nothing]
  /\ net = {}
  /\ live = Tokens
  /\ user = [t \in Tokens |-> Nobody]
  /\ posted = [e \in Events |-> [t \in Tokens |-> 0]]

-----------------------------------------------------------------------------
(* The handset and its network. *)

Post(a, t) == [call |-> "POST", by |-> a, token |-> t]
Delete(a, t) == [call |-> "DELETE", by |-> a, token |-> t]

SignIn(t, a) ==
  /\ t \in live /\ user[t] = Nobody
  /\ user' = [user EXCEPT ![t] = a]
  /\ net' = net \cup {Post(a, t)}
  /\ UNCHANGED <<device, txn, send, live, posted>>

SignOut(t) ==
  /\ user[t] # Nobody
  /\ user' = [user EXCEPT ![t] = Nobody]
  /\ Cardinality({m \in net : m.call = "DELETE"}) < MaxDeletes
  /\ net' = net \cup {Delete(user[t], t)}
  /\ UNCHANGED <<device, txn, send, live, posted>>

(* The app registers again whenever it is opened. *)
Launch(t) ==
  /\ user[t] # Nobody
  /\ net' = net \cup {Post(user[t], t)}
  /\ UNCHANGED <<device, txn, send, live, user, posted>>

Uninstall(t) ==
  /\ t \in live
  /\ live' = live \ {t}
  /\ user' = [user EXCEPT ![t] = Nobody]
  /\ UNCHANGED <<device, txn, send, net, posted>>

Reinstall(t) ==
  /\ t \notin live
  /\ live' = live \cup {t}
  /\ UNCHANGED <<device, txn, send, net, user, posted>>

Lose(m) ==
  /\ m \in net
  /\ net' = net \ {m}
  /\ UNCHANGED <<device, txn, send, live, user, posted>>

-----------------------------------------------------------------------------
(* Registration. *)

(* Mutant: `get_or_create`, the owner only among the defaults. *)
register_first(m) ==
  /\ m \in net /\ m.call = "POST"
  /\ net' = net \ {m}
  /\ device' = [device EXCEPT ![m.token] = IF @ = Nobody THEN m.by ELSE @]
  /\ UNCHANGED <<txn, send, live, user, posted>>

(* The token is claimed, whoever had it. *)
register_device(m) ==
  /\ m \in net /\ m.call = "POST"
  /\ net' = net \ {m}
  /\ device' = [device EXCEPT ![m.token] = m.by]
  /\ UNCHANGED <<txn, send, live, user, posted>>

(* Mutant: not scoped to the caller. *)
forget_any(m) ==
  /\ m \in net /\ m.call = "DELETE"
  /\ net' = net \ {m}
  /\ device' = [device EXCEPT ![m.token] = Nobody]
  /\ UNCHANGED <<txn, send, live, user, posted>>

(* Only a token that is the caller's. *)
forget_device(m) ==
  /\ m \in net /\ m.call = "DELETE"
  /\ net' = net \ {m}
  /\ device' = [device EXCEPT ![m.token] = IF @ = m.by THEN Nobody ELSE @]
  /\ UNCHANGED <<txn, send, live, user, posted>>

-----------------------------------------------------------------------------
(* Sending. *)

(* One message for each token of each recipient. *)
TokensOf(e) ==
  {t \in Tokens : device[t] \in Recipients[e]}

InSomeOrder(S) == {s \in [1 .. Cardinality(S) -> S] : \A i, j \in DOMAIN s : i # j => s[i] # s[j]}

(* Mutant: the thread is started inside the transaction. *)
NotifyAtOnce(e, to) ==
  /\ txn[e] = "idle"
  /\ txn' = [txn EXCEPT ![e] = "open"]
  /\ to \in InSomeOrder(TokensOf(e))
  /\ send' = [send EXCEPT ![e].stage = IF to = <<>> THEN "none" ELSE "posting", ![e].to = to]
  /\ UNCHANGED <<device, net, live, user, posted>>

(* `notify_riders` and `notify_customer_status`, in the transaction that   *)
(* moves the order. *)
notify(e, to) ==
  /\ txn[e] = "idle"
  /\ txn' = [txn EXCEPT ![e] = "open"]
  /\ to \in InSomeOrder(TokensOf(e))
  /\ send' = [send EXCEPT ![e].stage = IF to = <<>> THEN "none" ELSE "hook", ![e].to = to]
  /\ UNCHANGED <<device, net, live, user, posted>>

(* The hook starts the thread. *)
Commit(e) ==
  /\ txn[e] = "open"
  /\ txn' = [txn EXCEPT ![e] = "committed"]
  /\ send' = [send EXCEPT ![e].stage = IF @ = "hook" THEN "posting" ELSE @]
  /\ UNCHANGED <<device, net, live, user, posted>>

(* The order stays where it was, and the hook is dropped. *)
Rollback(e) ==
  /\ txn[e] = "open"
  /\ txn' = [txn EXCEPT ![e] = "rolled back"]
  /\ send' = [send EXCEPT ![e] = IF @.stage = "hook" THEN Nothing ELSE @]
  /\ UNCHANGED <<device, net, live, user, posted>>

BatchSize(s) == IF Len(s.to) < MAX_BATCH THEN Len(s.to) ELSE MAX_BATCH

Batch(s) == {s.to[i] : i \in 1 .. BatchSize(s)}

(* Answered or failed, the batch is not sent again. *)
Rest(s) == SubSeq(s.to, BatchSize(s) + 1, Len(s.to))

After(s) ==
  [stage   |-> IF Rest(s) = <<>> THEN "none" ELSE "posting",
   to      |-> Rest(s), tickets |-> <<>>, dead |-> {}]

Put(e) == [posted EXCEPT ![e] = [t \in Tokens |-> IF t \in Batch(send[e]) THEN @[t] + 1 ELSE @[t]]]

(* Expo answers with one ticket for each message, in the order sent.       *)
PostBatch(e) ==
  /\ send[e].stage = "posting"
  /\ send' = [send EXCEPT
        ![e].stage = "answered",
        ![e].tickets = [i \in 1 .. BatchSize(send[e]) |->
           IF send[e].to[i] \in live THEN "ok or another error" ELSE "DeviceNotRegistered"],
        ![e].dead = Batch(send[e]) \ live]
  /\ posted' = Put(e)
  /\ UNCHANGED <<device, txn, net, live, user>>

(* A timeout, or an error instead of tickets.                              *)
PostFails(e) ==
  /\ send[e].stage = "posting"
  /\ send' = [send EXCEPT ![e] = After(send[e])]
  /\ posted' = Put(e)
  /\ UNCHANGED <<device, txn, net, live, user>>

DeadTokens(s) ==
  {s.to[i] : i \in {j \in 1 .. BatchSize(s) : s.tickets[j] = "DeviceNotRegistered"}}

(* Their rows go, from either table. *)
_handle_tickets(e) ==
  /\ send[e].stage = "answered"
  /\ device' = [t \in Tokens |-> IF t \in DeadTokens(send[e]) THEN Nobody ELSE device[t]]
  /\ send' = [send EXCEPT ![e] = After(send[e])]
  /\ UNCHANGED <<txn, net, live, user, posted>>

(* The process ends, and the daemon thread with it. *)
Die(e) ==
  /\ send[e].stage \in {"posting", "answered"}
  /\ send' = [send EXCEPT ![e] = Nothing]
  /\ UNCHANGED <<device, txn, net, live, user, posted>>

Handset(t) ==
  \/ \E a \in Accounts : SignIn(t, a)
  \/ SignOut(t) \/ Launch(t) \/ Uninstall(t) \/ Reinstall(t)

Arrive(m) == register_device(m) \/ forget_device(m)

Thread(e) == PostBatch(e) \/ PostFails(e) \/ _handle_tickets(e) \/ Die(e)

PushNext ==
  \/ \E t \in Tokens : Handset(t)
  \/ \E m \in net : Arrive(m) \/ Lose(m)
  \/ \E e \in Events :
       \/ \E to \in InSomeOrder(TokensOf(e)) : notify(e, to)
       \/ Commit(e) \/ Rollback(e)
       \/ Thread(e)

PushSpec == PushInit /\ [][PushNext]_pushVars

(* Who keeps using the app opens it now and then, and a network that keeps *)
(* losing the app's request lets one through at last.  Nothing else has to *)
(* happen: no thread has to run, no late request has to arrive.            *)
Registers(t) == user[t] # Nobody /\ register_device(Post(user[t], t))

PushFairSpec ==
  PushSpec /\ \A t \in Tokens : SF_pushVars(Launch(t)) /\ SF_pushVars(Registers(t))

-----------------------------------------------------------------------------
(* No phone buzzes about a move that was rolled back, and none twice about *)
(* one move ("would buzz a phone about an assignment that a later          *)
(* IntegrityError rolled back").                                           *)
NoFalseAlarm ==
  \A e \in Events, t \in Tokens :
    posted[e][t] > 0 => txn[e] = "committed" /\ posted[e][t] = 1

(* A registration goes for a reason: its owner signs out, somebody else    *)
(* claims the handset, or Expo said of this very token that it is dead.    *)
(* Neither a late sign-out of the rider before nor a ticket for another    *)
(* phone "silences a phone that was working".                              *)
RowsGoForAReason ==
  [][\A t \in Tokens :
       device'[t] # device[t] /\ device[t] # Nobody =>
         \/ Delete(device[t], t) \in net \ net'
         \/ device'[t] # Nobody /\ Post(device'[t], t) \in net \ net'
         \/ device'[t] = Nobody /\ \E e \in Events : t \in send[e].dead]_pushVars

(* Whatever was lost, overtaken or deleted on a stale ticket: a handset    *)
(* that somebody goes on using ends up registered to them ("register on    *)
(* every launch, not once").                                               *)
LaunchHeals ==
  \A t \in Tokens :
    <>[](user[t] # Nobody) => <>[](user[t] # Nobody /\ device[t] = user[t])
=============================================================================
