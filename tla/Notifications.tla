---------------------------- MODULE Notifications ----------------------------
(***************************************************************************)
(* The notification streams of one server process                          *)
(* (notifications/notifications.service.ts): the streams of one user's     *)
(* browser tabs share a subject and a Redis channel.  Commands to Redis go *)
(* out on one connection and are answered in order, but nobody awaits the  *)
(* unsubscription of the last tab.                                         *)
(***************************************************************************)
EXTENDS Naturals, Sequences

CONSTANTS Tabs,      \* event streams a user may open, again after they closed
          MaxOpens,  \* bound: streams opened in a behaviour
          MaxErrors, \* bound: subscriptions that Redis refuses
          MaxEmits   \* bound: notifications emitted

VARIABLES tab,        \* state of each stream: closed, connecting, open
          subscribers,\* the counter of the user's stream; 0 with no stream
          pipe,       \* commands on the way to Redis, in order
          channel,    \* is the connection subscribed to the user's channel?
          message,    \* a notification on its way from Redis, or none
          heard,      \* streams that have received the last notification
          opens, errors, emits,
          owed        \* ghost: streams that the last notification has to reach

notificationVars == <<tab, subscribers, pipe, channel, message, heard, opens, errors, emits, owed>>

Live == {t \in Tabs : tab[t] # "closed"}

Init ==
  /\ tab = [t \in Tabs |-> "closed"]
  /\ subscribers = 0 /\ pipe = <<>> /\ channel = FALSE
  /\ message = FALSE /\ heard = {} /\ owed = {}
  /\ opens = 0 /\ errors = 0 /\ emits = 0

\* eventStream: the subject is there from now on, its channel once Redis says so.
Open(t) ==
  /\ tab[t] = "closed" /\ opens < MaxOpens
  /\ tab' = [tab EXCEPT ![t] = "connecting"]
  /\ subscribers' = subscribers + 1
  /\ pipe' = Append(pipe, [cmd |-> "subscribe", for |-> {t}])
  /\ opens' = opens + 1
  /\ heard' = heard \ {t} /\ owed' = owed \ {t}
  /\ UNCHANGED <<channel, message, errors, emits>>

\* Mutant: the channel is given up with every stream.
ReleaseEach(t, queue) ==
  /\ subscribers' = subscribers - 1
  /\ pipe' = Append(queue, [cmd |-> "unsubscribe", for |-> {}])

\* releaseStream: the last one out deletes the subject and gives up the channel.
Release(t, queue) ==
  /\ subscribers' = subscribers - 1
  /\ pipe' = IF subscribers = 1 THEN Append(queue, [cmd |-> "unsubscribe", for |-> {}]) ELSE queue

\* The browser closes the stream, or its connection is lost.  A subscription
\* under way is answered to nobody.
Close(t) ==
  /\ tab[t] # "closed"
  /\ tab' = [tab EXCEPT ![t] = "closed"]
  /\ Release(t, [i \in DOMAIN pipe |-> [pipe[i] EXCEPT !.for = @ \ {t}]])
  /\ heard' = heard \ {t} /\ owed' = owed \ {t}
  /\ UNCHANGED <<channel, message, opens, errors, emits>>

\* Redis answers the oldest command.
Answered ==
  /\ pipe # <<>>
  /\ channel' = (Head(pipe).cmd = "subscribe")
  /\ pipe' = Tail(pipe)
  /\ tab' = [t \in Tabs |-> IF t \in Head(pipe).for THEN "open" ELSE tab[t]]
  /\ UNCHANGED <<subscribers, message, heard, opens, errors, emits, owed>>

\* A refused subscription ends its stream with an error, and so releases it.
Refused ==
  /\ pipe # <<>> /\ Head(pipe).cmd = "subscribe" /\ errors < MaxErrors
  /\ errors' = errors + 1
  /\ IF Head(pipe).for = {}
     THEN pipe' = Tail(pipe) /\ UNCHANGED <<tab, subscribers, heard, owed>>
     ELSE \E t \in Head(pipe).for :
            /\ tab' = [tab EXCEPT ![t] = "closed"]
            /\ Release(t, Tail(pipe))
            /\ heard' = heard \ {t} /\ owed' = owed \ {t}
  /\ UNCHANGED <<channel, message, opens, emits>>

\* emit, by any server: Redis hands the message to the connections subscribed
\* at that moment, which is owed to the streams that were told they are open.
Emit ==
  /\ emits < MaxEmits /\ ~message
  /\ emits' = emits + 1
  /\ message' = channel
  /\ heard' = {} /\ owed' = {t \in Tabs : tab[t] = "open"}
  /\ UNCHANGED <<tab, subscribers, pipe, channel, opens, errors>>

\* Mutant: every stream has a subject of its own, and only one is fed.
DeliverToOne ==
  /\ message
  /\ message' = FALSE
  /\ heard' = IF subscribers > 0 THEN {CHOOSE t \in Live : TRUE} ELSE {}
  /\ UNCHANGED <<tab, subscribers, pipe, channel, opens, errors, emits, owed>>

\* The message listener finds the user's subject and feeds the tabs that use it.
Deliver ==
  /\ message
  /\ message' = FALSE
  /\ heard' = IF subscribers > 0 THEN Live ELSE {}
  /\ UNCHANGED <<tab, subscribers, pipe, channel, opens, errors, emits, owed>>

Next == Answered \/ Refused \/ Emit \/ Deliver \/ \E t \in Tabs : Open(t) \/ Close(t)

Spec == Init /\ [][Next]_notificationVars

\* Redis answers and hands messages over.
Fairness == WF_notificationVars(Answered) /\ WF_notificationVars(Deliver)

-----------------------------------------------------------------------------
\* However streams open, close and fail while commands are on their way, the
\* unsubscription of an old last tab never takes the channel of a new one: a
\* stream that was told it is open has its channel, and with nothing under way
\* a channel without streams is given up.
OpenStreamsHaveChannel ==
  /\ (\E t \in Tabs : tab[t] = "open") => channel
  /\ pipe = <<>> /\ Live = {} => ~channel

\* What is emitted while streams are open reaches each of them that stays.
EmittedIsHeard == []<>(owed \subseteq heard)
=============================================================================
