---------------------------- MODULE EmployeeEvents ----------------------------
(***************************************************************************)
(* The employee.created event from RabbitMQService.publishMessage over     *)
(* queue employee_queue to EmployeeConsumer.  main.ts connects the         *)
(* consumer without noAck, which for Nest means that the broker takes a    *)
(* message for acknowledged when it delivers it.  The handler acknowledges *)
(* it once more; the broker closes the channel over such an unknown        *)
(* delivery, and the consumer hears no more until it connects anew.        *)
(***************************************************************************)
EXTENDS Naturals

CONSTANTS Events   \* bound: employees announced, each once

VARIABLES published, \* history: events a create has announced
          unsent,    \* events in the publisher's memory
          queue,     \* employee_queue, on the broker
          channel,   \* the consumer's: "open" or "closed"
          step,      \* where the handler of each event is
          stale,     \* events whose handlers hold a channel given up since
          emails,    \* history: welcome e-mails sent, by event
          synced,    \* history: events synced with the payroll
          dropped,   \* history: events the broker or a crash forgot
          cut        \* history: events whose handler a crash has cut off

handlers == <<step, stale>>
history  == <<emails, synced, cut>>
vars == <<published, unsent, queue, channel, handlers, history, dropped>>

Steps   == {"none", "email", "payroll", "ack"}
Handled == {e \in Events : step[e] # "none"}

TypeOK ==
  /\ published \subseteq Events /\ unsent \subseteq Events
  /\ queue \subseteq Events /\ dropped \subseteq Events
  /\ synced \subseteq Events /\ cut \subseteq Events
  /\ stale \subseteq Handled
  /\ channel \in {"open", "closed"}
  /\ step \in [Events -> Steps]
  /\ emails \in [Events -> 0..2]

Init ==
  /\ published = {} /\ unsent = {} /\ queue = {} /\ dropped = {}
  /\ stale = {} /\ synced = {} /\ cut = {}
  /\ channel = "open"
  /\ step = [e \in Events |-> "none"]
  /\ emails = [e \in Events |-> 0]

\* client.emit: the create goes on whether or not the event ever leaves.
Publish(e) ==
  /\ e \notin published
  /\ published' = published \cup {e}
  /\ unsent' = unsent \cup {e}
  /\ UNCHANGED <<queue, channel, handlers, history, dropped>>

\* publishMessage logs an error and gives up; the event is gone.
Emit(e) ==
  /\ e \in unsent
  /\ unsent' = unsent \ {e}
  /\ \/ queue' = queue \cup {e} /\ UNCHANGED dropped
     \/ dropped' = dropped \cup {e} /\ UNCHANGED queue
  /\ UNCHANGED <<published, channel, handlers, history>>

\* Mutant of Deliver: the broker keeps what it delivers and delivers it again.
DeliverUnacked(e) ==
  /\ channel = "open" /\ e \in queue /\ step[e] = "none"
  /\ step' = [step EXCEPT ![e] = "email"]
  /\ UNCHANGED <<published, unsent, queue, channel, stale, history, dropped>>

\* Mutant of Deliver: one event is handled at a time, others are passed over.
DeliverIfIdle(e) ==
  /\ channel = "open" /\ e \in queue
  /\ queue' = queue \ {e}
  /\ step' = IF Handled = {} THEN [step EXCEPT ![e] = "email"] ELSE step
  /\ UNCHANGED <<published, unsent, channel, stale, history, dropped>>

\* Delivered messages are handled at once, beside those still being handled.
Deliver(e) ==
  /\ channel = "open" /\ e \in queue
  /\ queue' = queue \ {e}
  /\ step' = [step EXCEPT ![e] = "email"]
  /\ UNCHANGED <<published, unsent, channel, stale, history, dropped>>

SendWelcomeEmail(e) ==
  /\ step[e] = "email"
  /\ emails' = [emails EXCEPT ![e] = @ + 1]
  /\ step' = [step EXCEPT ![e] = "payroll"]
  /\ UNCHANGED <<published, unsent, queue, channel, stale, synced, cut, dropped>>

\* Mutant of SyncWithPayroll: a closed channel stops the handlers too.
SyncWithPayrollWhileOpen(e) ==
  /\ channel = "open"
  /\ step[e] = "payroll"
  /\ synced' = synced \cup {e}
  /\ step' = [step EXCEPT ![e] = "ack"]
  /\ UNCHANGED <<published, unsent, queue, channel, stale, emails, cut, dropped>>

SyncWithPayroll(e) ==
  /\ step[e] = "payroll"
  /\ synced' = synced \cup {e}
  /\ step' = [step EXCEPT ![e] = "ack"]
  /\ UNCHANGED <<published, unsent, queue, channel, stale, emails, cut, dropped>>

\* Mutant of Ack: the channel is left half closed.
AckHalfway(e) ==
  /\ step[e] = "ack"
  /\ channel' = "closing"
  /\ step' = [step EXCEPT ![e] = "none"]
  /\ stale' = stale \ {e}
  /\ UNCHANGED <<published, unsent, queue, history, dropped>>

\* The handler acknowledges on the channel its message came by.  On a closed one
\* ack throws, which Nest only logs.
Ack(e) ==
  /\ step[e] = "ack"
  /\ channel' = IF e \in stale THEN channel ELSE "closed"
  /\ step' = [step EXCEPT ![e] = "none"]
  /\ stale' = stale \ {e}
  /\ UNCHANGED <<published, unsent, queue, history, dropped>>

\* The messages that may be on their way to the consumer: the broker has taken
\* them for acknowledged.
OnTheirWay == IF channel = "open" THEN queue ELSE {}

\* The connection breaks, what is on its way is gone, and the consumer sets up
\* its channel again.
Reconnect ==
  /\ channel' = "open"
  /\ \E es \in SUBSET OnTheirWay : queue' = queue \ es /\ dropped' = dropped \cup es
  /\ stale' = Handled
  /\ UNCHANGED <<published, unsent, step, history>>

\* Publisher and consumer are one process: it ends and is started again.
Crash ==
  /\ channel' = "open"
  /\ unsent' = {}
  /\ step' = [e \in Events |-> "none"] /\ stale' = {}
  /\ cut' = cut \cup Handled
  /\ \E es \in SUBSET OnTheirWay :
       /\ queue' = queue \ es
       /\ dropped' = dropped \cup es \cup unsent \cup {e \in Handled : emails[e] = 0}
  /\ UNCHANGED <<published, emails, synced>>

\* The queue is durable, Nest publishes messages that are not persistent.
BrokerRestart ==
  /\ queue' = {} /\ dropped' = dropped \cup queue
  /\ channel' = "open"
  /\ stale' = Handled
  /\ UNCHANGED <<published, unsent, step, history>>

Work(e) == Emit(e) \/ Deliver(e) \/ SendWelcomeEmail(e) \/ SyncWithPayroll(e) \/ Ack(e)

Next == (\E e \in Events : Publish(e) \/ Work(e)) \/ Reconnect \/ Crash \/ BrokerRestart

Spec == Init /\ [][Next]_vars

\* The process and the broker go on with what they hold.
FairSpec == Spec /\ \A e \in Events : WF_vars(Work(e))

(* ------------------------------- Refinement ---------------------------- *)

\* An event is due while the publisher, the broker or a handler that has not
\* sent the e-mail yet holds it.
Due == unsent \cup queue \cup {e \in Events : step[e] = "email"}

Delivery == INSTANCE EventDelivery WITH due <- Due, welcomes <- emails, lost <- dropped

(* ------------------------------- Properties ---------------------------- *)

\* Publisher, broker and consumer together deliver an event at most once, and
\* one that is welcomed late is not lost before, nor one lost welcomed after.
ImplementsDelivery == Delivery!Spec

\* No employee is welcomed twice, through crashes, broken connections and
\* broker restarts: a delivered message never comes back.
WelcomedAtMostOnce == \A e \in Events : emails[e] <= 1

\* Who has an announced event, or what has become of it.
Whereabouts == [
  publisher |-> unsent,
  broker    |-> queue,
  handler   |-> {e \in Events : step[e] = "email"},
  welcomed  |-> {e \in Events : emails[e] > 0},
  dropped   |-> dropped]

\* An announced event is in one place and in one only, until the employee is
\* welcomed or the event dropped: nothing gets lost while everything keeps
\* running, and nothing is dropped that is still to come.
Accounted ==
  \A e \in published : \E place \in DOMAIN Whereabouts :
    /\ e \in Whereabouts[place]
    /\ \A other \in DOMAIN Whereabouts \ {place} : e \notin Whereabouts[other]

\* What was delivered is handled to its end, e-mail, payroll and acknowledgement,
\* also when the acknowledgement of another event closes the channel meanwhile or
\* the connection breaks, unless the process ends.
DeliveredIsHandled ==
  \A e \in Events : step[e] # "none"
    ~> (e \in cut \/ (step[e] = "none" /\ emails[e] > 0 /\ e \in synced))
=============================================================================
