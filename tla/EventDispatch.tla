---------------------------- MODULE EventDispatch ---------------------------
(***************************************************************************)
(* Events of SparkProtocol: the limit on those sent, and the handlers of   *)
(* those received.  Names are sequences of the parts between slashes.      *)
(* Time passes in units of 250 ms on a clock that wraps.                   *)
(***************************************************************************)
EXTENDS Naturals, Sequences, SequencesExt

CONSTANTS
  Wrap,         \* units until millis() is 0 again
  MaxHandlers,  \* event_handlers has this many
  Names, Filters

Second == 4
Ring   == 5
Ages   == 0 .. Second - 1

NoCall == [name |-> <<>>, handler |-> 0, whole |-> TRUE]

VARIABLES
  eventTicks, \* ages of recent_event_ticks, beginning with the one due next
  updating,
  sent,       \* history: how many events were sent so many units ago, within a second
  handlers,   \* the filters of event_handlers
  called      \* the last event, who got it, and whether with its whole name and data

events == <<eventTicks, updating, sent, handlers, called>>

Init ==
  /\ eventTicks = [i \in 1 .. Ring |-> Second] /\ updating = FALSE
  /\ sent = [age \in Ages |-> 0] /\ handlers = <<>> /\ called = NoCall

\* Mutant: the time is compared before the index moves on.
BugBurst == eventTicks[1] < Second

\* The fourth attempt before this one was less than a second ago.
Burst == eventTicks[2] < Second

\* send_event: an attempt that is turned down counts as well.
SendEvent ==
  /\ ~updating /\ eventTicks' = Append(Tail(eventTicks), 0)
  /\ sent' = IF Burst THEN sent ELSE [sent EXCEPT ![0] = @ + 1]
  /\ UNCHANGED <<updating, handlers, called>>

\* An update begins or ends: no events are sent in between.
Update == updating' = ~updating /\ UNCHANGED <<eventTicks, sent, handlers, called>>

Older(age) == (age + 1) % Wrap

Tick ==
  /\ eventTicks' = [i \in 1 .. Ring |-> Older(eventTicks[i])]
  /\ sent' = [age \in Ages |-> IF age = 0 THEN 0 ELSE sent[age - 1]]
  /\ UNCHANGED <<updating, handlers, called>>

-----------------------------------------------------------------------------
\* add_event_handler; a full table refuses.
AddEventHandler(filter) ==
  /\ Len(handlers) < MaxHandlers /\ handlers' = Append(handlers, filter)
  /\ called' = NoCall
  /\ UNCHANGED <<eventTicks, updating, sent>>

\* Joining the parts of the name for the first handler overwrites the message: the
\* others find the first part only, and no data.
Seen(name, i) == IF i = 1 THEN name ELSE SubSeq(name, 1, 1)

\* The first handler whose filter matches gets the event.  NUM_HANDLERS is more than the
\* table has: when it is full what lies behind is taken for a handler, and may match.
ReceiveEvent(name) ==
  LET hits == {i \in DOMAIN handlers : IsPrefix(handlers[i], Seen(name, i))}
      none == IF Len(handlers) = MaxHandlers THEN {0, MaxHandlers + 1} ELSE {0}
      first == {h \in hits : \A k \in hits : h <= k}
  IN  /\ \E i \in IF hits = {} THEN none ELSE first :
           called' = [name |-> name, handler |-> i, whole |-> Seen(name, i) = name]
      /\ UNCHANGED <<eventTicks, updating, sent, handlers>>

Next ==
  \/ SendEvent \/ Update \/ Tick
  \/ \E filter \in Filters : AddEventHandler(filter)
  \/ \E name \in Names : ReceiveEvent(name)

-----------------------------------------------------------------------------
(* Properties *)

TypeOK ==
  /\ eventTicks \in [1 .. Ring -> 0 .. Wrap - 1] /\ updating \in BOOLEAN
  /\ sent \in [Ages -> Nat]
  /\ handlers \in Seq(Filters) /\ Len(handlers) <= MaxHandlers
  /\ called.handler \in 0 .. MaxHandlers + 1

\* "exceeded allowable burst of 4 events per second": however the attempts fall, and when
\* the clock wraps too, no second sees more than four.
AtMostFour == sent[0] + sent[1] + sent[2] + sent[3] <= 4

\* "try the next event handler": an event gets to the first handler for it, as it was
\* sent.  False as soon as a name has two parts and two handlers are set.
GetsWholeEvent ==
  called.name # <<>> /\ (\E i \in DOMAIN handlers : IsPrefix(handlers[i], called.name)) =>
    called.handler \in DOMAIN handlers /\ called.whole
=============================================================================
