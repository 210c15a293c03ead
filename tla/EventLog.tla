------------------------------ MODULE EventLog ------------------------------
(***************************************************************************)
(* The Windows Event Log source (logs/eventlog.rs, eventlog_parse.rs and   *)
(* eventlog_filter.rs): a pump on a thread of its own for each channel,    *)
(* which subscribes behind the saved bookmark, pulls batches of events,    *)
(* ships them and saves the bookmark, and one task that joins the pumps.   *)
(*                                                                         *)
(* An event is a record: xml tells whether it renders to XML that parses   *)
(* ("fine"), that does not or is too long ("bad"), or not at all ("none"). *)
(* id 0 is an event id that is not a number.  A bookmark is the number of  *)
(* an event of the channel, 0 the bookmark that points nowhere.  The file  *)
(* of the bookmark is NoFile, or holds one.  The SDK channel may be full   *)
(* at any attempt; delays are left to the scheduler.                       *)
(***************************************************************************)
EXTENDS SourceParams

\* The provider name of the agent itself.
SELF_PROVIDER == "witness"

NoFile == -1

VARIABLES
    events,         \* the events of each channel
    fate,           \* what became of each
    again,          \* <<channel, number>> of those shipped more than once
    pump,           \* the pump of each channel: where it is (pc), how many events it
                    \* is done with (at), the last of its batch (upto), the bookmark,
                    \* the events since the last save, and the signal
    saved,          \* the bookmark file of each channel
    task,           \* tail_eventlog
    cancel,         \* the shutdown watch
    sink,           \* "live" or "dry_run"
    crashes, bad_saves, bad_updates, stops      \* counters behind the bounds

logs == <<events, fate, again>>
world == <<cancel, sink, crashes, stops>>
vars == <<logs, pump, saved, task, bad_saves, bad_updates, world>>

Fate == {"waiting", "shipped", "printed", "filtered", "unparsed", "unrendered", "before_start"}

NewPump == [pc |-> "start", at |-> 0, upto |-> 0, bookmark |-> 0, since_save |-> 0,
            signal |-> "off"]

\* pump_once has returned.
Over(p) == [NewPump EXCEPT !.pc = p]

Init ==
    /\ events = [c \in Channel |-> <<>>] /\ fate = [c \in Channel |-> <<>>] /\ again = {}
    /\ pump = [c \in Channel |-> NewPump] /\ saved = [c \in Channel |-> NoFile]
    /\ task = "runs" /\ cancel = "no" /\ sink = "live"
    /\ crashes = 0 /\ bad_saves = 0 /\ bad_updates = 0 /\ stops = 0

-----------------------------------------------------------------------------
(* The filters and process_entry *)

InRanges(id, ranges) == \E r \in ranges : id >= r[1] /\ id <= r[2]

\* EventIdFilter::matches
Matches(id) ==
    /\ ~InRanges(id, ExcludeIds)
    /\ IncludeIds = {} \/ InRanges(id, IncludeIds)

\* mask_event_id: the low 16 bits.
MaskEventId(id) == IF id > 65535 THEN id % 65536 ELSE id

\* EventFilter::excludes; an id that is not a number is never filtered.
Excluded(e) ==
    \/ e.provider \in ExcludeProviders
    \/ e.id # 0 /\ ~Matches(MaskEventId(e.id))

\* Where an event goes when the sink takes it.
Process(e) ==
    CASE e.xml = "none" -> "unrendered"
      [] e.xml = "bad" -> "unparsed"
      [] e.xml = "fine" /\ (e.provider = SELF_PROVIDER \/ Excluded(e)) -> "filtered"
      [] e.xml = "fine" /\ e.provider # SELF_PROVIDER /\ ~Excluded(e) ->
             IF sink = "live" THEN "shipped" ELSE "printed"

-----------------------------------------------------------------------------
(* The bookmark file *)

\* flush: the bookmark, also one that points nowhere, is rendered and written;
\* either may fail unnoticed.
Flush(c, b) ==
    \/ saved' = [saved EXCEPT ![c] = b] /\ UNCHANGED bad_saves
    \/ bad_saves < MaxBadSaves /\ bad_saves' = bad_saves + 1 /\ UNCHANGED saved

-----------------------------------------------------------------------------
(* run_channel, pump_once *)

\* Where a subscription starts: behind the bookmark; with the next event if there
\* is no bookmark file; for a bookmark that points nowhere, either the oldest
\* event or the next one.
StartOf(c) ==
    CASE saved[c] = NoFile -> {Len(events[c])}
      [] saved[c] = 0 -> {0, Len(events[c])}
      [] saved[c] > 0 -> {saved[c]}

Subscribe(c) ==
    /\ task = "runs" /\ pump[c].pc = "start" /\ cancel = "no"
    /\ \E s \in StartOf(c) :
           /\ pump' = [pump EXCEPT ![c] = [NewPump EXCEPT !.pc = "wait", !.at = s,
                                               !.bookmark = IF saved[c] = NoFile THEN 0 ELSE saved[c]]]
           /\ fate' = [fate EXCEPT ![c] = [i \in DOMAIN @ |->
                          IF s = Len(events[c]) /\ saved[c] <= 0 /\ @[i] = "waiting"
                          THEN "before_start" ELSE @[i]]]
    /\ UNCHANGED <<events, again, saved, task, bad_saves, bad_updates, world>>

\* The channel may not be read: the pump ends.
AccessDenied(c) ==
    /\ task = "runs" /\ pump[c].pc = "start" /\ cancel = "no"
    /\ pump' = [pump EXCEPT ![c] = Over("denied")]
    /\ UNCHANGED <<logs, saved, task, bad_saves, bad_updates, world>>

\* The handles cannot be made: PumpExit::Failed.
SubscribeFails(c) ==
    /\ task = "runs" /\ pump[c].pc = "start" /\ cancel = "no"
    /\ pump' = [pump EXCEPT ![c] = Over("failed")]
    /\ UNCHANGED <<logs, saved, task, bad_saves, bad_updates, world>>

\* (mutant) a pump that failed is given up.
GivesUp(c) ==
    /\ task = "runs" /\ pump[c].pc \in {"start", "failed"}
    /\ cancel = "yes" \/ pump[c].pc = "failed"
    /\ pump' = [pump EXCEPT ![c] = Over("ended")]
    /\ UNCHANGED <<logs, saved, task, bad_saves, bad_updates, world>>

\* The delay before the next attempt is over, or is cut short; run_channel looks
\* at the shutdown first.
Retry(c) ==
    /\ task = "runs" /\ pump[c].pc \in {"start", "failed"}
    /\ IF cancel = "yes" THEN pump' = [pump EXCEPT ![c] = Over("ended")]
       ELSE pump[c].pc = "failed" /\ pump' = [pump EXCEPT ![c].pc = "start"]
    /\ UNCHANGED <<logs, saved, task, bad_saves, bad_updates, world>>

-----------------------------------------------------------------------------
(* pull_loop, drain_batch, ship_event *)

\* The service sets the manual-reset event of a subscription with events; nobody
\* resets it.
Signal(c) ==
    /\ task = "runs" /\ pump[c].signal = "off"
    /\ pump[c].pc = "wait" /\ pump[c].at < Len(events[c])
    /\ pump' = [pump EXCEPT ![c].signal = "on"]
    /\ UNCHANGED <<logs, saved, task, bad_saves, bad_updates, world>>

Wake(c) ==
    /\ task = "runs" /\ pump[c].pc = "wait" /\ pump[c].signal = "on" /\ cancel = "no"
    /\ pump' = [pump EXCEPT ![c].pc = "drain"]
    /\ UNCHANGED <<logs, saved, task, bad_saves, bad_updates, world>>

\* The shutdown, seen between batches or in backpressure: the last flush.
Cancelled(c) ==
    /\ task = "runs" /\ pump[c].pc \in {"wait", "full"} /\ cancel = "yes"
    /\ Flush(c, pump[c].bookmark)
    /\ pump' = [pump EXCEPT ![c] = Over("ended")]
    /\ UNCHANGED <<logs, task, bad_updates, world>>

\* EvtNext: a batch, or none.
PullBatch(c) ==
    /\ task = "runs" /\ pump[c].pc = "drain"
    /\ IF pump[c].at = Len(events[c])
       THEN pump' = [pump EXCEPT ![c].pc = "wait"]
       ELSE \E n \in 1..Batch :
                /\ pump[c].at + n <= Len(events[c])
                /\ pump' = [pump EXCEPT ![c].pc = "ship", ![c].upto = pump[c].at + n]
    /\ UNCHANGED <<logs, saved, task, bad_saves, bad_updates, world>>

PullFails(c) ==
    /\ task = "runs" /\ pump[c].pc = "drain"
    /\ Flush(c, pump[c].bookmark)
    /\ pump' = [pump EXCEPT ![c] = Over("failed")]
    /\ UNCHANGED <<logs, task, bad_updates, world>>

\* Event i of the channel is processed, and the sink took it.
Processed(c, i) ==
    LET f == Process(events[c][i]) IN
    /\ fate' = [fate EXCEPT ![c][i] = IF @ = "shipped" THEN @ ELSE f]
    /\ again' = IF fate[c][i] = "shipped" /\ f = "shipped" THEN again \cup {<<c, i>>} ELSE again
    /\ UNCHANGED events

AfterEvent(c) == IF pump[c].at + 1 = pump[c].upto THEN "drain" ELSE "ship"

\* An event that cannot be rendered is dropped; the bookmark stays.
SkipUnrendered(c) ==
    /\ task = "runs" /\ pump[c].pc = "ship"
    /\ LET i == pump[c].at + 1 IN
       /\ events[c][i].xml = "none"
       /\ Processed(c, i)
       /\ pump' = [pump EXCEPT ![c].at = i, ![c].pc = AfterEvent(c)]
    /\ UNCHANGED <<saved, task, bad_saves, bad_updates, world>>

\* The bookmark moves to an event that was processed, and is saved now and then.
Ship(c) ==
    /\ task = "runs" /\ pump[c].pc \in {"ship", "full"}
    /\ LET i == pump[c].at + 1
           full == pump[c].since_save + 1 >= SaveInterval IN
       /\ events[c][i].xml # "none"
       /\ Processed(c, i)
       /\ pump' = [pump EXCEPT ![c].at = i, ![c].bookmark = i, ![c].pc = AfterEvent(c),
                               ![c].since_save = IF full THEN 0 ELSE @ + 1]
       /\ IF full THEN Flush(c, i) ELSE UNCHANGED <<saved, bad_saves>>
    /\ UNCHANGED <<task, bad_updates, world>>

\* EvtUpdateBookmark fails behind an event that was processed.
UpdateFails(c) ==
    /\ task = "runs" /\ pump[c].pc \in {"ship", "full"} /\ bad_updates < MaxBadUpdates
    /\ events[c][pump[c].at + 1].xml # "none"
    /\ Processed(c, pump[c].at + 1)
    /\ Flush(c, pump[c].bookmark)
    /\ bad_updates' = bad_updates + 1
    /\ pump' = [pump EXCEPT ![c] = Over("failed")]
    /\ UNCHANGED <<task, world>>

\* (mutant) the event that finds the channel full is dropped.
FullAndDropped(c) ==
    /\ task = "runs" /\ pump[c].pc = "ship"
    /\ Process(events[c][pump[c].at + 1]) = "shipped"
    /\ pump' = [pump EXCEPT ![c].at = @ + 1, ![c].pc = AfterEvent(c)]
    /\ UNCHANGED <<logs, saved, task, bad_saves, bad_updates, world>>

ChannelFull(c) ==
    /\ task = "runs" /\ pump[c].pc = "ship"
    /\ Process(events[c][pump[c].at + 1]) = "shipped"
    /\ pump' = [pump EXCEPT ![c].pc = "full"]
    /\ UNCHANGED <<logs, saved, task, bad_saves, bad_updates, world>>

-----------------------------------------------------------------------------
(* tail_eventlog and the system around it *)

\* (mutant) the pumps are not joined.
NotJoined == cancel = "yes"

AllJoined == cancel = "yes" /\ \A c \in Channel : pump[c].pc \in {"ended", "denied"}

Join ==
    /\ task = "runs" /\ AllJoined
    /\ task' = "stopped"
    /\ UNCHANGED <<logs, pump, saved, bad_saves, bad_updates, world>>

Log(c, e) ==
    /\ Len(events[c]) < MaxEvents[c]
    /\ events' = [events EXCEPT ![c] = Append(@, e)]
    /\ fate' = [fate EXCEPT ![c] = Append(@, "waiting")]
    /\ UNCHANGED <<again, pump, saved, task, bad_saves, bad_updates, world>>

Shutdown ==
    /\ task = "runs" /\ cancel = "no" /\ stops < MaxStops
    /\ cancel' = "yes" /\ stops' = stops + 1
    /\ UNCHANGED <<logs, pump, saved, task, bad_saves, bad_updates, sink, crashes>>

Crash ==
    /\ task = "runs" /\ crashes < MaxCrash
    /\ crashes' = crashes + 1 /\ task' = "down"
    /\ pump' = [c \in Channel |-> NewPump]
    /\ UNCHANGED <<logs, saved, bad_saves, bad_updates, cancel, sink, stops>>

Start(s) ==
    /\ task \in {"stopped", "down"}
    /\ task' = "runs" /\ cancel' = "no" /\ sink' = s
    /\ pump' = [c \in Channel |-> NewPump]
    /\ UNCHANGED <<logs, saved, bad_saves, bad_updates, crashes, stops>>

-----------------------------------------------------------------------------
\* What a pump does as soon as its thread runs.
PumpGoesOn(c) == \/ Retry(c) \/ Signal(c) \/ Wake(c) \/ Cancelled(c)
                 \/ PullBatch(c) \/ SkipUnrendered(c)

Pump(c) == \/ Subscribe(c) \/ AccessDenied(c) \/ SubscribeFails(c) \/ Retry(c)
           \/ Signal(c) \/ Wake(c) \/ Cancelled(c) \/ PullBatch(c) \/ PullFails(c)
           \/ SkipUnrendered(c) \/ Ship(c) \/ UpdateFails(c) \/ ChannelFull(c)

Next ==
    \/ \E c \in Channel : Pump(c) \/ (\E e \in Event : Log(c, e))
    \/ Join \/ Shutdown \/ Crash
    \/ \E s \in {"live", "dry_run"} : Start(s)

Spec == Init /\ [][Next]_vars

-----------------------------------------------------------------------------
(* Properties *)

\* Every variable has the values the code can give it.
TypeOK ==
    /\ \A c \in Channel :
           /\ Len(fate[c]) = Len(events[c])
           /\ \A i \in DOMAIN fate[c] : fate[c][i] \in Fate
           /\ {pump[c].at, pump[c].upto, pump[c].bookmark} \subseteq 0..Len(events[c])
           /\ pump[c].since_save \in 0..SaveInterval - 1
           /\ pump[c].pc \in {"ship", "full"} => pump[c].at < pump[c].upto
           /\ saved[c] \in NoFile..Len(events[c])

\* The saved bookmark of a channel never passes an event that is still to be shipped.
BookmarkBehind ==
    \A c \in Channel : \A i \in 1..saved[c] : fate[c][i] # "waiting"

\* Nothing is shipped twice unless the agent crashes, a bookmark cannot be written
\* or EvtUpdateBookmark fails behind an event that was shipped.
OnlyFaultsRepeat == again # {} => crashes + bad_saves + bad_updates > 0

\* When tail_eventlog has returned, no pump of it is at work: the next run would
\* ship what that pump ships.
NoPumpLeft == task = "stopped" => \A c \in Channel : pump[c].pc \in {"ended", "denied"}

\* tail_eventlog has returned.
Ended == task \in {"stopped", "down"}

\* The task is over, or every event of a channel that may be read is dealt with.
Settled ==
    \A c \in Channel :
        Ended \/ cancel = "yes" \/ pump[c].pc = "denied"
            \/ \A i \in DOMAIN fate[c] : fate[c][i] # "waiting"

\* Each channel promises at-least-once delivery behind its bookmark, whatever the
\* pumps of the others do.
Position(c) == IF saved[c] = NoFile THEN 0 ELSE saved[c]
Subscribed(c) == pump[c].pc \in {"wait", "drain", "ship", "full"}
Promise(c) == INSTANCE AtLeastOnce WITH
    log <- Len(events[c]), done <- {i \in 1..Len(fate[c]) : fate[c][i] # "waiting"},
    pos <- IF Subscribed(c) THEN pump[c].bookmark ELSE Position(c), mark <- Position(c)
AtLeastOnceSpec ==
    /\ \A c \in Channel : Promise(c)!Init
    /\ [][\A c \in Channel : Promise(c)!Next \/ UNCHANGED Promise(c)!abstract]_vars
=============================================================================
