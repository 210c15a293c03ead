--------------------------- MODULE EventLog_proofs --------------------------
(***************************************************************************)
(* EventLog, for any channels, events, filters, intervals and faults: no   *)
(* bookmark passes an event that is still to be shipped, no pump outlives  *)
(* its task, nothing is repeated without a fault, and each channel         *)
(* implements AtLeastOnce.                                                 *)
(*                                                                         *)
(* IInv says of each channel where its pump is: the file is behind the     *)
(* bookmark, the bookmark behind what was pulled, and nothing behind any   *)
(* of them is waiting.  ShippedIsBehind adds for OnlyFaultsRepeat that     *)
(* without a fault what was shipped is behind the position read from.      *)
(***************************************************************************)
EXTENDS EventLog, TLAPS

PumpType ==
    [pc : {"start", "wait", "drain", "ship", "full", "failed", "denied", "ended"},
     at : Nat, upto : Nat, bookmark : Nat, since_save : Nat, signal : {"off", "on"}]

Types ==
    /\ events \in [Channel -> Seq(Event)] /\ fate \in [Channel -> Seq(Fate)]
    /\ pump \in [Channel -> PumpType] /\ saved \in [Channel -> Int]
    /\ sink \in {"live", "dry_run"}
    /\ crashes \in Nat /\ bad_saves \in Nat /\ bad_updates \in Nat

\* The position of a pump: the bookmark is behind what it is done with, the file
\* behind the bookmark, and nothing behind either is waiting.
Filed(c) ==
    /\ Len(fate[c]) = Len(events[c])
    /\ saved[c] \in NoFile..Len(events[c])
    /\ \A i \in 1..saved[c] : fate[c][i] # "waiting"
Placed(c) ==
    Subscribed(c) =>
        /\ Position(c) <= pump[c].bookmark /\ pump[c].bookmark <= pump[c].at
        /\ pump[c].at <= Len(events[c])
        /\ \A i \in 1..pump[c].at : fate[c][i] # "waiting"
Pulled(c) ==
    pump[c].pc \in {"ship", "full"} =>
        pump[c].at < pump[c].upto /\ pump[c].upto <= Len(events[c])
InOrder(c) == Filed(c) /\ Placed(c) /\ Pulled(c)

\* A pump that is subscribed is one of a task that runs.
PumpsOfTask ==
    /\ task # "runs" => \A c \in Channel : ~Subscribed(c)
    /\ NoPumpLeft

IInv == Types /\ PumpsOfTask /\ \A c \in Channel : InOrder(c)

\* A shorter stretch of numbers lies within a longer one.
LEMMA RangeIn == ASSUME NEW a \in Nat, NEW b \in Nat, a <= b PROVE 1..a \subseteq 1..b
<1>1. \A x \in 1..a : x \in 1..b
  OBVIOUS
<1>2. QED
  BY Zenon, <1>1

\* A step that only touches channel c.
LEMMA OneChannel ==
    ASSUME IInv, NEW c \in Channel, Types', InOrder(c)', task = "runs", task' = "runs",
           \A d \in Channel \ {c} : /\ events'[d] = events[d] /\ fate'[d] = fate[d]
                                    /\ pump'[d] = pump[d] /\ saved'[d] = saved[d]
    PROVE  IInv'
<1>1. PumpsOfTask'
  BY Zenon DEF PumpsOfTask, NoPumpLeft
<1>2. ASSUME NEW d \in Channel \ {c} PROVE InOrder(d)'
  <2>1. InOrder(d)
    BY Zenon DEF IInv
  <2>2. QED
    BY Zenon, <2>1 DEF InOrder, Filed, Placed, Pulled, Subscribed, Position
<1>3. QED
  BY Zenon, <1>1, <1>2 DEF IInv

\* Where a channel is: the file, the bookmark and what was pulled.
LEMMA Places ==
    ASSUME IInv, NEW c \in Channel
    PROVE  /\ pump[c] \in PumpType /\ Len(events[c]) \in Nat /\ Len(fate[c]) = Len(events[c])
           /\ saved[c] \in NoFile..Len(events[c])
           /\ Subscribed(c) => /\ saved[c] <= pump[c].bookmark /\ Position(c) <= pump[c].bookmark
                               /\ pump[c].bookmark <= pump[c].at /\ pump[c].at <= Len(events[c])
           /\ pump[c].pc \in {"ship", "full"} =>
                  Subscribed(c) /\ pump[c].at < pump[c].upto /\ pump[c].upto <= Len(events[c])
<1>1. pump[c] \in PumpType /\ events[c] \in Seq(Event) /\ InOrder(c)
  BY Zenon DEF IInv, Types
<1>2. saved[c] <= Position(c)
  BY <1>1 DEF InOrder, Filed, Position, NoFile
<1>3. pump[c].bookmark \in Nat /\ Position(c) \in Nat /\ saved[c] \in Int
  BY <1>1 DEF PumpType, InOrder, Filed, Position, NoFile
<1>4. QED
  BY <1>1, <1>2, <1>3 DEF InOrder, Filed, Placed, Pulled, Subscribed

\* The pump of c becomes r.
LEMMA PumpBecomes ==
    ASSUME pump \in [Channel -> PumpType], NEW c \in Channel, NEW r \in PumpType,
           pump' = [pump EXCEPT ![c] = r]
    PROVE  /\ pump' \in [Channel -> PumpType] /\ pump'[c] = r
           /\ \A d \in Channel \ {c} : pump'[d] = pump[d]
BY Zenon

LEMMA OverIs ==
    ASSUME NEW p
    PROVE  Over(p) = [pc |-> p, at |-> 0, upto |-> 0, bookmark |-> 0, since_save |-> 0,
                      signal |-> "off"]
BY DEF Over, NewPump

LEMMA ProcessDeals ==
    ASSUME NEW e \in Event, sink \in {"live", "dry_run"}
    PROVE  /\ Process(e) \in Fate \ {"waiting"}
           /\ Process(e) = "shipped" => e.xml # "none"
BY Zenon, EventLogAssumption DEF Process, Fate

LEMMA InitIInv == Init => IInv
<1> SUFFICES ASSUME Init PROVE IInv
  BY Zenon
<1>1. Types
  BY DEF Init, Types, PumpType, NewPump, NoFile, Fate
<1>2. QED
  BY <1>1 DEF Init, IInv, PumpsOfTask, NoPumpLeft, InOrder, Filed, Placed, Pulled, NewPump, NoFile, Subscribed, Position

\* The pump of c is not subscribed afterwards, and nothing was flushed.
LEMMA NotSubscribed ==
    ASSUME IInv, NEW c \in Channel, NEW p \in {"start", "failed", "denied", "ended"},
           task = "runs", pump' = [pump EXCEPT ![c] = Over(p)],
           UNCHANGED <<logs, saved, task, bad_saves, bad_updates, world>>
    PROVE  IInv'
<1>1. Over(p) \in PumpType /\ Over(p).pc = p
  BY Zenon, OverIs DEF PumpType
<1>2. Types' /\ pump'[c] = Over(p) /\ \A d \in Channel \ {c} : pump'[d] = pump[d]
  BY Zenon, <1>1 DEF IInv, Types, logs, world
<1>3. InOrder(c)'
  BY Zenon, <1>1, <1>2 DEF IInv, InOrder, Filed, Placed, Pulled, Subscribed, logs
<1>4. QED
  BY Zenon, <1>2, <1>3, OneChannel DEF logs

\* The last flush of a pump.
LEMMA LastFlush ==
    ASSUME IInv, NEW c \in Channel, NEW p \in {"failed", "ended"}, task = "runs", Subscribed(c),
           Flush(c, pump[c].bookmark), pump' = [pump EXCEPT ![c] = Over(p)],
           UNCHANGED <<logs, task, bad_updates, world>>
    PROVE  IInv'
<1>1. Over(p) \in PumpType /\ Over(p).pc = p
  BY Zenon, OverIs DEF PumpType
<1>2. pump[c].bookmark \in Nat /\ pump[c].at \in Nat /\ saved[c] \in Int
  BY Zenon DEF IInv, Types, PumpType
<1>3. Types' /\ pump'[c] = Over(p) /\ \A d \in Channel \ {c} : pump'[d] = pump[d] /\ saved'[d] = saved[d]
  BY <1>1, <1>2 DEF IInv, Types, logs, world, Flush
<1>4. saved'[c] \in {saved[c], pump[c].bookmark}
  BY Zenon DEF IInv, Types, Flush
<1>5. InOrder(c)'
  <2>1. InOrder(c)
    BY Zenon DEF IInv
  <2>2. saved'[c] \in NoFile..Len(events[c]) /\ \A i \in 1..saved'[c] : fate[c][i] # "waiting"
    <3>1. CASE saved'[c] = saved[c]
      BY Zenon, <2>1, <3>1 DEF InOrder, Filed
    <3>2. CASE saved'[c] = pump[c].bookmark
      BY <1>2, <2>1, <3>2, Places DEF InOrder, Placed, NoFile
    <3>3. QED
      BY Zenon, <1>4, <3>1, <3>2
  <2>3. Filed(c)'
    BY Zenon, <2>1, <2>2 DEF InOrder, Filed, logs
  <2>4. Placed(c)' /\ Pulled(c)'
    BY Zenon, <1>1, <1>3 DEF Placed, Pulled, Subscribed
  <2>5. QED
    BY Zenon, <2>3, <2>4 DEF InOrder
<1>6. QED
  BY Zenon, <1>3, <1>5, OneChannel DEF logs

LEMMA SubscribeIInv == ASSUME IInv, NEW c \in Channel, Subscribe(c) PROVE IInv'
<1>1. PICK s \in StartOf(c) :
           /\ pump' = [pump EXCEPT ![c] = [NewPump EXCEPT !.pc = "wait", !.at = s,
                                               !.bookmark = IF saved[c] = NoFile THEN 0 ELSE saved[c]]]
           /\ fate' = [fate EXCEPT ![c] = [i \in DOMAIN @ |->
                          IF s = Len(events[c]) /\ saved[c] <= 0 /\ @[i] = "waiting"
                          THEN "before_start" ELSE @[i]]]
  BY Zenon DEF Subscribe
<1>2. /\ Len(events[c]) \in Nat /\ Len(fate[c]) = Len(events[c]) /\ saved[c] \in NoFile..Len(events[c])
      /\ DOMAIN fate[c] = 1..Len(events[c]) /\ \A i \in 1..saved[c] : fate[c][i] # "waiting"
  BY DEF IInv, Types, InOrder, Filed, Placed, Pulled
<1>3. s \in 0..Len(events[c]) /\ (saved[c] > 0 => s = saved[c]) /\ (saved[c] <= 0 => s \in {0, Len(events[c])})
  BY <1>2 DEF StartOf, NoFile
<1>4. pump'[c] = [pc |-> "wait", at |-> s, upto |-> 0, bookmark |-> Position(c), since_save |-> 0,
                  signal |-> "off"]
  BY Zenon, <1>1 DEF IInv, Types, NewPump, Position
<1>5. Position(c) \in Nat
  BY <1>2 DEF Position, NoFile
<1>6. fate'[c] = [i \in 1..Len(events[c]) |->
                          IF s = Len(events[c]) /\ saved[c] <= 0 /\ fate[c][i] = "waiting"
                          THEN "before_start" ELSE fate[c][i]]
  BY Zenon, <1>1, <1>2 DEF IInv, Types
<1>7. fate'[c] \in Seq(Fate) /\ Len(fate'[c]) = Len(events[c])
  BY <1>2, <1>6 DEF IInv, Types, Fate
<1>8. /\ UNCHANGED <<events, again, saved, task, bad_saves, bad_updates, world>> /\ task = "runs"
      /\ \A d \in Channel \ {c} : pump'[d] = pump[d] /\ fate'[d] = fate[d]
  BY Zenon, <1>1 DEF Subscribe, IInv, Types
<1>9. Types'
  <2>1. pump'[c] \in PumpType
    BY <1>3, <1>4, <1>5 DEF PumpType
  <2>2. pump' \in [Channel -> PumpType]
    BY Zenon, <1>1, <2>1, <1>8 DEF IInv, Types
  <2>3. fate' \in [Channel -> Seq(Fate)]
    BY Zenon, <1>1, <1>7, <1>8 DEF IInv, Types
  <2>4. QED
    BY Zenon, <1>8, <2>2, <2>3 DEF IInv, Types, world
<1>10. \A i \in 1..s : fate'[c][i] # "waiting"
  BY <1>2, <1>3, <1>6
<1>11. \A i \in 1..saved[c] : fate'[c][i] # "waiting"
  BY <1>2, <1>6
<1>12. Position(c)' = Position(c) /\ Position(c) <= s
  BY <1>2, <1>3, <1>8 DEF Position, NoFile
<1>13. InOrder(c)'
  <2>1. pump'[c].pc = "wait" /\ pump'[c].at = s /\ pump'[c].bookmark = Position(c)
    BY <1>4
  <2>2. Len(fate'[c]) = Len(events'[c]) /\ saved'[c] \in NoFile..Len(events'[c])
    BY Zenon, <1>2, <1>7, <1>8
  <2>3. \A i \in 1..saved'[c] : fate'[c][i] # "waiting"
    BY Zenon, <1>8, <1>11
  <2>4. pump'[c].at <= Len(events'[c]) /\ \A i \in 1..pump'[c].at : fate'[c][i] # "waiting"
    BY <1>2, <1>3, <1>8, <1>10, <2>1
  <2>5. QED
    BY <1>5, <1>12, <2>1, <2>2, <2>3, <2>4 DEF InOrder, Filed, Placed, Pulled
<1>14. QED
  BY Zenon, <1>8, <1>9, <1>13, OneChannel

\* The pump moves on without a flush and without an event.
LEMMA MovesOn ==
    ASSUME IInv, NEW c \in Channel,
           \/ Signal(c) \/ Wake(c) \/ PullBatch(c) \/ ChannelFull(c)
           \/ (Retry(c) /\ cancel # "yes")
    PROVE  IInv'
<1>1. /\ pump[c] \in PumpType /\ Len(events[c]) \in Nat /\ InOrder(c)
      /\ UNCHANGED <<logs, saved, task, bad_saves, bad_updates, world>> /\ task = "runs"
      /\ \A d \in Channel \ {c} : pump'[d] = pump[d]
  BY DEF Signal, Wake, PullBatch, ChannelFull, Retry, IInv, Types
<1>2. /\ pump'[c].at = pump[c].at /\ pump'[c].bookmark = pump[c].bookmark
      /\ pump' \in [Channel -> PumpType]
      /\ \/ pump'[c].pc = pump[c].pc /\ pump'[c].upto = pump[c].upto
         \/ pump'[c].pc = "start"
         \/ pump[c].pc = "wait" /\ pump'[c].pc = "drain"
         \/ pump[c].pc = "drain" /\ pump'[c].pc = "wait"
         \/ pump[c].pc = "ship" /\ pump'[c].pc = "full" /\ pump'[c].upto = pump[c].upto
         \/ /\ pump[c].pc = "drain" /\ pump'[c].pc = "ship"
            /\ pump'[c].at < pump'[c].upto /\ pump'[c].upto <= Len(events[c])
  <2>1. CASE Signal(c)
    BY Zenon, <1>1, <2>1 DEF Signal, PumpType, IInv, Types
  <2>2. CASE Wake(c)
    BY Zenon, <1>1, <2>2 DEF Wake, PumpType, IInv, Types
  <2>3. CASE ChannelFull(c)
    BY Zenon, <1>1, <2>3 DEF ChannelFull, PumpType, IInv, Types
  <2>4. CASE Retry(c) /\ cancel # "yes"
    <3> DEFINE r == [pump[c] EXCEPT !.pc = "start"]
    <3>1. r \in PumpType /\ r.pc = "start" /\ r.at = pump[c].at /\ r.bookmark = pump[c].bookmark
      BY Zenon, <1>1 DEF PumpType
    <3>2. pump' = [pump EXCEPT ![c] = r]
      BY Zenon, <2>4 DEF Retry
    <3>3. QED
      BY Zenon, <3>1, <3>2, PumpBecomes DEF IInv, Types
  <2>5. CASE PullBatch(c) /\ pump[c].at = Len(events[c])
    <3> DEFINE r == [pump[c] EXCEPT !.pc = "wait"]
    <3>1. r \in PumpType /\ r.pc = "wait" /\ r.at = pump[c].at /\ r.bookmark = pump[c].bookmark
      BY Zenon, <1>1 DEF PumpType
    <3>2. pump' = [pump EXCEPT ![c] = r] /\ pump[c].pc = "drain"
      BY Zenon, <2>5 DEF PullBatch
    <3>3. QED
      BY Zenon, <3>1, <3>2, PumpBecomes DEF IInv, Types
  <2>6. CASE PullBatch(c) /\ pump[c].at # Len(events[c])
    <3>1. PICK n \in 1..Batch :
                /\ pump[c].at + n <= Len(events[c])
                /\ pump' = [pump EXCEPT ![c].pc = "ship", ![c].upto = pump[c].at + n]
      BY Zenon, <2>6 DEF PullBatch
    <3>2. pump[c].at \in Nat /\ n \in Nat \ {0} /\ pump[c].pc = "drain"
      BY <1>1, <2>6, EventLogAssumption DEF PumpType, PullBatch
    <3> DEFINE r == [pump[c] EXCEPT !.pc = "ship", !.upto = pump[c].at + n]
    <3>3. /\ r \in PumpType /\ r.pc = "ship" /\ r.at = pump[c].at /\ r.bookmark = pump[c].bookmark
          /\ r.at < r.upto /\ r.upto <= Len(events[c])
      <4>1. pump[c].at + n \in Nat /\ pump[c].at < pump[c].at + n /\ pump[c] \in PumpType
        BY <1>1, <3>2
      <4>2. r \in PumpType
        BY Zenon, <4>1 DEF PumpType
      <4>3. r.pc = "ship" /\ r.at = pump[c].at /\ r.bookmark = pump[c].bookmark /\ r.upto = pump[c].at + n
        BY Zenon, <4>1 DEF PumpType
      <4>4. QED
        BY Zenon, <3>1, <4>1, <4>2, <4>3
    <3>4. pump' = [pump EXCEPT ![c] = r]
      BY Zenon, <3>1
    <3>5. QED
      BY Zenon, <3>2, <3>3, <3>4, PumpBecomes DEF IInv, Types
  <2>7. QED
    BY Zenon, <2>1, <2>2, <2>3, <2>4, <2>5, <2>6
<1>3. Types'
  BY Zenon, <1>1, <1>2 DEF IInv, Types, logs, world
<1>4. InOrder(c)'
  <2>1. Filed(c)'
    BY Zenon, <1>1 DEF InOrder, Filed, logs
  <2>2. Placed(c)'
    BY Zenon, <1>1, <1>2 DEF InOrder, Placed, Subscribed, Position, logs
  <2>3. Pulled(c)'
    BY Zenon, <1>1, <1>2 DEF InOrder, Pulled, logs
  <2>4. QED
    BY Zenon, <2>1, <2>2, <2>3 DEF InOrder
<1>5. QED
  BY Zenon, <1>1, <1>3, <1>4, OneChannel DEF logs

\* What Processed does to the fates of a channel.
LEMMA ProcessedFates ==
    ASSUME IInv, NEW c \in Channel, pump[c].pc \in {"ship", "full"}, Processed(c, pump[c].at + 1)
    PROVE  LET i == pump[c].at + 1 IN
           /\ pump[c] \in PumpType /\ pump[c].at \in Nat /\ i \in 1..Len(events[c])
           /\ Len(events[c]) \in Nat
           /\ events[c][i] \in Event /\ fate' \in [Channel -> Seq(Fate)]
           /\ Len(fate'[c]) = Len(events[c]) /\ events' = events
           /\ fate'[c][i] = IF fate[c][i] = "shipped" THEN "shipped" ELSE Process(events[c][i])
           /\ fate'[c][i] # "waiting"
           /\ \A j \in 1..Len(events[c]) : j # i => fate'[c][j] = fate[c][j]
           /\ \A d \in Channel \ {c} : fate'[d] = fate[d]
<1> DEFINE i == pump[c].at + 1
<1>1. /\ pump[c] \in PumpType /\ pump[c].at \in Nat /\ i \in 1..Len(events[c])
      /\ events[c][i] \in Event /\ Len(events[c]) \in Nat
      /\ fate[c] \in Seq(Fate) /\ Len(fate[c]) = Len(events[c])
  BY DEF IInv, Types, InOrder, Filed, Placed, Pulled, PumpType
<1>2. Process(events[c][i]) \in Fate \ {"waiting"}
  BY Zenon, <1>1, ProcessDeals DEF IInv, Types
<1>3. fate' = [fate EXCEPT ![c][i] = IF @ = "shipped" THEN @ ELSE Process(events[c][i])] /\ events' = events
  BY Zenon DEF Processed
<1>4. fate'[c] = [fate[c] EXCEPT ![i] = IF @ = "shipped" THEN @ ELSE Process(events[c][i])]
  BY Zenon, <1>3 DEF IInv, Types
<1>5. "shipped" \in Fate
  BY Zenon DEF Fate
<1>6. fate'[c] \in Seq(Fate) /\ Len(fate'[c]) = Len(events[c])
  BY <1>1, <1>2, <1>4, <1>5
<1>7. fate' \in [Channel -> Seq(Fate)] /\ \A d \in Channel \ {c} : fate'[d] = fate[d]
  BY Zenon, <1>3, <1>6 DEF IInv, Types
<1>8. QED
  BY <1>1, <1>2, <1>3, <1>4, <1>6, <1>7

LEMMA ProcessedAll ==
    ASSUME IInv, NEW c \in Channel, pump[c].pc \in {"ship", "full"}, Processed(c, pump[c].at + 1)
    PROVE  \A j \in 1..(pump[c].at + 1) : fate'[c][j] # "waiting"
<1> SUFFICES ASSUME NEW j \in 1..(pump[c].at + 1) PROVE fate'[c][j] # "waiting"
  BY Zenon
<1>1. CASE j = pump[c].at + 1
  BY Zenon, <1>1, ProcessedFates
<1>2. CASE j # pump[c].at + 1
  <2>1. pump[c].at \in Nat /\ Len(events[c]) \in Nat /\ pump[c].at <= Len(events[c])
    BY Zenon, Places, ProcessedFates
  <2>2. j \in 1..pump[c].at /\ j \in 1..Len(events[c])
    BY <1>2, <2>1
  <2>3. fate[c][j] # "waiting"
    BY Zenon, <2>2 DEF IInv, InOrder, Placed, Subscribed
  <2>4. QED
    BY Zenon, <1>2, <2>2, <2>3, ProcessedFates
<1>3. QED
  BY Zenon, <1>1, <1>2

\* An event that cannot be rendered moves the position in the batch only.
LEMMA SkipOutcome ==
    ASSUME IInv, NEW c \in Channel, SkipUnrendered(c)
    PROVE  /\ pump[c].pc = "ship" /\ Processed(c, pump[c].at + 1) /\ task = "runs"
           /\ events[c][pump[c].at + 1].xml = "none"
           /\ pump' \in [Channel -> PumpType] /\ pump'[c].at = pump[c].at + 1
           /\ pump'[c].bookmark = pump[c].bookmark /\ pump'[c].upto = pump[c].upto
           /\ pump'[c].pc = AfterEvent(c)
           /\ \A d \in Channel \ {c} : pump'[d] = pump[d]
           /\ UNCHANGED <<saved, task, bad_saves, bad_updates, world>>
<1> DEFINE i == pump[c].at + 1
           r == [pump[c] EXCEPT !.at = i, !.pc = AfterEvent(c)]
<1>1. pump[c] \in PumpType
  BY Zenon, Places
<1>2. AfterEvent(c) \in {"drain", "ship"} /\ i \in Nat
  BY <1>1 DEF AfterEvent, PumpType
<1>3. r \in PumpType
  BY Zenon, <1>1, <1>2 DEF PumpType
<1>4. r.at = i /\ r.bookmark = pump[c].bookmark /\ r.upto = pump[c].upto /\ r.pc = AfterEvent(c)
  BY Zenon, <1>1 DEF PumpType
<1>5. pump' = [pump EXCEPT ![c] = r]
  BY Zenon DEF SkipUnrendered
<1>6. pump \in [Channel -> PumpType]
  BY Zenon DEF IInv, Types
<1> HIDE DEF r
<1>7. pump' \in [Channel -> PumpType] /\ pump'[c] = r /\ \A d \in Channel \ {c} : pump'[d] = pump[d]
  BY Zenon, <1>3, <1>5, <1>6, PumpBecomes
<1>8. QED
  BY Zenon, <1>4, <1>7 DEF SkipUnrendered

\* An event that is shipped moves the bookmark, and may move the file.
LEMMA ShipOutcome ==
    ASSUME IInv, NEW c \in Channel, Ship(c)
    PROVE  /\ pump[c].pc \in {"ship", "full"} /\ Processed(c, pump[c].at + 1) /\ task = "runs"
           /\ events[c][pump[c].at + 1].xml # "none"
           /\ pump' \in [Channel -> PumpType] /\ pump'[c].at = pump[c].at + 1
           /\ pump'[c].bookmark = pump[c].at + 1 /\ pump'[c].upto = pump[c].upto
           /\ pump'[c].pc = AfterEvent(c)
           /\ \A d \in Channel \ {c} : pump'[d] = pump[d]
           /\ Flush(c, pump[c].at + 1) \/ UNCHANGED <<saved, bad_saves>>
           /\ UNCHANGED <<task, bad_updates, world>>
<1> DEFINE i == pump[c].at + 1
           k == IF pump[c].since_save + 1 >= SaveInterval THEN 0 ELSE pump[c].since_save + 1
           r == [pump[c] EXCEPT !.at = i, !.bookmark = i, !.pc = AfterEvent(c), !.since_save = k]
<1>1. pump[c] \in PumpType
  BY Zenon, Places
<1>2. AfterEvent(c) \in {"drain", "ship"} /\ i \in Nat /\ k \in Nat
  BY <1>1 DEF AfterEvent, PumpType
<1>3. r \in PumpType
  BY Zenon, <1>1, <1>2 DEF PumpType
<1>4. r.at = i /\ r.bookmark = i /\ r.upto = pump[c].upto /\ r.pc = AfterEvent(c)
  BY Zenon, <1>1 DEF PumpType
<1>5. pump' = [pump EXCEPT ![c] = r]
  BY Zenon DEF Ship
<1>6. pump \in [Channel -> PumpType]
  BY Zenon DEF IInv, Types
<1> HIDE DEF r
<1>7. pump' \in [Channel -> PumpType] /\ pump'[c] = r /\ \A d \in Channel \ {c} : pump'[d] = pump[d]
  BY Zenon, <1>3, <1>5, <1>6, PumpBecomes
<1>8. Flush(c, i) \/ UNCHANGED <<saved, bad_saves>>
  BY Zenon DEF Ship
<1>9. QED
  BY Zenon, <1>4, <1>7, <1>8 DEF Ship

\* A failed update ends the subscription with a flush of the bookmark before the event.
LEMMA FailOutcome ==
    ASSUME IInv, NEW c \in Channel, UpdateFails(c)
    PROVE  /\ pump[c].pc \in {"ship", "full"} /\ Processed(c, pump[c].at + 1) /\ task = "runs"
           /\ pump' \in [Channel -> PumpType] /\ pump'[c].pc = "failed"
           /\ \A d \in Channel \ {c} : pump'[d] = pump[d]
           /\ Flush(c, pump[c].bookmark) /\ bad_updates' = bad_updates + 1
           /\ UNCHANGED <<task, world>>
<1>1. Over("failed") \in PumpType /\ Over("failed").pc = "failed"
  BY Zenon, OverIs DEF PumpType
<1>2. pump \in [Channel -> PumpType]
  BY Zenon DEF IInv, Types
<1>3. pump' = [pump EXCEPT ![c] = Over("failed")]
  BY Zenon DEF UpdateFails
<1>4. /\ pump' \in [Channel -> PumpType] /\ pump'[c] = Over("failed")
      /\ \A d \in Channel \ {c} : pump'[d] = pump[d]
  BY Zenon, <1>1, <1>2, <1>3, PumpBecomes
<1>5. QED
  BY Zenon, <1>1, <1>4 DEF UpdateFails

\* A flush writes the position, or fails to.
LEMMA FlushOutcome ==
    ASSUME IInv, NEW c \in Channel, NEW b \in Nat, Flush(c, b)
    PROVE  /\ saved' \in [Channel -> Int] /\ bad_saves' \in Nat
           /\ saved'[c] \in {saved[c], b} /\ (bad_saves' = 0 => bad_saves = 0)
           /\ \A d \in Channel \ {c} : saved'[d] = saved[d]
<1>1. saved \in [Channel -> Int] /\ bad_saves \in Nat
  BY Zenon DEF IInv, Types
<1>2. QED
  BY <1>1 DEF Flush

\* An event was processed: the invariant holds of the channel if the new position in the
\* batch, the bookmark and the file are in order.
LEMMA EventKeeps ==
    ASSUME IInv, NEW c \in Channel, pump[c].pc \in {"ship", "full"},
           Processed(c, pump[c].at + 1), task = "runs", UNCHANGED <<task, world>>,
           pump' \in [Channel -> PumpType], \A d \in Channel \ {c} : pump'[d] = pump[d],
           saved' \in [Channel -> Int], \A d \in Channel \ {c} : saved'[d] = saved[d],
           bad_saves' \in Nat, bad_updates' \in Nat,
           saved'[c] \in NoFile..(pump[c].at + 1),
           \/ pump'[c].pc = "failed"
           \/ /\ pump'[c].pc = AfterEvent(c) /\ pump'[c].at = pump[c].at + 1
              /\ pump'[c].upto = pump[c].upto
              /\ Position(c)' <= pump'[c].bookmark /\ pump'[c].bookmark <= pump[c].at + 1
    PROVE  IInv'
<1> DEFINE i == pump[c].at + 1
<1>1. /\ i \in 1..Len(events[c]) /\ Len(events[c]) \in Nat /\ events' = events
      /\ fate' \in [Channel -> Seq(Fate)] /\ Len(fate'[c]) = Len(events[c])
      /\ \A d \in Channel \ {c} : fate'[d] = fate[d]
  BY Zenon, ProcessedFates
<1>2. \A j \in 1..i : fate'[c][j] # "waiting"
  BY Zenon, ProcessedAll
<1>3. pump[c].upto \in Nat /\ i <= pump[c].upto /\ pump[c].upto <= Len(events[c])
  BY Places DEF PumpType
<1>4. AfterEvent(c) \in {"drain", "ship"} /\ (AfterEvent(c) = "ship" => i # pump[c].upto)
  BY Zenon DEF AfterEvent
<1> HIDE DEF i
<1>5. Types'
  BY Zenon, <1>1 DEF IInv, Types, world
<1>6. Filed(c)'
  <2>1. saved'[c] \in NoFile..Len(events[c]) /\ \A j \in 1..saved'[c] : j \in 1..i
    BY <1>1 DEF i, NoFile
  <2>2. QED
    BY Zenon, <1>1, <1>2, <2>1 DEF Filed
<1>7. Placed(c)' /\ Pulled(c)'
  <2>1. CASE pump'[c].pc = "failed"
    BY Zenon, <2>1 DEF Placed, Pulled, Subscribed
  <2>2. CASE /\ pump'[c].pc = AfterEvent(c) /\ pump'[c].at = i
             /\ pump'[c].upto = pump[c].upto
             /\ Position(c)' <= pump'[c].bookmark /\ pump'[c].bookmark <= i
    <3>1. Placed(c)'
      BY <1>1, <1>2, <2>2 DEF Placed
    <3>2. Pulled(c)'
      BY <1>1, <1>3, <1>4, <2>2 DEF Pulled
    <3>3. QED
      BY Zenon, <3>1, <3>2
  <2>3. QED
    BY Zenon, <2>1, <2>2 DEF i
<1>8. InOrder(c)'
  BY Zenon, <1>6, <1>7 DEF InOrder
<1>9. QED
  BY Zenon, <1>1, <1>5, <1>8, OneChannel

LEMMA SkipIInv == ASSUME IInv, NEW c \in Channel, SkipUnrendered(c) PROVE IInv'
<1> USE SkipOutcome
<1>1. /\ saved[c] \in NoFile..(pump[c].at + 1) /\ Position(c) <= pump[c].bookmark
      /\ pump[c].bookmark <= pump[c].at + 1
  <2>1. /\ pump[c] \in PumpType /\ Subscribed(c) /\ saved[c] \in NoFile..Len(events[c])
        /\ saved[c] <= pump[c].bookmark /\ Position(c) <= pump[c].bookmark
        /\ pump[c].bookmark <= pump[c].at /\ Len(events[c]) \in Nat
    BY Zenon, Places
  <2>2. pump[c].at \in Nat /\ pump[c].bookmark \in Nat
    BY Zenon, <2>1 DEF PumpType
  <2>3. QED
    BY <2>1, <2>2 DEF NoFile
<1>2. Position(c)' = Position(c)
  BY Zenon DEF Position
<1>3. saved \in [Channel -> Int] /\ bad_saves \in Nat /\ bad_updates \in Nat
  BY Zenon DEF IInv, Types
<1>4. QED
  BY Zenon, <1>1, <1>2, <1>3, EventKeeps

LEMMA ShipIInv == ASSUME IInv, NEW c \in Channel, Ship(c) PROVE IInv'
<1> DEFINE i == pump[c].at + 1
<1>1. /\ pump[c] \in PumpType /\ Subscribed(c) /\ saved[c] \in NoFile..Len(events[c])
      /\ saved[c] <= pump[c].bookmark /\ pump[c].bookmark <= pump[c].at /\ Len(events[c]) \in Nat
  BY Zenon, ShipOutcome, Places
<1>2. pump[c].at \in Nat /\ i \in Nat /\ saved[c] \in NoFile..i
  BY <1>1 DEF PumpType, NoFile
<1>3. saved \in [Channel -> Int] /\ bad_saves \in Nat /\ bad_updates \in Nat
  BY Zenon DEF IInv, Types
<1>4. /\ saved' \in [Channel -> Int] /\ bad_saves' \in Nat /\ saved'[c] \in {saved[c], i}
      /\ \A d \in Channel \ {c} : saved'[d] = saved[d]
  BY Zenon, <1>2, <1>3, ShipOutcome, FlushOutcome
<1>5. saved'[c] \in NoFile..i /\ Position(c)' <= i
  BY <1>2, <1>4 DEF Position, NoFile
<1>6. i <= i
  BY <1>2
<1>7. QED
  BY Zenon, <1>3, <1>4, <1>5, <1>6, ShipOutcome, EventKeeps

LEMMA UpdateFailsIInv == ASSUME IInv, NEW c \in Channel, UpdateFails(c) PROVE IInv'
<1>1. /\ pump[c] \in PumpType /\ Subscribed(c) /\ saved[c] \in NoFile..Len(events[c])
      /\ saved[c] <= pump[c].bookmark /\ pump[c].bookmark <= pump[c].at /\ Len(events[c]) \in Nat
  BY Zenon, FailOutcome, Places
<1>2. pump[c].bookmark \in Nat /\ pump[c].at \in Nat
  BY Zenon, <1>1 DEF PumpType
<1>3. /\ saved' \in [Channel -> Int] /\ bad_saves' \in Nat
      /\ saved'[c] \in {saved[c], pump[c].bookmark}
      /\ \A d \in Channel \ {c} : saved'[d] = saved[d]
  BY Zenon, <1>2, FailOutcome, FlushOutcome
<1>4. saved'[c] \in NoFile..(pump[c].at + 1)
  BY <1>1, <1>2, <1>3 DEF NoFile
<1>5. bad_updates' \in Nat
  BY FailOutcome DEF IInv, Types
<1>6. QED
  BY Zenon, <1>3, <1>4, <1>5, FailOutcome, EventKeeps

LEMMA LogIInv == ASSUME IInv, NEW c \in Channel, NEW e \in Event, Log(c, e) PROVE IInv'
<1>1. /\ Len(events'[c]) = Len(events[c]) + 1 /\ Len(events[c]) \in Nat
      /\ Len(fate'[c]) = Len(fate[c]) + 1 /\ Len(fate[c]) = Len(events[c])
      /\ \A i \in 1..Len(fate[c]) : fate'[c][i] = fate[c][i]
      /\ events' \in [Channel -> Seq(Event)] /\ fate' \in [Channel -> Seq(Fate)]
      /\ \A d \in Channel \ {c} : events'[d] = events[d] /\ fate'[d] = fate[d]
  BY DEF Log, IInv, Types, InOrder, Filed, Placed, Pulled, Fate
<1>2. UNCHANGED <<pump, saved, task, bad_saves, bad_updates, world>>
  BY Zenon DEF Log
<1>3. Types'
  BY Zenon, <1>1, <1>2 DEF IInv, Types, world
<1>4. pump[c] \in PumpType
  BY Zenon DEF IInv, Types
<1>5. InOrder(c)'
  <2>1. InOrder(c) /\ pump[c].at \in Nat /\ pump[c].upto \in Nat /\ saved[c] \in Int
    BY Zenon, <1>4 DEF IInv, Types, PumpType
  <2>2. Position(c)' = Position(c) /\ Subscribed(c)' = Subscribed(c)
    BY Zenon, <1>2 DEF Position, Subscribed
  <2>3. Len(fate'[c]) = Len(events'[c]) /\ saved'[c] \in NoFile..Len(events'[c])
    BY <1>1, <1>2, <2>1 DEF InOrder, Filed, Placed, Pulled, NoFile
  <2>4. \A i \in 1..saved[c] : fate'[c][i] # "waiting"
    <3> SUFFICES ASSUME NEW i \in 1..saved[c] PROVE fate'[c][i] # "waiting"
      BY Zenon
    <3>1. saved[c] <= Len(fate[c]) /\ Len(fate[c]) \in Nat
      BY <1>1, <2>1 DEF InOrder, Filed, Placed, Pulled, NoFile
    <3>2. i \in 1..Len(fate[c])
      BY <2>1, <3>1
    <3>3. fate[c][i] # "waiting"
      BY Zenon, <2>1 DEF InOrder, Filed, Placed, Pulled
    <3>4. QED
      BY Zenon, <1>1, <3>2, <3>3
  <2>5. ASSUME Subscribed(c), NEW i \in 1..pump[c].at PROVE fate'[c][i] # "waiting"
    <3>1. i \in 1..Len(fate[c]) /\ fate[c][i] # "waiting"
      BY <1>1, <2>1, <2>5 DEF InOrder, Filed, Placed, Pulled
    <3>2. QED
      BY Zenon, <1>1, <3>1
  <2>6. QED
    BY <1>1, <1>2, <2>1, <2>2, <2>3, <2>4, <2>5 DEF InOrder, Filed, Placed, Pulled
<1>6. \A d \in Channel : InOrder(d)'
  <2> SUFFICES ASSUME NEW d \in Channel \ {c} PROVE InOrder(d)'
    BY Zenon, <1>5
  <2>1. events'[d] = events[d] /\ fate'[d] = fate[d] /\ pump' = pump /\ saved' = saved
    BY Zenon, <1>1, <1>2
  <2>2. QED
    BY Zenon, <2>1 DEF IInv, InOrder, Filed, Placed, Pulled, Subscribed, Position
<1>7. PumpsOfTask'
  BY Zenon, <1>2 DEF IInv, PumpsOfTask, NoPumpLeft, Subscribed
<1>8. QED
  BY Zenon, <1>3, <1>6, <1>7 DEF IInv

\* The steps of the task and of the system.
LEMMA TaskIInv ==
    ASSUME IInv, \/ Join \/ Shutdown \/ Crash \/ (\E s \in {"live", "dry_run"} : Start(s))
                 \/ UNCHANGED vars
    PROVE  IInv'
<1>1. CASE Join \/ Shutdown \/ UNCHANGED vars
  <2>1. UNCHANGED <<logs, pump, saved, bad_saves, bad_updates, sink, crashes>>
    BY Zenon, <1>1 DEF Join, Shutdown, vars, world
  <2>2. Types'
    BY Zenon, <2>1 DEF IInv, Types, logs
  <2>3. \A c \in Channel : InOrder(c)'
    BY Zenon, <2>1 DEF IInv, InOrder, Filed, Placed, Pulled, Subscribed, Position, logs
  <2>4. PumpsOfTask'
    BY Zenon, <1>1, <2>1 DEF IInv, PumpsOfTask, NoPumpLeft, Subscribed, Join, AllJoined, Shutdown, vars
  <2>5. QED
    BY Zenon, <2>2, <2>3, <2>4 DEF IInv
<1>2. CASE Crash \/ (\E s \in {"live", "dry_run"} : Start(s))
  <2>1. /\ UNCHANGED <<logs, saved, bad_saves, bad_updates>> /\ pump' = [c \in Channel |-> NewPump]
        /\ sink' \in {"live", "dry_run"} /\ crashes' \in Nat /\ task' # "stopped"
    BY <1>2 DEF Crash, Start, IInv, Types
  <2>2. NewPump \in PumpType /\ NewPump.pc = "start"
    BY Zenon DEF NewPump, PumpType
  <2>3. Types'
    BY Zenon, <2>1, <2>2 DEF IInv, Types, logs
  <2>4. \A c \in Channel : InOrder(c)' /\ ~Subscribed(c)'
    BY Zenon, <2>1, <2>2 DEF IInv, InOrder, Filed, Placed, Pulled, Subscribed, Position, logs
  <2>5. QED
    BY Zenon, <2>1, <2>3, <2>4 DEF IInv, PumpsOfTask, NoPumpLeft
<1>3. QED
  BY Zenon, <1>1, <1>2

LEMMA NextIInv == IInv /\ [Next]_vars => IInv'
<1> SUFFICES ASSUME IInv, [Next]_vars PROVE IInv'
  BY Zenon
<1>1. ASSUME NEW c \in Channel, Pump(c) PROVE IInv'
  <2>1. CASE Signal(c) \/ Wake(c) \/ PullBatch(c) \/ ChannelFull(c) \/ (Retry(c) /\ cancel # "yes")
    BY Zenon, <2>1, MovesOn
  <2>2. CASE AccessDenied(c) \/ SubscribeFails(c) \/ (Retry(c) /\ cancel = "yes")
    BY Zenon, <2>2, NotSubscribed DEF AccessDenied, SubscribeFails, Retry
  <2>3. CASE Cancelled(c) \/ PullFails(c)
    BY Zenon, <2>3, LastFlush DEF Cancelled, PullFails, Subscribed
  <2>4. QED
    BY Zenon, <1>1, <2>1, <2>2, <2>3, SubscribeIInv, SkipIInv, ShipIInv, UpdateFailsIInv DEF Pump
<1>2. QED
  BY Zenon, <1>1, LogIInv, TaskIInv DEF Next

\* The bookmark file of a channel never passes an event that is still to be shipped.
THEOREM BookmarkIsSafe == Spec => []BookmarkBehind
<1>1. IInv => BookmarkBehind
  BY Zenon DEF IInv, InOrder, Filed, Placed, Pulled, BookmarkBehind
<1>2. QED
  BY <1>1, InitIInv, NextIInv, PTL DEF Spec

\* No pump outlives the task.
THEOREM PumpsJoined == Spec => []NoPumpLeft
<1>1. IInv => NoPumpLeft
  BY Zenon DEF IInv, PumpsOfTask
<1>2. QED
  BY <1>1, InitIInv, NextIInv, PTL DEF Spec
-----------------------------------------------------------------------------
(* Nothing is repeated without a fault. *)

\* The position of a channel: in memory, or in the file.
Reached(c) == IF Subscribed(c) THEN pump[c].bookmark ELSE Position(c)

\* Without a fault, what was shipped is behind the position of its channel.
ShippedIsBehind ==
    crashes = 0 /\ bad_saves = 0 /\ bad_updates = 0 =>
        /\ again = {}
        /\ \A c \in Channel : \A i \in 1..Len(events[c]) : fate[c][i] = "shipped" => i <= Reached(c)

\* A step that ships nothing, and leaves every position where it is.
LEMMA NothingShips ==
    ASSUME ShippedIsBehind, UNCHANGED <<events, again>>, crashes' = 0 => crashes = 0,
           bad_saves' = 0 => bad_saves = 0, bad_updates' = 0 => bad_updates = 0,
           \A c \in Channel :
               /\ \A i \in 1..Len(events[c]) : fate'[c][i] = "shipped" => fate[c][i] = "shipped"
               /\ crashes' = 0 /\ bad_saves' = 0 /\ bad_updates' = 0 => Reached(c)' = Reached(c)
    PROVE  ShippedIsBehind'
BY Zenon DEF ShippedIsBehind

LEMMA SubscribeShips ==
    ASSUME IInv, ShippedIsBehind, NEW c \in Channel, Subscribe(c) PROVE ShippedIsBehind'
<1>1. PICK s \in StartOf(c) :
           /\ pump' = [pump EXCEPT ![c] = [NewPump EXCEPT !.pc = "wait", !.at = s,
                                               !.bookmark = IF saved[c] = NoFile THEN 0 ELSE saved[c]]]
           /\ fate' = [fate EXCEPT ![c] = [i \in DOMAIN @ |->
                          IF s = Len(events[c]) /\ saved[c] <= 0 /\ @[i] = "waiting"
                          THEN "before_start" ELSE @[i]]]
  BY Zenon DEF Subscribe
<1>2. DOMAIN fate[c] = 1..Len(events[c])
  BY DEF IInv, Types, InOrder, Filed, Placed, Pulled
<1>3. UNCHANGED <<events, again, saved, bad_saves, bad_updates, crashes>> /\ ~Subscribed(c)
  BY Zenon DEF Subscribe, world, Subscribed
<1>4. pump'[c].pc = "wait" /\ pump'[c].bookmark = Position(c)
  BY Zenon, <1>1 DEF IInv, Types, NewPump, Position
<1>5. \A d \in Channel : Reached(d)' = Reached(d)
  <2>1. Reached(c)' = Reached(c)
    BY Zenon, <1>3, <1>4 DEF Reached, Subscribed
  <2>2. \A d \in Channel \ {c} : pump'[d] = pump[d]
    BY Zenon, <1>1 DEF IInv, Types
  <2>3. \A d \in Channel \ {c} : Reached(d)' = Reached(d)
    BY Zenon, <1>3, <2>2 DEF Reached, Subscribed, Position
  <2>4. QED
    BY Zenon, <2>1, <2>3
<1>6. \A d \in Channel : \A i \in 1..Len(events[d]) : fate'[d][i] = "shipped" => fate[d][i] = "shipped"
  BY Zenon, <1>1, <1>2 DEF IInv, Types
<1>7. QED
  BY Zenon, <1>3, <1>5, <1>6, NothingShips

\* A flush that does not fail saves the position in memory.
LEMMA FlushShips ==
    ASSUME IInv, ShippedIsBehind, NEW c \in Channel, Cancelled(c) \/ PullFails(c)
    PROVE  ShippedIsBehind'
<1>1. /\ Subscribed(c) /\ Flush(c, pump[c].bookmark)
      /\ UNCHANGED <<events, fate, again, bad_updates, crashes>>
  BY Zenon DEF Cancelled, PullFails, Subscribed, logs, world
<1>2. PICK p \in {"failed", "ended"} : pump' = [pump EXCEPT ![c] = Over(p)]
  BY Zenon DEF Cancelled, PullFails
<1>3. pump'[c].pc = p /\ \A d \in Channel \ {c} : pump'[d] = pump[d]
  BY Zenon, <1>2, OverIs DEF IInv, Types
<1>4. bad_saves' = 0 => bad_saves = 0 /\ saved' = [saved EXCEPT ![c] = pump[c].bookmark]
  BY <1>1 DEF Flush, IInv, Types
<1>5. pump[c].bookmark \in Nat
  BY Zenon DEF IInv, Types, PumpType
<1>6. ASSUME bad_saves' = 0, NEW d \in Channel PROVE Reached(d)' = Reached(d)
  <2>1. saved'[c] = pump[c].bookmark /\ \A x \in Channel \ {c} : saved'[x] = saved[x]
    BY Zenon, <1>4, <1>6 DEF IInv, Types
  <2>2. Reached(c)' = Reached(c)
    BY <1>1, <1>3, <1>5, <2>1 DEF Reached, Subscribed, Position, NoFile
  <2>3. d # c => Reached(d)' = Reached(d)
    BY Zenon, <1>3, <2>1 DEF Reached, Subscribed, Position
  <2>4. QED
    BY Zenon, <2>2, <2>3
<1>7. QED
  BY Zenon, <1>1, <1>4, <1>6, NothingShips

\* An event that is shipped moves the bookmark; one that cannot be rendered is not
\* shipped.
LEMMA EventShips ==
    ASSUME IInv, ShippedIsBehind, NEW c \in Channel, SkipUnrendered(c) \/ Ship(c)
    PROVE  ShippedIsBehind'
<1> DEFINE i == pump[c].at + 1
           e == events[c][i]
<1>1. /\ pump[c].pc \in {"ship", "full"} /\ Processed(c, i) /\ UNCHANGED <<bad_updates, crashes>>
      /\ pump'[c].pc = AfterEvent(c)
      /\ pump'[c].bookmark = IF e.xml = "none" THEN pump[c].bookmark ELSE i
      /\ \A d \in Channel \ {c} : pump'[d] = pump[d]
  BY Zenon, SkipOutcome, ShipOutcome DEF world
<1>2. pump'[c].pc \in {"drain", "ship"}
  BY Zenon, <1>1 DEF AfterEvent
<1>3. /\ pump[c].at \in Nat /\ i \in 1..Len(events[c]) /\ Len(events[c]) \in Nat
      /\ e \in Event /\ events' = events
      /\ fate'[c][i] = IF fate[c][i] = "shipped" THEN "shipped" ELSE Process(e)
      /\ \A j \in 1..Len(events[c]) : j # i => fate'[c][j] = fate[c][j]
      /\ \A d \in Channel \ {c} : fate'[d] = fate[d]
  BY Zenon, <1>1, ProcessedFates
<1>4. pump[c].bookmark \in Nat /\ pump[c].bookmark < i
  <2>1. pump[c] \in PumpType /\ pump[c].bookmark <= pump[c].at
    BY Zenon, <1>1, Places
  <2>2. QED
    BY <2>1 DEF PumpType
<1>5. /\ bad_saves' = 0 => bad_saves = 0
      /\ \A d \in Channel \ {c} : saved'[d] = saved[d]
  <2>1. i \in Nat
    BY <1>3
  <2>2. QED
    BY Zenon, <2>1, SkipOutcome, ShipOutcome, FlushOutcome
<1>6. again' = IF fate[c][i] = "shipped" /\ Process(e) = "shipped"
              THEN again \cup {<<c, i>>} ELSE again
  BY Zenon, <1>1 DEF Processed
<1>7. Process(e) = "shipped" => e.xml # "none"
  BY Zenon, <1>3, ProcessDeals DEF IInv, Types
<1>8. i \in Nat
  BY <1>3
<1> HIDE DEF i, e
<1> SUFFICES ASSUME crashes' = 0, bad_saves' = 0, bad_updates' = 0
             PROVE  /\ again' = {}
                    /\ \A d \in Channel : \A j \in 1..Len(events'[d]) :
                           fate'[d][j] = "shipped" => j <= Reached(d)'
  BY Zenon DEF ShippedIsBehind
<1>9. /\ again = {}
      /\ \A d \in Channel : \A j \in 1..Len(events[d]) : fate[d][j] = "shipped" => j <= Reached(d)
  BY Zenon, <1>1, <1>5 DEF ShippedIsBehind
<1>10. Reached(c) = pump[c].bookmark /\ Reached(c)' = pump'[c].bookmark
  BY Zenon, <1>1, <1>2 DEF Reached, Subscribed
<1>11. fate[c][i] # "shipped"
  <2>1. ~(i <= Reached(c))
    BY <1>4, <1>8, <1>10
  <2>2. QED
    BY Zenon, <1>3, <1>9, <2>1
<1>12. ASSUME NEW j \in 1..Len(events[c]), fate'[c][j] = "shipped" PROVE j <= Reached(c)'
  <2>1. CASE j = i
    <3>1. e.xml # "none"
      BY Zenon, <1>3, <1>7, <1>11, <1>12, <2>1
    <3>2. QED
      BY <1>1, <1>8, <1>10, <2>1, <3>1
  <2>2. CASE j # i
    <3>1. j <= Reached(c) /\ j \in Int
      BY <1>3, <1>9, <1>12, <2>2
    <3>2. QED
      BY <1>1, <1>4, <1>8, <1>10, <3>1
  <2>3. QED
    BY Zenon, <2>1, <2>2
<1>13. ASSUME NEW d \in Channel \ {c}, NEW j \in 1..Len(events[d]), fate'[d][j] = "shipped"
       PROVE  j <= Reached(d)'
  <2>1. Reached(d)' = Reached(d)
    BY Zenon, <1>1, <1>5 DEF Reached, Subscribed, Position
  <2>2. fate[d][j] = "shipped"
    BY Zenon, <1>3, <1>13
  <2>3. QED
    BY Zenon, <1>9, <2>1, <2>2
<1>14. again' = {}
  BY Zenon, <1>6, <1>9, <1>11
<1>15. QED
  BY Zenon, <1>3, <1>12, <1>13, <1>14

LEMMA NextShips == IInv /\ ShippedIsBehind /\ [Next]_vars => ShippedIsBehind'
<1> SUFFICES ASSUME IInv, ShippedIsBehind, [Next]_vars PROVE ShippedIsBehind'
  BY Zenon
<1>1. ASSUME NEW c \in Channel,
             Signal(c) \/ Wake(c) \/ PullBatch(c) \/ ChannelFull(c) \/ (Retry(c) /\ cancel # "yes")
      PROVE  ShippedIsBehind'
  <2>1. /\ UNCHANGED <<events, fate, again, saved, bad_saves, bad_updates, crashes>>
        /\ pump[c] \in PumpType
        /\ \A d \in Channel \ {c} : pump'[d] = pump[d]
    BY Zenon, <1>1 DEF Signal, Wake, PullBatch, ChannelFull, Retry, logs, world, IInv, Types
  <2>2. pump'[c].bookmark = pump[c].bookmark /\ Subscribed(c)' = Subscribed(c)
    BY <1>1, <2>1 DEF Signal, Wake, PullBatch, ChannelFull, Retry, Subscribed, IInv, Types, PumpType
  <2>3. \A d \in Channel : Reached(d)' = Reached(d)
    BY Zenon, <2>1, <2>2 DEF Reached, Subscribed, Position
  <2>4. QED
    BY Zenon, <2>1, <2>3, NothingShips
<1>2. ASSUME NEW c \in Channel, AccessDenied(c) \/ SubscribeFails(c) \/ (Retry(c) /\ cancel = "yes")
      PROVE  ShippedIsBehind'
  <2>1. /\ UNCHANGED <<events, fate, again, saved, bad_saves, bad_updates, crashes>>
        /\ ~Subscribed(c)
    BY Zenon, <1>2 DEF AccessDenied, SubscribeFails, Retry, logs, world, Subscribed
  <2>2. PICK p \in {"denied", "failed", "ended"} : pump' = [pump EXCEPT ![c] = Over(p)]
    BY Zenon, <1>2 DEF AccessDenied, SubscribeFails, Retry
  <2>3. pump'[c].pc = p /\ \A d \in Channel \ {c} : pump'[d] = pump[d]
    BY Zenon, <2>2, OverIs DEF IInv, Types
  <2>4. \A d \in Channel : Reached(d)' = Reached(d)
    BY Zenon, <2>1, <2>3 DEF Reached, Subscribed, Position
  <2>5. QED
    BY Zenon, <2>1, <2>4, NothingShips
<1>3. ASSUME NEW c \in Channel, UpdateFails(c) PROVE ShippedIsBehind'
  BY <1>3 DEF UpdateFails, IInv, Types, ShippedIsBehind
<1>4. CASE Crash
  BY <1>4 DEF Crash, IInv, Types, ShippedIsBehind
<1>5. ASSUME NEW c \in Channel, NEW e \in Event, Log(c, e) PROVE ShippedIsBehind'
  <2>1. /\ Len(events'[c]) = Len(events[c]) + 1 /\ Len(events[c]) \in Nat
        /\ \A i \in 1..Len(events[c]) : fate'[c][i] = fate[c][i]
        /\ fate'[c][Len(events'[c])] = "waiting"
        /\ \A d \in Channel \ {c} : events'[d] = events[d] /\ fate'[d] = fate[d]
    BY <1>5 DEF Log, IInv, Types, InOrder, Filed, Placed, Pulled
  <2>2. UNCHANGED <<again, pump, saved, bad_saves, bad_updates, crashes>>
    BY Zenon, <1>5 DEF Log, world
  <2>3. \A d \in Channel : Reached(d)' = Reached(d)
    BY Zenon, <2>2 DEF Reached, Subscribed, Position
  <2>4. \A d \in Channel : \A i \in 1..Len(events'[d]) :
            fate'[d][i] = "shipped" => i \in 1..Len(events[d]) /\ fate[d][i] = "shipped"
    BY <2>1
  <2>5. QED
    BY Zenon, <2>2, <2>3, <2>4 DEF ShippedIsBehind
<1>6. CASE Join \/ Shutdown \/ UNCHANGED vars
  <2>1. UNCHANGED <<events, fate, again, pump, saved, bad_saves, bad_updates, crashes>>
    BY Zenon, <1>6 DEF Join, Shutdown, vars, logs, world
  <2>2. QED
    BY Zenon, <2>1 DEF ShippedIsBehind, Reached, Subscribed, Position
<1>7. ASSUME NEW s \in {"live", "dry_run"}, Start(s) PROVE ShippedIsBehind'
  <2>1. /\ UNCHANGED <<events, fate, again, saved, bad_saves, bad_updates, crashes>>
        /\ \A c \in Channel : ~Subscribed(c) /\ pump'[c] = NewPump
    BY Zenon, <1>7 DEF Start, logs, IInv, PumpsOfTask
  <2>2. \A c \in Channel : Reached(c)' = Reached(c)
    BY <2>1 DEF Reached, Subscribed, Position, NewPump
  <2>3. QED
    BY Zenon, <2>1, <2>2, NothingShips
<1>8. QED
  BY Zenon, <1>1, <1>2, <1>3, <1>4, <1>5, <1>6, <1>7, SubscribeShips, FlushShips, EventShips DEF Next, Pump

\* Nothing is shipped twice unless there was a crash, or a bookmark was not written or
\* not updated.
THEOREM EventsOnce == Spec => []OnlyFaultsRepeat
<1>1. Init => ShippedIsBehind
  BY DEF Init, ShippedIsBehind
<1>2. IInv /\ ShippedIsBehind => OnlyFaultsRepeat
  <2>1. IInv => crashes \in Nat /\ bad_saves \in Nat /\ bad_updates \in Nat
    BY Zenon DEF IInv, Types
  <2>2. QED
    BY <2>1 DEF ShippedIsBehind, OnlyFaultsRepeat
<1>3. QED
  BY <1>1, <1>2, InitIInv, NextIInv, NextShips, PTL DEF Spec
-----------------------------------------------------------------------------
(* The refinement of AtLeastOnce, channel by channel. *)

Dealt(c) == {i \in 1..Len(fate[c]) : fate[c][i] # "waiting"}

\* What Promise(c) sees of the source.
LEMMA PromiseStays ==
    ASSUME NEW c \in Channel, UNCHANGED <<Len(events[c]), Dealt(c), Reached(c), Position(c)>>
    PROVE  UNCHANGED Promise(c)!abstract
BY Zenon DEF Promise!abstract, Dealt, Reached

LEMMA PromiseBegins ==
    ASSUME NEW c \in Channel, UNCHANGED <<Len(events[c]), Position(c)>>, Reached(c)' = Position(c),
           \/ Dealt(c)' = Dealt(c)
           \/ Position(c) = 0 /\ Dealt(c)' = 1..Len(events[c])
    PROVE  Promise(c)!Begin
BY Zenon DEF Promise!Begin, Dealt, Reached

LEMMA PromiseSaves ==
    ASSUME NEW c \in Channel, UNCHANGED <<Len(events[c]), Dealt(c), Reached(c)>>,
           Position(c)' = Reached(c)
    PROVE  Promise(c)!Save
BY Zenon DEF Promise!Save, Dealt, Reached

LEMMA PromiseAppends ==
    ASSUME NEW c \in Channel, Len(events'[c]) = Len(events[c]) + 1,
           UNCHANGED <<Dealt(c), Reached(c), Position(c)>>
    PROVE  Promise(c)!Append
BY Zenon DEF Promise!Append, Dealt, Reached

LEMMA OtherChannel ==
    ASSUME NEW c \in Channel, events'[c] = events[c], fate'[c] = fate[c], pump'[c] = pump[c],
           saved'[c] = saved[c]
    PROVE  UNCHANGED Promise(c)!abstract
BY Zenon, PromiseStays DEF Dealt, Reached, Subscribed, Position

\* The step of one pump, or the event of one channel, leaves the others alone.
LEMMA OneChannelMoves ==
    ASSUME IInv, NEW d \in Channel, Pump(d) \/ (\E e \in Event : Log(d, e)),
           NEW c \in Channel \ {d}
    PROVE  events'[c] = events[c] /\ fate'[c] = fate[c] /\ pump'[c] = pump[c] /\ saved'[c] = saved[c]
<1> USE DEF IInv, Types, logs, Flush
<1>1. CASE Subscribe(d)
  BY Zenon, <1>1 DEF Subscribe
<1>2. CASE AccessDenied(d) \/ SubscribeFails(d) \/ Retry(d) \/ Signal(d) \/ Wake(d)
  BY Zenon, <1>2 DEF AccessDenied, SubscribeFails, Retry, Signal, Wake
<1>3. CASE Cancelled(d) \/ PullBatch(d) \/ PullFails(d) \/ ChannelFull(d)
  BY Zenon, <1>3 DEF Cancelled, PullBatch, PullFails, ChannelFull
<1>4. CASE SkipUnrendered(d) \/ Ship(d) \/ UpdateFails(d)
  BY <1>4 DEF SkipUnrendered, Ship, UpdateFails, Processed
<1>5. CASE \E e \in Event : Log(d, e)
  BY Zenon, <1>5 DEF Log
<1>6. QED
  BY Zenon, <1>1, <1>2, <1>3, <1>4, <1>5 DEF Pump

LEMMA SubscribeRefines == ASSUME IInv, NEW c \in Channel, Subscribe(c) PROVE Promise(c)!Begin
<1>1. PICK s \in StartOf(c) :
           /\ pump' = [pump EXCEPT ![c] = [NewPump EXCEPT !.pc = "wait", !.at = s,
                                               !.bookmark = IF saved[c] = NoFile THEN 0 ELSE saved[c]]]
           /\ fate' = [fate EXCEPT ![c] = [i \in DOMAIN @ |->
                          IF s = Len(events[c]) /\ saved[c] <= 0 /\ @[i] = "waiting"
                          THEN "before_start" ELSE @[i]]]
  BY Zenon DEF Subscribe
<1>2. /\ DOMAIN fate[c] = 1..Len(events[c]) /\ Len(fate[c]) = Len(events[c])
      /\ Len(events[c]) \in Nat /\ saved[c] \in NoFile..Len(events[c])
  BY DEF IInv, Types, InOrder, Filed, Placed, Pulled
<1>3. UNCHANGED <<events, saved>>
  BY Zenon DEF Subscribe
<1>4. pump'[c].pc = "wait" /\ pump'[c].bookmark = Position(c)
  BY Zenon, <1>1 DEF IInv, Types, NewPump, Position
<1>5. Reached(c)' = Position(c) /\ Position(c)' = Position(c)
  BY Zenon, <1>3, <1>4 DEF Reached, Subscribed, Position
<1>6. fate'[c] = [i \in 1..Len(events[c]) |->
                          IF s = Len(events[c]) /\ saved[c] <= 0 /\ fate[c][i] = "waiting"
                          THEN "before_start" ELSE fate[c][i]]
  BY Zenon, <1>1, <1>2 DEF IInv, Types
<1>7. Len(fate'[c]) = Len(events[c])
  BY <1>2, <1>6
<1>8. CASE s = Len(events[c]) /\ saved[c] <= 0
  <2>1. Dealt(c)' = 1..Len(events[c])
    BY Zenon, <1>6, <1>7, <1>8 DEF Dealt
  <2>2. Position(c) = 0
    BY <1>2, <1>8 DEF Position, NoFile
  <2>3. UNCHANGED Len(events[c])
    BY Zenon, <1>3
  <2>4. QED
    BY Zenon, <1>5, <2>1, <2>2, <2>3, PromiseBegins
<1>9. CASE ~(s = Len(events[c]) /\ saved[c] <= 0)
  <2>1. Dealt(c)' = Dealt(c)
    BY Zenon, <1>2, <1>6, <1>7, <1>9 DEF Dealt
  <2>2. UNCHANGED Len(events[c])
    BY Zenon, <1>3
  <2>3. QED
    BY Zenon, <1>5, <2>1, <2>2, PromiseBegins
<1>10. QED
  BY Zenon, <1>8, <1>9

\* The last flush of a pump: the position in memory is saved, or given up.
LEMMA FlushRefines ==
    ASSUME IInv, NEW c \in Channel, Cancelled(c) \/ PullFails(c)
    PROVE  Promise(c)!Save \/ Promise(c)!Begin
<1>1. Subscribed(c) /\ Flush(c, pump[c].bookmark) /\ UNCHANGED <<events, fate>>
  BY Zenon DEF Cancelled, PullFails, Subscribed, logs
<1>2. PICK p \in {"failed", "ended"} : pump' = [pump EXCEPT ![c] = Over(p)]
  BY Zenon DEF Cancelled, PullFails
<1>3. pump'[c].pc = p
  BY Zenon, <1>2, OverIs DEF IInv, Types
<1>4. pump[c].bookmark \in Nat /\ Reached(c) = pump[c].bookmark
  BY Zenon, <1>1 DEF IInv, Types, PumpType, Reached
<1>5. saved'[c] \in {saved[c], pump[c].bookmark}
  BY Zenon, <1>1 DEF Flush, IInv, Types
<1>6. Reached(c)' = Position(c)' /\ Position(c)' \in {Position(c), pump[c].bookmark}
  BY <1>3, <1>4, <1>5 DEF Reached, Subscribed, Position, NoFile
<1>7. UNCHANGED <<Len(events[c]), Dealt(c)>>
  BY Zenon, <1>1 DEF Dealt
<1>8. CASE Position(c)' = Position(c)
  BY Zenon, <1>6, <1>7, <1>8, PromiseBegins
<1>9. CASE Position(c)' = pump[c].bookmark
  BY Zenon, <1>4, <1>6, <1>7, <1>9, PromiseSaves
<1>10. QED
  BY Zenon, <1>6, <1>8, <1>9

\* An event is dealt with: the bookmark moves to it, stays, or is given up.
LEMMA EventRefines ==
    ASSUME IInv, NEW c \in Channel, SkipUnrendered(c) \/ Ship(c) \/ UpdateFails(c)
    PROVE  \E i \in 1..Len(events[c]) : Promise(c)!Handle(i) \/ Promise(c)!FallBack(i)
<1> DEFINE i == pump[c].at + 1
<1>1. pump[c].pc \in {"ship", "full"} /\ Processed(c, i)
  BY Zenon, SkipOutcome, ShipOutcome, FailOutcome
<1>2. /\ i \in 1..Len(events[c]) /\ Len(events[c]) \in Nat /\ events' = events
      /\ Len(fate'[c]) = Len(events[c]) /\ fate'[c][i] # "waiting"
      /\ \A j \in 1..Len(events[c]) : j # i => fate'[c][j] = fate[c][j]
  BY Zenon, <1>1, ProcessedFates
<1>3. /\ pump[c] \in PumpType /\ Len(fate[c]) = Len(events[c]) /\ Subscribed(c)
      /\ pump[c].bookmark <= pump[c].at /\ saved[c] \in NoFile..Len(events[c])
  BY Zenon, <1>1, Places
<1>4. pump[c].bookmark \in Nat /\ pump[c].bookmark <= i /\ i \in Nat
  BY <1>3 DEF PumpType
<1>5. \A j \in 1..i : fate'[c][j] # "waiting"
  BY Zenon, <1>1, ProcessedAll
<1>6. Reached(c) = pump[c].bookmark
  BY Zenon, <1>3 DEF Reached
<1>7. \/ Reached(c)' \in {Reached(c), i} /\ Position(c)' \in {Position(c), Reached(c)'}
      \/ Reached(c)' = Position(c) /\ Position(c)' = Position(c)
  <2>1. CASE SkipUnrendered(c)
    <3>1. pump'[c].pc \in {"drain", "ship"} /\ pump'[c].bookmark = pump[c].bookmark
      BY Zenon, <2>1, SkipOutcome DEF AfterEvent
    <3>2. Reached(c)' = Reached(c)
      BY Zenon, <1>6, <3>1 DEF Reached, Subscribed
    <3>3. saved' = saved
      BY Zenon, <2>1, SkipOutcome
    <3>4. Position(c)' = Position(c)
      BY Zenon, <3>3 DEF Position
    <3>5. QED
      BY Zenon, <3>2, <3>4
  <2>2. CASE Ship(c)
    <3>1. pump'[c].pc \in {"drain", "ship"} /\ pump'[c].bookmark = i
      BY Zenon, <2>2, ShipOutcome DEF AfterEvent
    <3>2. saved'[c] \in {saved[c], i}
      BY Zenon, <1>4, <2>2, ShipOutcome, FlushOutcome
    <3>3. Reached(c)' = i
      BY Zenon, <3>1 DEF Reached, Subscribed
    <3>4. Position(c)' \in {Position(c), i}
      BY <1>4, <3>2 DEF Position, NoFile
    <3>5. QED
      BY Zenon, <3>3, <3>4
  <2>3. CASE UpdateFails(c)
    <3>1. pump'[c].pc = "failed" /\ saved'[c] \in {saved[c], pump[c].bookmark}
      BY Zenon, <1>4, <2>3, FailOutcome, FlushOutcome
    <3>2. Reached(c)' = Position(c)'
      BY Zenon, <3>1 DEF Reached, Subscribed
    <3>3. Position(c)' \in {Position(c), pump[c].bookmark}
      BY <1>4, <3>1 DEF Position, NoFile
    <3>4. QED
      BY Zenon, <1>6, <3>2, <3>3
  <2>4. QED
    BY Zenon, <2>1, <2>2, <2>3
<1> PICK n \in 1..Len(events[c]) : n = i
  BY Zenon, <1>2
<1> HIDE DEF i
<1>8. Dealt(c)' = Dealt(c) \cup {i} /\ 1..i \subseteq Dealt(c)'
  <2>1. Dealt(c) = {j \in 1..Len(events[c]) : fate[c][j] # "waiting"}
    BY Zenon, <1>3 DEF Dealt
  <2>2. Dealt(c)' = {j \in 1..Len(events[c]) : fate'[c][j] # "waiting"}
    BY Zenon, <1>2 DEF Dealt
  <2>3. Dealt(c)' = Dealt(c) \cup {i}
    BY Zenon, <1>2, <2>1, <2>2
  <2>4. 1..i \subseteq 1..Len(events[c])
    BY <1>2
  <2>5. QED
    BY Zenon, <1>5, <2>2, <2>3, <2>4
<1>9. CASE Reached(c)' \in {Reached(c), i} /\ Position(c)' \in {Position(c), Reached(c)'}
  <2>1. Reached(c)' >= Reached(c) /\ Reached(c)' \in Nat /\ Reached(c)' <= i
    BY <1>4, <1>6, <1>9
  <2>2. 1..Reached(c)' \subseteq Dealt(c)'
    <3>1. 1..Reached(c)' \subseteq 1..i
      BY Zenon, <1>4, <2>1, RangeIn
    <3>2. QED
      BY Zenon, <1>8, <3>1
  <2>3. Promise(c)!Handle(n)
    BY Zenon, <1>2, <1>8, <1>9, <2>1, <2>2 DEF Promise!Handle, Reached, Dealt
  <2>4. QED
    BY Zenon, <2>3
<1>10. CASE Reached(c)' = Position(c) /\ Position(c)' = Position(c)
  <2>1. Promise(c)!FallBack(n)
    BY Zenon, <1>2, <1>8, <1>10 DEF Promise!FallBack, Reached, Dealt
  <2>2. QED
    BY Zenon, <2>1
<1>11. QED
  BY Zenon, <1>7, <1>9, <1>10

\* The other steps of a pump change nothing the promise knows of.
LEMMA QuietRefines ==
    ASSUME IInv, NEW c \in Channel,
           \/ AccessDenied(c) \/ SubscribeFails(c) \/ Retry(c) \/ Signal(c) \/ Wake(c)
           \/ PullBatch(c) \/ ChannelFull(c)
    PROVE  UNCHANGED Promise(c)!abstract
<1>1. UNCHANGED <<events, fate, saved>> /\ pump[c] \in PumpType
  BY Zenon DEF AccessDenied, SubscribeFails, Retry, Signal, Wake, PullBatch, ChannelFull, logs, IInv, Types
<1>2. Reached(c)' = Reached(c)
  <2>1. CASE AccessDenied(c) \/ SubscribeFails(c) \/ Retry(c)
    <3>1. ~Subscribed(c)
      BY Zenon, <2>1 DEF AccessDenied, SubscribeFails, Retry, Subscribed
    <3>2. pump'[c].pc \in {"denied", "failed", "ended", "start"}
      BY <1>1, <2>1, OverIs DEF AccessDenied, SubscribeFails, Retry, IInv, Types, PumpType
    <3>3. QED
      BY Zenon, <1>1, <3>1, <3>2 DEF Reached, Subscribed, Position
  <2>2. CASE Signal(c) \/ Wake(c) \/ PullBatch(c) \/ ChannelFull(c)
    <3>1. pump'[c].bookmark = pump[c].bookmark /\ Subscribed(c)' = Subscribed(c)
      BY <1>1, <2>2 DEF Signal, Wake, PullBatch, ChannelFull, Subscribed, IInv, Types, PumpType
    <3>2. QED
      BY Zenon, <1>1, <3>1 DEF Reached, Position
  <2>3. QED
    BY Zenon, <2>1, <2>2
<1>3. QED
  BY Zenon, <1>1, <1>2, PromiseStays DEF Dealt, Position

LEMMA LogRefines ==
    ASSUME IInv, NEW c \in Channel, NEW e \in Event, Log(c, e) PROVE Promise(c)!Append
<1>1. /\ Len(events'[c]) = Len(events[c]) + 1 /\ Len(fate'[c]) = Len(fate[c]) + 1
      /\ \A i \in 1..Len(fate[c]) : fate'[c][i] = fate[c][i]
      /\ fate'[c][Len(fate'[c])] = "waiting" /\ Len(fate[c]) \in Nat
  BY DEF IInv, Types, Log
<1>2. Dealt(c)' = Dealt(c)
  BY <1>1 DEF Dealt
<1>3. UNCHANGED <<pump, saved>>
  BY Zenon DEF Log
<1>4. QED
  BY Zenon, <1>1, <1>2, <1>3, PromiseAppends DEF Reached, Subscribed, Position

LEMMA TaskRefines ==
    ASSUME IInv, NEW c \in Channel,
           \/ Join \/ Shutdown \/ Crash \/ (\E s \in {"live", "dry_run"} : Start(s))
           \/ UNCHANGED vars
    PROVE  Promise(c)!Begin \/ UNCHANGED Promise(c)!abstract
<1>1. CASE Join \/ Shutdown \/ UNCHANGED vars
  <2>1. UNCHANGED <<events, fate, pump, saved>>
    BY Zenon, <1>1 DEF Join, Shutdown, vars, logs
  <2>2. QED
    BY Zenon, <2>1, OtherChannel
<1>2. CASE Crash \/ (\E s \in {"live", "dry_run"} : Start(s))
  <2>1. UNCHANGED <<events, fate, saved>> /\ pump'[c].pc = "start"
    BY <1>2 DEF Crash, Start, logs, NewPump
  <2>2. Reached(c)' = Position(c) /\ UNCHANGED <<Len(events[c]), Dealt(c), Position(c)>>
    BY Zenon, <2>1 DEF Reached, Subscribed, Position, Dealt
  <2>3. QED
    BY Zenon, <2>2, PromiseBegins
<1>3. QED
  BY Zenon, <1>1, <1>2

LEMMA StepRefines ==
    ASSUME IInv, [Next]_vars, NEW c \in Channel
    PROVE  Promise(c)!Next \/ UNCHANGED Promise(c)!abstract
<1>1. ASSUME NEW d \in Channel \ {c}, Pump(d) \/ (\E e \in Event : Log(d, e))
      PROVE  UNCHANGED Promise(c)!abstract
  BY Zenon, <1>1, OneChannelMoves, OtherChannel
<1>2. CASE Pump(c)
  <2>1. CASE SkipUnrendered(c) \/ Ship(c) \/ UpdateFails(c)
    BY Zenon, <2>1, EventRefines DEF Promise!Next
  <2>2. CASE Subscribe(c) \/ Cancelled(c) \/ PullFails(c)
    BY Zenon, <2>2, SubscribeRefines, FlushRefines DEF Promise!Next
  <2>3. QED
    BY Zenon, <1>2, <2>1, <2>2, QuietRefines DEF Pump
<1>3. CASE \E e \in Event : Log(c, e)
  BY Zenon, <1>3, LogRefines DEF Promise!Next
<1>4. CASE \/ Join \/ Shutdown \/ Crash \/ (\E s \in {"live", "dry_run"} : Start(s))
           \/ UNCHANGED vars
  BY Zenon, <1>4, TaskRefines DEF Promise!Next
<1>5. QED
  BY Zenon, <1>1, <1>2, <1>3, <1>4 DEF Next

LEMMA InitRefines == Init => \A c \in Channel : Promise(c)!Init
BY DEF Init, Promise!Init, Subscribed, Position, NewPump, NoFile

\* Each channel implements AtLeastOnce: a step of the event log source is a step of the
\* abstract source of the channel or leaves it alone.
THEOREM Refinement == Spec => AtLeastOnceSpec
<1>1. IInv /\ [Next]_vars
          => [\A c \in Channel : Promise(c)!Next \/ UNCHANGED Promise(c)!abstract]_vars
  BY Zenon, StepRefines
<1>2. QED
  BY InitIInv, NextIInv, InitRefines, <1>1, PTL DEF Spec, AtLeastOnceSpec
=============================================================================
