------------------------------ MODULE CpuTimes ------------------------------
(***************************************************************************)
(* One row of /proc/stat and the shares of it that CpuCollector reports    *)
(* (metrics/linux/cpu.rs).  A share is reported as a percentage of the     *)
(* time between two readings; here it is a number of jiffies out of dt.    *)
(* system stands for irq and softirq as well, which are added to it, and   *)
(* busy_percent is left out.                                               *)
(***************************************************************************)
EXTENDS MetricsParams

Field == {"user", "nice", "system", "idle", "iowait", "steal"}

VARIABLES
    times,          \* the row in the kernel
    prev,           \* the last reading, Unread before the first
    back,           \* the jiffies the kernel took back since the last reading
    shares,         \* the last report: dt, the five shares, and back
    taken           \* the times it took some back

vars == <<times, prev, back, shares, taken>>

Unread == [f \in Field |-> -1]
NoShares == [dt |-> 0, user |-> 0, system |-> 0, idle |-> 0, iowait |-> 0, steal |-> 0,
             back |-> 0]

Init ==
    /\ times = [f \in Field |-> 0] /\ prev = Unread
    /\ shares = NoShares /\ back = 0 /\ taken = 0

-----------------------------------------------------------------------------
\* CpuTimes::total
total(t) == t["user"] + t["nice"] + t["system"] + t["idle"] + t["iowait"] + t["steal"]

saturating_sub(a, b) == IF a >= b THEN a - b ELSE 0

\* (mutant) nice is counted in the time and in no share.
UserOnly(t) == t["user"]

\* user and nice are one share.
User(t) == t["user"] + t["nice"]

\* emit_deltas
emit_deltas(old, new) ==
    LET pct(f) == saturating_sub(new[f], old[f])
    IN  [dt |-> saturating_sub(total(new), total(old)),
         user |-> saturating_sub(User(new), User(old)), system |-> pct("system"),
         idle |-> pct("idle"), iowait |-> pct("iowait"), steal |-> pct("steal"),
         back |-> back]

\* CpuCollector: nothing is reported at the first reading, nor if no time went by.
Collect ==
    /\ shares' = IF prev = Unread \/ emit_deltas(prev, times).dt = 0 THEN shares
                 ELSE emit_deltas(prev, times)
    /\ prev' = times /\ back' = 0
    /\ UNCHANGED <<times, taken>>

Reinit == prev' = Unread /\ UNCHANGED <<times, back, shares, taken>>

-----------------------------------------------------------------------------
(* The kernel *)

Jiffy(f) ==
    /\ total(times) < MaxJiffies /\ times' = [times EXCEPT ![f] = @ + 1]
    /\ UNCHANGED <<prev, back, shares, taken>>

\* idle and iowait are estimates, and may be corrected downwards.
TakeBack(f) ==
    /\ f \in {"idle", "iowait"} /\ times[f] > 0 /\ taken < MaxTaken
    /\ times' = [times EXCEPT ![f] = @ - 1] /\ back' = back + 1 /\ taken' = taken + 1
    /\ UNCHANGED <<prev, shares>>

Clock == \E f \in Field : Jiffy(f) \/ TakeBack(f)

Next == Collect \/ Reinit \/ Clock
Spec == Init /\ [][Next]_vars

-----------------------------------------------------------------------------
\* The variables have their types.
TypeOK ==
    /\ times \in [Field -> Nat] /\ prev \in [Field -> Nat] \cup {Unread}
    /\ shares \in [DOMAIN NoShares -> Nat] /\ back \in Nat /\ taken \in Nat

\* The shares of a row add up to the time between the two readings, 100 %; when the
\* kernel took jiffies back they exceed it by at most what it took.
SharesAddUp ==
    LET all == shares.user + shares.system + shares.idle + shares.iowait + shares.steal
    IN  shares.dt <= all /\ all <= shares.dt + shares.back
=============================================================================
