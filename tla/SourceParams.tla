---------------------------- MODULE SourceParams ----------------------------
(***************************************************************************)
(* The parameters of the log sources of the operating systems: what may be *)
(* logged, the operator's filters, and the bounds.                         *)
(***************************************************************************)
EXTENDS Integers, Sequences, FiniteSets

CONSTANTS
    \* Journal
    Entry,              \* the entries processes may log
    Include, Exclude,   \* journal_include_services, journal_exclude_services
    \* UnifiedLog
    Kind,               \* the kinds of line that occur
    MaxBoots,
    \* EventLog
    Channel,            \* eventlog_channels
    Event,              \* the events that occur
    IncludeIds, ExcludeIds, \* the ranges <<lo, hi>> of eventlog_event_ids
    ExcludeProviders,   \* eventlog_exclude_providers
    Batch,              \* BATCH
    MaxEvents,          \* for each channel
    MaxBadUpdates,
    \* all of them
    SaveInterval,       \* CURSOR_SAVE_INTERVAL, BOOKMARK_SAVE_INTERVAL
    MaxEntries, MaxCrash, MaxBadSaves, MaxStops

ASSUME JournalAssumption ==
    \A e \in Entry : e.line \in {"json", "bad", "long"} /\ e.message \in {"some", "none"}

ASSUME UnifiedAssumption ==
    Kind \subseteq {"message", "self", "structural", "bad", "long"}

ASSUME EventLogAssumption ==
    /\ \A e \in Event : e.xml \in {"fine", "bad", "none"} /\ e.id \in Nat
    /\ Batch \in Nat \ {0} /\ MaxEvents \in [Channel -> Nat]

ASSUME SaveAssumption == SaveInterval \in Nat \ {0}

ASSUME BoundsAssumption ==
    {MaxBoots, MaxBadUpdates, MaxEntries, MaxCrash, MaxBadSaves, MaxStops} \subseteq Nat
=============================================================================
