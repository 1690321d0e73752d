--------------------------- MODULE LogAggregator ---------------------------
(***************************************************************************)
(* LogAggregator (src/sandbox/src/log_aggregator.cpp).  Every operation    *)
(* holds mutex_ from beginning to end and is one step.  A line is a        *)
(* sequence of tokens: tags, spaces, and words, which have no space inside *)
(* (a line break is part of a word: the callers push chunks).              *)
(***************************************************************************)
EXTENDS Integers, Sequences, SequencesExt

CONSTANTS
    Capacities,  \* values of max_entries_; the first one is the greatest
    Words        \* words a line may hold

Largest == CHOOSE c \in Capacities : \A d \in Capacities : d <= c

ASSUME LogAssumption ==
    /\ Capacities \subseteq Nat
    /\ \E c \in Capacities : \A d \in Capacities : d <= c

VARIABLES
    entries,      \* entries_, without the time stamps
    max_entries,  \* max_entries_
    pushed,       \* history: what was pushed since clear(), with the raw line
    low,          \* history: lowest max_entries_ at a push since clear()
    last          \* history: max_entries_ at the last push

logVars == <<entries, max_entries, pushed, low, last>>

LogInit ==
    /\ entries = <<>>
    /\ max_entries = Largest
    /\ pushed = <<>>
    /\ low = Largest
    /\ last = Largest

Entry(source, level, message) ==
    [source |-> source, level |-> level, message |-> message]

\* Faulty variant: one entry too many is dropped when the log is full.
TrimmedFull(log) ==
    IF Len(log) >= max_entries
    THEN SubSeq(log, Len(log) - max_entries + 2, Len(log)) ELSE log

\* pop_front until the size is right.
Trimmed(log) ==
    IF Len(log) > max_entries
    THEN SubSeq(log, Len(log) - max_entries + 1, Len(log)) ELSE log

\* push() of an entry that was made from a raw line.
Store(entry, raw) ==
    /\ entries' = Trimmed(Append(entries, entry))
    /\ pushed' = Append(pushed, [entry |-> entry, raw |-> raw])
    /\ low' = IF max_entries < low THEN max_entries ELSE low
    /\ last' = max_entries
    /\ UNCHANGED max_entries

push(source, level, message) == Store(Entry(source, level, message), message)

\* The prefixes of a line that give its level; each stands for the two
\* spellings "[ERROR]" and "ERROR:".
Tags == [ERROR |-> "error", WARN |-> "warn", DEBUG |-> "debug"]

Tagged(line) == line # <<>> /\ line[1] \in DOMAIN Tags

LevelOf(line) == IF Tagged(line) THEN Tags[line[1]] ELSE "info"

Space == "space"

Tokens == Words \cup DOMAIN Tags \cup {Space}

FirstSpace(line) == SelectInSeq(line, LAMBDA token : token = Space)

\* substr(find(' ') + 1): all of the line where there is no space.
MessageOf(line) ==
    IF Tagged(line) THEN SubSeq(line, FirstSpace(line) + 1, Len(line)) ELSE line

push_raw(source, line) ==
    Store(Entry(source, LevelOf(line), MessageOf(line)), line)

set_max_entries(max) ==
    /\ max_entries' = max
    /\ UNCHANGED <<entries, pushed, low, last>>

clear ==
    /\ entries' = <<>>
    /\ pushed' = <<>>
    /\ low' = Largest
    /\ UNCHANGED <<max_entries, last>>

-----------------------------------------------------------------------------
(* Queries.  A query is by source, or by message: search for a word, or    *)
(* search_regex, where a pattern is the set of words it matches and a bad  *)
(* pattern the empty set.  A regex_search that throws in the middle of the *)
(* scan, which keeps the matches found so far, is left out.                *)

Matches(entry, by, words) ==
    IF by = "source" THEN entry.source \in words
    ELSE ToSet(entry.message) \cap words # {}

\* Faulty variant: the scan starts with the oldest entry.
FoundForward(by, words, limit) ==
    LET results[k \in 0..Len(entries)] ==
            IF k = 0 THEN <<>>
            ELSE IF Len(results[k - 1]) < limit /\ Matches(entries[k], by, words)
            THEN Append(results[k - 1], entries[k]) ELSE results[k - 1]
    IN results[Len(entries)]

\* From the newest entry back until limit are found, then reversed.
Found(by, words, limit) ==
    LET n == Len(entries)
        results[k \in 0..n] ==
            IF k = 0 THEN <<>>
            ELSE IF Len(results[k - 1]) < limit /\ Matches(entries[n - k + 1], by, words)
            THEN <<entries[n - k + 1]>> \o results[k - 1] ELSE results[k - 1]
    IN results[n]

get_recent(count) ==
    LET start == IF Len(entries) > count THEN Len(entries) - count ELSE 0
    IN SubSeq(entries, start + 1, Len(entries))

-----------------------------------------------------------------------------
(* Properties.                                                             *)

\* The log is what was pushed last since clear(), in order: at most as many
\* as max_entries_ allowed at the last push, although the limit may have been
\* lowered since, and no fewer than the tightest limit any push since clear()
\* met (log_aggregator.cpp:15-21, 93-106).
Retained ==
    /\ IsSuffix(entries, [i \in DOMAIN pushed |-> pushed[i].entry])
    /\ Len(entries) <= last
    /\ Len(entries) >= IF Len(pushed) < low THEN Len(pushed) ELSE low

\* The newest entries, as many as were asked for or as there are
\* (log_aggregator.cpp:71-79).
LastOnes(result, all, limit) ==
    /\ IsSuffix(result, all)
    /\ Len(result) = IF limit < Len(all) THEN limit ELSE Len(all)

\* What a query returns: the entries at some of the matching places, in the
\* order they were logged; a match is left out only if as many newer ones as
\* the limit allows were found (log_aggregator.cpp:42-69, 81-91).
LastOf(result, places, limit) ==
    /\ Len(result) <= limit
    /\ \E f \in [DOMAIN result -> places] :
          /\ \A k \in DOMAIN result : result[k] = entries[f[k]]
          /\ \A j, k \in DOMAIN result : j < k => f[j] < f[k]
          /\ \A i \in places : \/ \E k \in DOMAIN result : f[k] = i
                               \/ Len(result) = limit /\ \A k \in DOMAIN result : i < f[k]

\* No word of a raw line is lost: the message is the line without its tag,
\* unless the tag has no space after it.  Then a line with no space at all
\* keeps the tag; of any other, which loses the first word, too, it is only
\* said that the message is what follows one of its spaces
\* (log_aggregator.cpp:23-40).
RawKept ==
    \A i \in DOMAIN pushed :
        LET raw == pushed[i].raw
            message == pushed[i].entry.message
        IN \/ message = raw /\ (FirstSpace(raw) = 0 \/ ~Tagged(raw))
           \/ Tagged(raw) /\ raw = SubSeq(raw, 1, 1) \o <<Space>> \o message
           \/ Tagged(raw) /\ raw[2] # Space /\ IsSuffix(<<Space>> \o message, raw)

\* Retained and RawKept: what happens to a line from the moment it is pushed
\* (log_aggregator.cpp:15-40, 93-106).
LogKept == Retained /\ RawKept
=============================================================================
