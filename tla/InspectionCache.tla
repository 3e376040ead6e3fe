--------------------------- MODULE InspectionCache ---------------------------
(***************************************************************************)
(* inspect() with its cache: src/mcp/netcdf_reader/cache.py and the control *)
(* of tools/inspect.py around it.  Several MCP servers may share one        *)
(* .metplot/inspections directory; each runs one tool call at a time.       *)
(*                                                                          *)
(* The key of a local file is taken from stat before the file is opened,    *)
(* and the result is written under that key with Path.write_text, which     *)
(* truncates the entry and then fills it.  A path that names no local file  *)
(* has one key, whenever it is asked: so has a file that is not there just  *)
(* now, and so has every list of files on a remote host, whose ssh:// names *)
(* are looked up on the local disc.  The key of one remote file is its URL. *)
(* With a mesh_path the cache is neither read nor written.                  *)
(***************************************************************************)
EXTENDS SourceFile

CONSTANTS NoEntry,    \* no file under a key
          Damaged,    \* a file that does not parse as JSON
          Missing,    \* key of a path at which stat finds nothing
          NoKey,      \* key of a call that does not use the cache
          NoAnswer    \* a call that has not answered, or answered an error

Texts == [version : Versions, paired : BOOLEAN]

ASSUME InspectionCacheAssumptions ==
    /\ NoEntry # Damaged
    /\ NoEntry \notin Texts /\ Damaged \notin Texts /\ NoAnswer \notin Texts
    /\ NoKey \notin Versions \union {Missing} /\ Missing \notin Versions

(* A version is the key of the file as stat shows it; the first is also    *)
(* that of a URL.                                                          *)
Keys == Versions \union {Missing}

VARIABLES
    kind,      \* of the source: a local file, a URL, files on a remote host
    there,     \* it exists at the moment
    entry,     \* the cache entry of each key
    step,      \* where each server is in inspect
    key,       \* the key of its call
    paired,    \* its call has a mesh_path
    text,      \* the result it computed from the file
    told,      \* the result it returned
    from, to,  \* versions of the source when the call began and ended
    missed     \* it did not exist when the call began

inspectVars == <<kind, there, entry, step, key, paired, text, told, from, to,
                 missed>>

InspectInit ==
    /\ SourceInit
    /\ kind \in {"local", "url", "multi"} /\ there \in BOOLEAN
    /\ entry = [k \in Keys |-> NoEntry]
    /\ step = [s \in Servers |-> "idle"]
    /\ key = [s \in Servers |-> NoKey]
    /\ paired = [s \in Servers |-> FALSE]
    /\ text = [s \in Servers |-> NoAnswer]
    /\ told = [s \in Servers |-> NoAnswer]
    /\ from = [s \in Servers |-> 0] /\ to = [s \in Servers |-> 0]
    /\ missed = [s \in Servers |-> FALSE]

----------------------------------------------------------------------------
(* The call of s returns a, and forgets what it worked with. *)
Tell(s, a) ==
    /\ step' = [step EXCEPT ![s] = "idle"]
    /\ told' = [told EXCEPT ![s] = a]
    /\ to' = [to EXCEPT ![s] = stamp]
    /\ text' = [text EXCEPT ![s] = NoAnswer]
    /\ key' = [key EXCEPT ![s] = NoKey]
    /\ UNCHANGED <<kind, there, paired, from, missed>>

(* inspection_key: the URL, or what stat says of the file, if it finds one. *)
Key == CASE kind = "url" -> 0
         [] kind = "local" /\ there -> stamp
         [] OTHER -> Missing

(* StatKey that takes a key although the call has a mesh_path. *)
StatKeyAlways(s, mesh) ==
    /\ step[s] = "idle"
    /\ key' = [key EXCEPT ![s] = Key]
    /\ step' = [step EXCEPT ![s] = "lookup"]
    /\ paired' = [paired EXCEPT ![s] = mesh]
    /\ told' = [told EXCEPT ![s] = NoAnswer]
    /\ from' = [from EXCEPT ![s] = stamp]
    /\ missed' = [missed EXCEPT ![s] = ~there]
    /\ UNCHANGED <<kind, there, entry, text, to, stamp>>

(* There is a key unless there is a mesh_path. *)
StatKey(s, mesh) ==
    /\ step[s] = "idle"
    /\ key' = [key EXCEPT ![s] = IF mesh THEN NoKey ELSE Key]
    /\ step' = [step EXCEPT ![s] = IF mesh THEN "open" ELSE "lookup"]
    /\ paired' = [paired EXCEPT ![s] = mesh]
    /\ told' = [told EXCEPT ![s] = NoAnswer]
    /\ from' = [from EXCEPT ![s] = stamp]
    /\ missed' = [missed EXCEPT ![s] = ~there]
    /\ UNCHANGED <<kind, there, entry, text, to, stamp>>

(* Lookup that returns whatever the entry holds. *)
LookupUnparsed(s) ==
    /\ step[s] = "lookup"
    /\ IF entry[key[s]] # NoEntry
       THEN Tell(s, entry[key[s]])
       ELSE /\ step' = [step EXCEPT ![s] = "open"]
            /\ UNCHANGED <<kind, there, key, paired, text, told, from, to, missed>>
    /\ UNCHANGED <<entry, stamp>>

(* read_inspection: an entry that does not parse counts as a miss. *)
Lookup(s) ==
    /\ step[s] = "lookup"
    /\ IF entry[key[s]] \in Texts
       THEN Tell(s, entry[key[s]])
       ELSE /\ step' = [step EXCEPT ![s] = "open"]
            /\ UNCHANGED <<kind, there, key, paired, text, told, from, to, missed>>
    /\ UNCHANGED <<entry, stamp>>

(* Lines 110-391: the file is opened and summarised; every error on the    *)
(* way returns at once and leaves the cache alone.                         *)
ReadSource(s) ==
    /\ step[s] = "open"
    /\ \/ /\ there
          /\ text' = [text EXCEPT ![s] =
                        [version |-> stamp, paired |-> paired[s]]]
          /\ step' = [step EXCEPT ![s] = "summarised"]
          /\ UNCHANGED <<kind, there, key, paired, told, from, to, missed>>
       \/ Tell(s, NoAnswer)
    /\ UNCHANGED <<entry, stamp>>

Uncached(s) ==
    /\ step[s] = "summarised" /\ key[s] = NoKey
    /\ Tell(s, text[s])
    /\ UNCHANGED <<entry, stamp>>

(* TruncateEntry under a key taken after the file was read. *)
TruncateEntryRekeyed(s) ==
    /\ step[s] = "summarised" /\ key[s] # NoKey
    /\ key' = [key EXCEPT ![s] = stamp]
    /\ entry' = [entry EXCEPT ![stamp] = Damaged]
    /\ step' = [step EXCEPT ![s] = "truncated"]
    /\ UNCHANGED <<kind, there, paired, text, told, from, to, missed, stamp>>

(* write_inspection: write_text truncates the file before it fills it. *)
TruncateEntry(s) ==
    /\ step[s] = "summarised" /\ key[s] # NoKey
    /\ entry' = [entry EXCEPT ![key[s]] = Damaged]
    /\ step' = [step EXCEPT ![s] = "truncated"]
    /\ UNCHANGED <<kind, there, key, paired, text, told, from, to, missed,
                   stamp>>

(* Over the text another server wrote meanwhile, the shorter of two        *)
(* different texts leaves the tail of the longer one behind.               *)
FillEntry(s) ==
    /\ step[s] = "truncated"
    /\ \/ entry' = [entry EXCEPT ![key[s]] = text[s]]
       \/ /\ entry[key[s]] \in Texts \ {text[s]}
          /\ entry' = [entry EXCEPT ![key[s]] = Damaged]
    /\ Tell(s, text[s])
    /\ UNCHANGED stamp

(* The call ends in the middle, with the process, or because stat, the     *)
(* read of an entry or its write raises, which nothing catches (lines 103, *)
(* 105 and 394); a truncated entry stays as it is.                         *)
CrashInspect(s) ==
    /\ step[s] # "idle"
    /\ Tell(s, NoAnswer)
    /\ UNCHANGED <<entry, stamp>>

Inspect(s) ==
    \/ \E mesh \in BOOLEAN : StatKey(s, mesh)
    \/ Lookup(s) \/ ReadSource(s) \/ Uncached(s)
    \/ TruncateEntry(s) \/ FillEntry(s)

(* The file is written anew, removed, or put back as it was. *)
Replace == Rewrite /\ there' = TRUE
Remove == there' = FALSE /\ UNCHANGED stamp
PutBack == there' = TRUE /\ UNCHANGED stamp

InspectNext ==
    \/ \E s \in Servers : Inspect(s) \/ CrashInspect(s)
    \/ /\ Replace \/ Remove \/ PutBack
       /\ UNCHANGED <<kind, entry, step, key, paired, text, told, from, to,
                      missed>>

InspectSpec == InspectInit /\ [][InspectNext]_<<stamp, inspectVars>>

----------------------------------------------------------------------------
(* The types: an entry holds a summary of a version, or does not parse.     *)
InspectTypeOK ==
    /\ stamp \in Versions /\ kind \in {"local", "url", "multi"}
    /\ there \in BOOLEAN /\ missed \in [Servers -> BOOLEAN]
    /\ entry \in [Keys -> Texts \union {NoEntry, Damaged}]
    /\ step \in [Servers -> {"idle", "lookup", "open", "summarised",
                             "truncated"}]
    /\ key \in [Servers -> Keys \union {NoKey}]
    /\ paired \in [Servers -> BOOLEAN]
    /\ text \in [Servers -> Texts \union {NoAnswer}]
    /\ told \in [Servers -> Texts \union {NoAnswer}]
    /\ from \in [Servers -> Versions] /\ to \in [Servers -> Versions]

(* A source whose key does not change with it: one on a remote host, and a *)
(* local file that was not there when the call began.                      *)
Undated(s) == ~paired[s] /\ (kind # "local" \/ missed[s])

(* The cache never shows in the answer: what inspect returns describes a   *)
(* version the file had between the start and the end of the call, however *)
(* rewrites and removals of the file, other servers and crashes fall       *)
(* between stat, lookup, open and the two halves of the write.  Where the  *)
(* key does not change with the source the summary may be of any earlier   *)
(* version: the entry is never renewed.  The cycle-1 spec says so of a     *)
(* remote file (line 216); of a local one that was not there at first it   *)
(* says nothing.                                                           *)
InspectFresh ==
    \A s \in Servers : told[s] # NoAnswer =>
        /\ told[s].version <= to[s]
        /\ told[s].version >= from[s] \/ Undated(s)

(* A summary paired with a mesh is never returned to a call without one,   *)
(* nor the other way round ("would silently return the unpaired envelope   *)
(* on retry", inspect.py:97).                                              *)
InspectAsAsked ==
    \A s \in Servers : told[s] # NoAnswer => told[s].paired = paired[s]

(* Both: of a local file that is there, inspect answers with the cache what *)
(* it would have answered without one at some moment of the call.           *)
CacheNeverShows == InspectFresh /\ InspectAsAsked
=============================================================================
