---------------------------- MODULE ReplayCache -----------------------------
(***************************************************************************)
(* precompute_replay: the frames of one storm, read from a cache file on   *)
(* disk or computed and written to it.  Threads of the replay service and  *)
(* the producer process all run it over the same file, without a lock.     *)
(* The file is written in place.  Its content is the set of half lines     *)
(* that were flushed: line i is the halves 2i-1 and 2i, a writer flushes   *)
(* them in order from its own offset, and a half below a flushed one that  *)
(* is missing is a hole of NUL bytes.                                      *)
(***************************************************************************)
EXTENDS Integers, FiniteSets

CONSTANTS
  Loader,      (* threads and processes that may need the frames             *)
  FrameCount   (* the frames of the storm                                    *)

ASSUME CacheAssumption == FrameCount \in Nat \ {0}

VARIABLES
  disk,       (* the content of the cache file                               *)
  load,       (* load[l]: where l stands in precompute_replay                *)
  offset,     (* offset[l]: half lines l has flushed                         *)
  got,        (* got[l]: the number of frames l obtained                     *)
  disturbed   (* history: a file was read or given up while half written     *)

cacheVars == <<disk, load, offset, got, disturbed>>

NoFile == {0}
Writing(l) == load[l] = "write"

CacheInit ==
  /\ disk = NoFile
  /\ load = [l \in Loader |-> "idle"]
  /\ offset = [l \in Loader |-> 0]
  /\ got = [l \in Loader |-> 0]
  /\ disturbed = FALSE

(* The frames a reader takes from the file: whole lines parse, a torn line *)
(* or a hole raises, and no line at all counts as no cache.                *)
Parsed == {k \in 1 .. FrameCount : disk = 1 .. 2 * k}

StartLoad(l) ==
  /\ load' = [load EXCEPT ![l] = "read"]
  /\ UNCHANGED <<disk, offset, got, disturbed>>

(* A file that parses is taken for complete.                               *)
ReadCache(l) ==
  /\ load[l] = "read"
  /\ \/ \E k \in Parsed :
          /\ got' = [got EXCEPT ![l] = k]
          /\ load' = [load EXCEPT ![l] = "loaded"]
     \/ /\ Parsed = {}
        /\ load' = [load EXCEPT ![l] = "compute"]
        /\ UNCHANGED got
  /\ disturbed' = (disturbed \/ \E m \in Loader : Writing(m))
  /\ UNCHANGED <<disk, offset>>

(* All frames are computed first; then the file is truncated.              *)
OpenCache(l) ==
  /\ load[l] = "compute"
  /\ disk' = {}
  /\ offset' = [offset EXCEPT ![l] = 0]
  /\ load' = [load EXCEPT ![l] = "write"]
  /\ UNCHANGED <<got, disturbed>>

FlushHalf(l) ==
  /\ Writing(l)
  /\ offset[l] < 2 * FrameCount
  /\ disk' = disk \cup {offset[l] + 1}
  /\ offset' = [offset EXCEPT ![l] = @ + 1]
  /\ UNCHANGED <<load, got, disturbed>>

CloseShort(l) ==  (* mutant: the last frame is not written                        *)
  /\ Writing(l)
  /\ offset[l] = 2 * (FrameCount - 1)
  /\ got' = [got EXCEPT ![l] = FrameCount]
  /\ load' = [load EXCEPT ![l] = "loaded"]
  /\ offset' = [offset EXCEPT ![l] = 0]
  /\ UNCHANGED <<disk, disturbed>>

(* The writer goes on with what it computed, not with what it wrote.       *)
CloseCache(l) ==
  /\ Writing(l)
  /\ offset[l] = 2 * FrameCount
  /\ got' = [got EXCEPT ![l] = FrameCount]
  /\ load' = [load EXCEPT ![l] = "loaded"]
  /\ offset' = [offset EXCEPT ![l] = 0]
  /\ UNCHANGED <<disk, disturbed>>

(* The caller has taken the frames.                                        *)
Return(l) ==
  /\ load' = [load EXCEPT ![l] = "idle"]
  /\ got' = [got EXCEPT ![l] = 0]
  /\ UNCHANGED <<disk, offset, disturbed>>

(* The loaders of a process that dies.                                     *)
LoadersDie(dying) ==
  /\ load' = [l \in Loader |-> IF l \in dying THEN "idle" ELSE load[l]]
  /\ offset' = [l \in Loader |-> IF l \in dying THEN 0 ELSE offset[l]]
  /\ got' = [l \in Loader |-> IF l \in dying THEN 0 ELSE got[l]]
  /\ disturbed' = (disturbed \/ \E l \in dying : Writing(l))
  /\ UNCHANGED disk

precompute_replay(l) == ReadCache(l) \/ OpenCache(l) \/ FlushHalf(l) \/ CloseCache(l)

(* A replay is short only because a reader met the file of an unfinished   *)
(* writer, or because a writer died: left alone, every load gives all the  *)
(* frames.  The code cannot tell a short file from a whole one.            *)
(* (replay.py:200-216, 277-287)                                            *)
ShortReplayHasACause ==
  \A l \in Loader : load[l] = "loaded" /\ got[l] < FrameCount => disturbed
=============================================================================
