----------------------------- MODULE FileReader -----------------------------
(***************************************************************************)
(* The reader of one file that is being sent: class file_reader of         *)
(* src/service/transfer_common/file_module and the part of                 *)
(* file_reader_manager that drives it.                                     *)
(*                                                                         *)
(* The manager's module thread loads blocks into a cache, some on each     *)
(* tick; the threads of the transfer managers fetch blocks from it and     *)
(* note those they miss.  The cache and the list of missing blocks have a  *)
(* lock each; m_max_block_num_loaded and m_ready have none.                *)
(*                                                                         *)
(* A step of the loader ends where another thread can see a difference: at *)
(* a block entering the cache, at m_max_block_num_loaded, at m_ready.  The *)
(* file does not change while it is read.  expire() is called by nothing.  *)
(***************************************************************************)
EXTENDS Integers, FiniteSets

CONSTANTS
    m_file_blocks_count,     \* blocks of the file
    MIN_LOAD_BLOCKS_COUNT,   \* what a tick loads at least
    Speeds,                  \* the values of m_load_speed_per_second / 10
    Fetcher,                 \* the threads that fetch blocks
    MaxReaders               \* bound on the calls of begin_read_file()

ASSUME BlocksAssumption == m_file_blocks_count \in Nat
ASSUME LoadAssumption == MIN_LOAD_BLOCKS_COUNT \in Nat \ {0} /\ Speeds \subseteq Nat /\ Speeds # {}
ASSUME ReadersAssumption == MaxReaders \in Nat

VARIABLES
    reader,       \* which reader object is in the map: 0 none, else its rank
    readers,      \* begin_read_file() so far (history)
    m_block_datas,
    m_pre_load_block_datas,
    m_missing_block_nums,
    m_max_block_num_loaded,
    m_ready,
    m_crc_calc_idx,
    unchecked,    \* blocks loaded without a checksum
    loader,       \* where the module thread is
    missing,      \* load_missing()'s local copy
    left,         \* blocks sequence_load() still has to read
    fetch         \* where each fetcher is

cache == <<m_block_datas, m_pre_load_block_datas, m_max_block_num_loaded, m_crc_calc_idx, unchecked>>
vars == <<reader, readers, cache, m_missing_block_nums, m_ready, loader, missing, left, fetch>>

Block == 1..m_file_blocks_count

\* A fetcher in get_file_blocks() has the reader object it found, the block it
\* is at, the last one it wants and whether it has just missed it.
Fetching ==
    {p \in [of : 1..MaxReaders, at : Block, last : Block, missed : BOOLEAN] : p.at <= p.last}
Away == [of |-> 0]

\* Everything is of its type; the loader does not count past the end of the file.
TypeOK ==
    /\ readers \in 0..MaxReaders
    /\ reader \in {0, readers}
    /\ m_block_datas \subseteq Block
    /\ m_pre_load_block_datas \subseteq Block
    /\ m_missing_block_nums \subseteq Block
    /\ m_max_block_num_loaded \in 0..m_file_blocks_count
    /\ m_ready \in BOOLEAN
    /\ m_crc_calc_idx \in 1..(m_file_blocks_count + 1)
    /\ unchecked \subseteq Block
    /\ loader \in {"idle", "missing", "load", "ready"}
    /\ missing \subseteq Block
    /\ left \in 0..m_file_blocks_count
    /\ fetch \in [Fetcher -> Fetching \cup {Away}]

\* The fields of a new file_reader.
New ==
    /\ m_block_datas' = {}
    /\ m_pre_load_block_datas' = {}
    /\ m_missing_block_nums' = {}
    /\ m_max_block_num_loaded' = 0
    /\ m_ready' = FALSE
    /\ m_crc_calc_idx' = 1
    /\ unchecked' = {}

Init ==
    /\ reader = 0
    /\ readers = 0
    /\ m_block_datas = {}
    /\ m_pre_load_block_datas = {}
    /\ m_missing_block_nums = {}
    /\ m_max_block_num_loaded = 0
    /\ m_ready = FALSE
    /\ m_crc_calc_idx = 1
    /\ unchecked = {}
    /\ loader = "idle"
    /\ missing = {}
    /\ left = 0
    /\ fetch = [f \in Fetcher |-> Away]

----------------------------------------------------------------------------
(***************************************************************************)
(* Begin and end of reading.  The first is called by a transfer manager,   *)
(* the second is a message to the module thread.                           *)
(***************************************************************************)
begin_read_file ==
    /\ reader = 0
    /\ readers < MaxReaders
    /\ readers' = readers + 1
    /\ reader' = readers + 1
    /\ New
    /\ UNCHANGED <<loader, missing, left, fetch>>

\* A fetcher may still have the object, which nothing loads any more.
end_read_file ==
    /\ reader # 0
    /\ loader = "idle"
    /\ reader' = 0
    /\ UNCHANGED <<readers, cache, m_missing_block_nums, m_ready, loader, missing, left, fetch>>

----------------------------------------------------------------------------
(***************************************************************************)
(* The tick: on_timer_scheduling_file_read(), which calls                  *)
(* load_blocks_on_timer() while not everything counts as loaded.           *)
(***************************************************************************)
TakeMissing ==
    /\ loader = "idle"
    /\ reader # 0
    /\ m_max_block_num_loaded < m_file_blocks_count
    /\ missing' = m_missing_block_nums
    /\ m_missing_block_nums' = {}
    /\ loader' = "missing"
    /\ UNCHANGED <<reader, readers, cache, m_ready, left, fetch>>

\* random_load() of the smallest missing block: read, if it is not cached.
\* Bug to be caught: it raises the maximum as sequence_load() does.
RandomLoadRaisingMax(b) ==
    /\ loader = "missing"
    /\ b \in missing /\ \A c \in missing : b <= c
    /\ missing' = missing \ {b}
    /\ m_block_datas' = m_block_datas \cup {b}
    /\ m_max_block_num_loaded' = IF m_max_block_num_loaded < b THEN b ELSE m_max_block_num_loaded
    /\ UNCHANGED <<reader, readers, m_missing_block_nums, m_pre_load_block_datas,
                   m_crc_calc_idx, unchecked, m_ready, loader, left, fetch>>
\* Its checksum is computed for itself, so a block that is new has one.
RandomLoad(b) ==
    /\ loader = "missing"
    /\ b \in missing /\ \A c \in missing : b <= c
    /\ missing' = missing \ {b}
    /\ m_block_datas' = m_block_datas \cup {b}
    /\ UNCHANGED <<reader, readers, m_missing_block_nums, m_pre_load_block_datas,
                   m_max_block_num_loaded, m_crc_calc_idx, unchecked, m_ready, loader, left, fetch>>

\* load_new_blocks(): how many blocks, given what the transfer last notified
\* as its speed (at any time, from its thread: any of them).
Unloaded == m_file_blocks_count - m_max_block_num_loaded
LoadCount(speed) ==
    LET wanted == IF speed < MIN_LOAD_BLOCKS_COUNT THEN MIN_LOAD_BLOCKS_COUNT ELSE speed
    IN  IF wanted > Unloaded THEN Unloaded ELSE wanted

\* sequence_load(): the number of blocks from block on, kept inside the file.
\* Bug to be caught: the block at the end is not counted.
BlocksFromOneLess(block, count) ==
    IF block + count > m_file_blocks_count THEN m_file_blocks_count - block ELSE count
\* Bug to be caught: one block more, past the end of the file.
BlocksFromOneMore(block, count) ==
    IF block + count > m_file_blocks_count THEN m_file_blocks_count - block + 2 ELSE count
BlocksFrom(block, count) ==
    IF block + count > m_file_blocks_count THEN m_file_blocks_count - block + 1 ELSE count

BeginSequence(speed) ==
    /\ loader = "missing"
    /\ missing = {}
    /\ left' = BlocksFrom(m_max_block_num_loaded + 1, LoadCount(speed))
    /\ loader' = "load"
    /\ UNCHANGED <<reader, readers, cache, m_missing_block_nums, m_ready, missing, fetch>>

\* One turn of its loop.  The block's number is m_max_block_num_loaded + 1
\* throughout; it gets a checksum when m_crc_calc_idx has come to it too.
LoadOne ==
    /\ loader = "load"
    /\ left > 0
    /\ LET cur == m_max_block_num_loaded + 1 IN
        /\ unchecked' = IF m_crc_calc_idx = cur THEN unchecked \ {cur} ELSE unchecked \cup {cur}
        /\ m_pre_load_block_datas' = m_pre_load_block_datas \cup {cur}
        /\ m_max_block_num_loaded' = cur
    /\ m_crc_calc_idx' = m_crc_calc_idx + 1
    /\ left' = left - 1
    /\ UNCHANGED <<reader, readers, m_block_datas, m_missing_block_nums, m_ready, loader, missing, fetch>>

\* The blocks read enter the cache, all at once.
Publish ==
    /\ loader = "load"
    /\ left = 0
    /\ m_block_datas' = m_block_datas \cup m_pre_load_block_datas
    /\ m_pre_load_block_datas' = {}
    /\ loader' = "ready"
    /\ UNCHANGED <<reader, readers, m_missing_block_nums, m_max_block_num_loaded,
                   m_crc_calc_idx, unchecked, m_ready, missing, left, fetch>>

SetReady ==
    /\ loader = "ready"
    /\ m_ready' = TRUE
    /\ loader' = "idle"
    /\ UNCHANGED <<reader, readers, cache, m_missing_block_nums, missing, left, fetch>>

Load ==
    \/ TakeMissing
    \/ \E b \in missing : RandomLoad(b)
    \/ \E speed \in Speeds : BeginSequence(speed)
    \/ LoadOne
    \/ Publish
    \/ SetReady

----------------------------------------------------------------------------
(***************************************************************************)
(* Fetching: get_file_blocks() of some blocks, each of them got, or missed *)
(* and then noted.                                                         *)
(***************************************************************************)
BeginFetch(f, from, last) ==
    /\ fetch[f] = Away
    /\ reader # 0
    /\ fetch' = [fetch EXCEPT ![f] = [of |-> reader, at |-> from, last |-> last, missed |-> FALSE]]
    /\ UNCHANGED <<reader, readers, cache, m_missing_block_nums, m_ready, loader, missing, left>>

\* The fetcher goes on to the next block, or returns what it has.
Advanced(f) ==
    IF fetch[f].at = fetch[f].last THEN Away
    ELSE [of |-> fetch[f].of, at |-> fetch[f].at + 1, last |-> fetch[f].last, missed |-> FALSE]

\* Whether the object the fetcher has holds the block.  An object that has
\* been taken out of the map holds what it held then: either is possible.
Hit(f) == fetch[f].of = reader => fetch[f].at \in m_block_datas
Miss(f) == fetch[f].of = reader => fetch[f].at \notin m_block_datas

Get(f) ==
    /\ fetch[f] # Away
    /\ ~ fetch[f].missed
    /\ \/ Hit(f) /\ fetch' = [fetch EXCEPT ![f] = Advanced(f)]
       \/ Miss(f) /\ fetch' = [fetch EXCEPT ![f].missed = TRUE]
    /\ UNCHANGED <<reader, readers, cache, m_missing_block_nums, m_ready, loader, missing, left>>

notify_missing(f) ==
    /\ fetch[f] # Away
    /\ fetch[f].missed
    /\ m_missing_block_nums' = IF fetch[f].of = reader
                                 THEN m_missing_block_nums \cup {fetch[f].at}
                                 ELSE m_missing_block_nums
    /\ fetch' = [fetch EXCEPT ![f] = Advanced(f)]
    /\ UNCHANGED <<reader, readers, cache, m_ready, loader, missing, left>>

Next ==
    \/ begin_read_file
    \/ end_read_file
    \/ Load
    \/ \E f \in Fetcher :
        \/ \E from \in Block : \E last \in from..m_file_blocks_count : BeginFetch(f, from, last)
        \/ Get(f)
        \/ notify_missing(f)

Spec == Init /\ [][Next]_vars

\* The generator ticks, and the module thread handles its ticks (TimerService,
\* MicroModule).  Nobody is obliged to fetch, or to end.
FairSpec == Spec /\ WF_vars(Load)

----------------------------------------------------------------------------
(***************************************************************************)
(* Properties.                                                             *)
(***************************************************************************)

\* Every block that counts as loaded is in the cache, but for those the loader
\* is just bringing in: so when the manager stops calling the loader, because
\* the last block counts as loaded, nothing is missing, whatever is still in
\* the list of missing blocks or will be noted by a fetcher that is late.
LoadedIsCached ==
    /\ 1..m_max_block_num_loaded \subseteq m_block_datas \cup m_pre_load_block_datas
    /\ loader # "load" => m_pre_load_block_datas = {}

\* The assertions of random_load() and sequence_load(): no block goes out
\* without a checksum, although only blocks that are read in the order of
\* m_crc_calc_idx get one and missing blocks are read out of that order.
EveryBlockHasChecksum ==
    unchecked \cap (m_block_datas \cup m_pre_load_block_datas) = {}

\* A reader that says it is ready has the first block.
ReadyHasBlocks ==
    m_ready => 1 \in m_block_datas

\* A block that a fetcher has missed is in the cache in the end, unless the
\* transfer ends first; the miss may come too late to be looked at.
MissedIsLoaded ==
    \A f \in Fetcher, b \in Block, r \in 1..MaxReaders :
        fetch[f] # Away /\ fetch[f].of = r /\ reader = r /\ fetch[f].at = b /\ fetch[f].missed
            ~> b \in m_block_datas \/ reader # r
=============================================================================
