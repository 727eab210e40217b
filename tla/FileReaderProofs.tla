-------------------------- MODULE FileReaderProofs --------------------------
(***************************************************************************)
(* Theorems about FileReader, for every number of blocks, speeds and       *)
(* fetchers: its invariants, from the facts about the loader that make     *)
(* them inductive.                                                         *)
(***************************************************************************)
EXTENDS FileReader, TLAPS

\* The checksums keep up with the loader: random_load() touches neither count,
\* so the next block to get one is always the next block to be read.
ChecksumInv ==
    /\ m_crc_calc_idx = m_max_block_num_loaded + 1
    /\ unchecked = {}

\* Where the loader is: once it has begun it has a reader and something to
\* read; it stays inside the file, and has read a block when it is done.
LoaderInv ==
    /\ loader # "idle" => reader # 0
    /\ loader = "missing" => m_max_block_num_loaded < m_file_blocks_count
    /\ loader = "load" =>
        /\ m_max_block_num_loaded + left <= m_file_blocks_count
        /\ left > 0 \/ m_max_block_num_loaded > 0
    /\ loader = "ready" => m_max_block_num_loaded > 0

IInv == TypeOK /\ LoadedIsCached /\ ReadyHasBlocks /\ ChecksumInv /\ LoaderInv

\* A tick that loads blocks reads at least one, and none past the end.
LEMMA SequenceBound ==
    ASSUME m_max_block_num_loaded \in 0..m_file_blocks_count,
           m_max_block_num_loaded < m_file_blocks_count,
           NEW speed \in Speeds
    PROVE  LET n == BlocksFrom(m_max_block_num_loaded + 1, LoadCount(speed))
           IN  n \in 1..m_file_blocks_count /\ m_max_block_num_loaded + n <= m_file_blocks_count
<1>1. speed \in Nat /\ MIN_LOAD_BLOCKS_COUNT \in Nat /\ MIN_LOAD_BLOCKS_COUNT > 0
          /\ m_file_blocks_count \in Nat
  BY LoadAssumption, BlocksAssumption
<1>2. LoadCount(speed) \in Nat /\ LoadCount(speed) > 0
  BY <1>1 DEF LoadCount, Unloaded
<1> QED
  BY <1>1, <1>2 DEF BlocksFrom

\* What a fetcher is left with when it goes on.
LEMMA AdvancedType ==
    ASSUME fetch \in [Fetcher -> Fetching \cup {Away}],
           NEW f \in Fetcher, fetch[f] # Away
    PROVE  Advanced(f) \in Fetching \cup {Away}
<1>1. fetch[f] \in Fetching
  OBVIOUS
<1>2. CASE fetch[f].at = fetch[f].last
  BY <1>2 DEF Advanced
<1>3. CASE fetch[f].at # fetch[f].last
  BY <1>1, <1>3, BlocksAssumption DEF Advanced, Fetching, Block
<1> QED
  BY <1>2, <1>3

LEMMA Initially == Init => IInv
<1> SUFFICES ASSUME Init PROVE IInv
  OBVIOUS
<1>1. TypeOK
  <2>1. m_ready \in BOOLEAN
    BY Zenon DEF Init
  <2>2. fetch \in [Fetcher -> Fetching \cup {Away}]
    BY DEF Init
  <2>3. m_max_block_num_loaded \in 0..m_file_blocks_count /\ left \in 0..m_file_blocks_count
            /\ m_crc_calc_idx \in 1..(m_file_blocks_count + 1)
            /\ readers \in 0..MaxReaders /\ reader \in {0, readers}
    BY BlocksAssumption, ReadersAssumption DEF Init
  <2> QED
    BY <2>1, <2>2, <2>3 DEF Init, TypeOK
<1>2. LoadedIsCached /\ ReadyHasBlocks
  BY DEF Init, LoadedIsCached, ReadyHasBlocks
<1>3. ChecksumInv /\ LoaderInv
  BY DEF Init, ChecksumInv, LoaderInv
<1> QED
  BY <1>1, <1>2, <1>3 DEF IInv

\* The two ends of a reader's life.
LEMMA ReaderKeeps ==
    ASSUME IInv, begin_read_file \/ end_read_file
    PROVE  IInv'
<1>1. CASE begin_read_file
  <2> USE <1>1 DEF begin_read_file, New
  <2>1. m_ready' \in BOOLEAN
    BY Zenon
  <2>2. TypeOK'
    <3>1. m_max_block_num_loaded' \in 0..m_file_blocks_count
              /\ m_crc_calc_idx' \in 1..(m_file_blocks_count + 1)
              /\ readers' \in 0..MaxReaders /\ reader' \in {0, readers'}
      BY BlocksAssumption, ReadersAssumption DEF IInv, TypeOK
    <3> QED
      BY <2>1, <3>1 DEF IInv, TypeOK
  <2>3. LoadedIsCached' /\ ReadyHasBlocks' /\ ChecksumInv'
    BY DEF LoadedIsCached, ReadyHasBlocks, ChecksumInv
  <2>4. LoaderInv'
    BY DEF IInv, LoaderInv
  <2> QED
    BY <2>2, <2>3, <2>4 DEF IInv
<1>2. CASE end_read_file
  BY <1>2 DEF IInv, TypeOK, LoadedIsCached, ReadyHasBlocks, ChecksumInv, LoaderInv,
              end_read_file, cache
<1> QED
  BY <1>1, <1>2

\* The loader.  What is read is held in the list of blocks to be cached until
\* they enter the cache, so the blocks that count as loaded are in one of them.
LEMMA LoadKeeps ==
    ASSUME IInv, Load
    PROVE  IInv'
<1> USE DEF IInv, TypeOK, LoadedIsCached, ReadyHasBlocks, ChecksumInv, LoaderInv
<1>1. CASE TakeMissing
  BY <1>1 DEF TakeMissing, cache
<1>2. ASSUME NEW b \in missing, RandomLoad(b) PROVE IInv'
  BY <1>2 DEF RandomLoad
<1>3. ASSUME NEW speed \in Speeds, BeginSequence(speed) PROVE IInv'
  <2>1. m_max_block_num_loaded < m_file_blocks_count
    BY <1>3 DEF BeginSequence
  <2>2. /\ left' \in 1..m_file_blocks_count
        /\ m_max_block_num_loaded + left' <= m_file_blocks_count
    BY <1>3, <2>1, SequenceBound DEF BeginSequence
  <2> QED
    BY <1>3, <2>2 DEF BeginSequence, cache
<1>4. CASE LoadOne
  <2> DEFINE cur == m_max_block_num_loaded + 1
  <2>1. /\ cur \in Block
        /\ m_max_block_num_loaded' = cur
        /\ m_pre_load_block_datas' = m_pre_load_block_datas \cup {cur}
        /\ unchecked' = {}
        /\ m_crc_calc_idx' = cur + 1
        /\ left' = left - 1
    BY <1>4, BlocksAssumption DEF LoadOne, Block
  <2>2. 1..cur \subseteq m_block_datas \cup m_pre_load_block_datas \cup {cur}
    BY <2>1, BlocksAssumption DEF Block
  <2>3. TypeOK'
    BY <1>4, <2>1, BlocksAssumption DEF LoadOne, Block
  <2>4. LoadedIsCached' /\ ReadyHasBlocks'
    BY <1>4, <2>1, <2>2 DEF LoadOne
  <2>5. ChecksumInv' /\ LoaderInv'
    BY <1>4, <2>1, BlocksAssumption DEF LoadOne
  <2> QED
    BY <2>3, <2>4, <2>5
<1>5. CASE Publish
  BY <1>5 DEF Publish
<1>6. CASE SetReady
  <2>1. 1 \in m_block_datas
    BY <1>6, BlocksAssumption DEF SetReady
  <2> QED
    BY <1>6, <2>1 DEF SetReady, cache
<1> QED
  BY <1>1, <1>2, <1>3, <1>4, <1>5, <1>6 DEF Load

\* The fetchers change nothing but where they are and the missing list.
LEMMA FetchKeeps ==
    ASSUME IInv, NEW f \in Fetcher,
           \/ \E from \in Block : \E last \in from..m_file_blocks_count : BeginFetch(f, from, last)
           \/ Get(f)
           \/ notify_missing(f)
    PROVE  IInv'
<1> USE DEF IInv
<1>1. ASSUME NEW from \in Block, NEW last \in from..m_file_blocks_count, BeginFetch(f, from, last)
      PROVE  IInv'
  <2>1. [of |-> reader, at |-> from, last |-> last, missed |-> FALSE] \in Fetching
    BY <1>1, BlocksAssumption, ReadersAssumption DEF BeginFetch, TypeOK, Fetching, Block
  <2>2. TypeOK'
    BY <1>1, <2>1 DEF BeginFetch, TypeOK, cache
  <2> QED
    BY <1>1, <2>2 DEF BeginFetch, cache, LoadedIsCached, ReadyHasBlocks, ChecksumInv, LoaderInv
<1>2. CASE Get(f)
  <2>1. fetch[f] \in Fetching
    BY <1>2 DEF Get, TypeOK
  <2>2. [fetch[f] EXCEPT !.missed = TRUE] \in Fetching
    BY <2>1 DEF Fetching
  <2>3. fetch' \in [Fetcher -> Fetching \cup {Away}]
    <3>1. CASE fetch' = [fetch EXCEPT ![f] = Advanced(f)]
      BY <1>2, <3>1, AdvancedType DEF Get, TypeOK
    <3>2. CASE fetch' = [fetch EXCEPT ![f].missed = TRUE]
      BY <2>2, <3>2 DEF TypeOK
    <3> QED
      BY <1>2, <3>1, <3>2 DEF Get
  <2> QED
    BY <1>2, <2>3
       DEF Get, cache, TypeOK, LoadedIsCached, ReadyHasBlocks, ChecksumInv, LoaderInv
<1>3. CASE notify_missing(f)
  <2>1. fetch[f] \in Fetching /\ fetch[f].at \in Block
    BY <1>3 DEF notify_missing, TypeOK, Fetching
  <2>2. fetch' \in [Fetcher -> Fetching \cup {Away}]
    BY <1>3, AdvancedType DEF notify_missing, TypeOK
  <2>3. m_missing_block_nums' \subseteq Block
    BY <1>3, <2>1 DEF notify_missing, TypeOK
  <2> QED
    BY <1>3, <2>2, <2>3
       DEF notify_missing, cache, TypeOK, LoadedIsCached, ReadyHasBlocks, ChecksumInv, LoaderInv
<1> QED
  BY <1>1, <1>2, <1>3

LEMMA StutterKeeps ==
    ASSUME IInv, UNCHANGED vars
    PROVE  IInv'
BY DEF IInv, TypeOK, LoadedIsCached, ReadyHasBlocks, ChecksumInv, LoaderInv, vars, cache

LEMMA Inductive == Spec => []IInv
<1>1. IInv /\ [Next]_vars => IInv'
  BY ReaderKeeps, LoadKeeps, FetchKeeps, StutterKeeps DEF Next
<1> QED
  BY Initially, <1>1, PTL DEF Spec

\* The file_reader's fields, the loader and the fetchers have their types.
THEOREM FileReaderTypeCorrect == Spec => []TypeOK
<1>1. IInv => TypeOK
  BY DEF IInv
<1> QED
  BY Inductive, <1>1, PTL

\* file_reader_manager may stop calling the loader when the last block counts
\* as loaded: all of them are in the cache, whoever still misses one.
THEOREM FileReaderLoadedIsCached == Spec => []LoadedIsCached
<1>1. IInv => LoadedIsCached
  BY DEF IInv
<1> QED
  BY Inductive, <1>1, PTL

\* The assertions on checksums in file_reader's two loads never fail.
THEOREM FileReaderEveryBlockHasChecksum == Spec => []EveryBlockHasChecksum
<1>1. IInv => EveryBlockHasChecksum
  BY DEF IInv, ChecksumInv, EveryBlockHasChecksum
<1> QED
  BY Inductive, <1>1, PTL

\* are_u_ready() says yes only if the first block can be got.
THEOREM FileReaderReadyHasBlocks == Spec => []ReadyHasBlocks
<1>1. IInv => ReadyHasBlocks
  BY DEF IInv
<1> QED
  BY Inductive, <1>1, PTL
=============================================================================
